-------------------------- MODULE SimpleApplication --------------------------
(***************************************************************************)
(* The program that the comment on sig_simple_register() in                *)
(* signal_handling.h gives as an example: register the critical and the    *)
(* plain signals, then work and sleep until a critical signal has come.    *)
(* Its work may start child processes and wait for them.                   *)
(***************************************************************************)
EXTENDS SignalHandling

CONSTANT WaitsItself  \* the program waits for some of its children itself

\* SIGCHLD is one of the signals that the program registers.
ASSUME ApplicationAssumption ==
  \A l \in Lists :
    \E list \in {l.critical, l.plain} : \E i \in DOMAIN list : list[i] = SIGCHLD

VARIABLE at  \* how far main() has come

appVars == <<vars, at>>

AppInit == Init /\ at = "start"

Start ==
  /\ at = "start" /\ at' = "registering"
  /\ \E l \in Lists : CallSimpleRegister(l)

Registered ==
  /\ at = "registering" /\ At("idle")
  /\ at' = IF result = "ok" THEN "check" ELSE "over"
  /\ UNCHANGED vars

CheckCriticalFlag ==
  /\ at = "check" /\ At("idle")
  /\ at' = IF s_critical_flag THEN "over" ELSE "work"
  /\ UNCHANGED vars

\* waitpid() in the program takes a child before the handler can.
WaitItself ==
  /\ WaitsItself /\ zombies > 0
  /\ zombies' = zombies - 1 /\ stray' = stray + 1
  /\ UNCHANGED <<library, kernel, program, sent, children, forks, stops, merged>>

Work ==
  /\ at = "work" /\ At("idle") /\ at' = "sleep"
  /\ Fork \/ WaitItself \/ UNCHANGED vars

\* sleep(1) ends after a second, or earlier when a handler has run.
Sleep ==
  /\ at = "sleep" /\ At("idle") /\ at' = "check"
  /\ UNCHANGED vars

ReturnFromMain ==
  /\ at = "over" /\ at' = "exiting"
  /\ Enter("exit")
  /\ pc' = IF s_sig_info_tables = "NULL" THEN "reset" ELSE "free"
  /\ UNCHANGED <<library, kernel, family, lists, todo, result, kept, sent>>

Main ==
  \/ Start \/ Registered \/ CheckCriticalFlag \/ Work \/ Sleep \/ ReturnFromMain
  \/ (Step /\ UNCHANGED at)

AppNext == Main \/ ((Handle \/ Kernel) /\ UNCHANGED at)

AppSpec == AppInit /\ [][AppNext]_appVars

\* The program, its handlers and the delivery of signals go on; children may
\* live as long as they like.
FairAppSpec ==
  /\ AppSpec
  /\ WF_appVars(Main) /\ WF_appVars(Handle /\ UNCHANGED at)
  /\ \A s \in Signal : WF_appVars(Deliver(s) /\ UNCHANGED at)

-----------------------------------------------------------------------------
(* Properties.                                                             *)

\* The handler of SIGCHLD waits for one child, and SIGCHLDs merge.  A child
\* that ended is not left a zombie but for the merging: for each zombie there
\* is a SIGCHLD to come, a handler that has not yet waited, or one that was
\* merged into another.
Count(condition) == IF condition THEN 1 ELSE 0
ZombiesAreAwaited ==
  zombies <= merged + Count(SIGCHLD \in pending)
             + Count(\E i \in DOMAIN frames : frames[i].signum = SIGCHLD)

\* The handler of SIGCHLD holds up the program in its wait() only if a SIGCHLD
\* came without a child for it: one that stopped, or was taken by the program.
HeldUp == \E i \in DOMAIN frames : frames[i].step = "waiting"
BlockedOnlyByStray == HeldUp => stray > 0

\* A critical signal that comes once the signals are registered ends the
\* program, at whatever point of its loop or of another handler it comes,
\* unless the program is held up by the handler of SIGCHLD.
IsCritical(s) == \E i \in DOMAIN lists.critical : lists.critical[i] = s
CriticalEnds ==
  \A s \in Signal \ {SIGCHLD} :
    (IsCritical(s) /\ s \in pending /\ at \in {"check", "work", "sleep"}) ~>
      (process # "running" \/ HeldUp)
=============================================================================
