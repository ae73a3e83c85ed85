-------------------------------- MODULE Sleeps --------------------------------
(***************************************************************************)
(* sleeps.c: functions that sleep for a number of seconds, milliseconds or *)
(* microseconds, and those that are to sleep the whole time although       *)
(* signals interrupt them.  All six are nanosleep(), called once or in a   *)
(* loop, and errno, which a nanosleep() that succeeds leaves alone.        *)
(***************************************************************************)
EXTENDS Integers

CONSTANTS
  Unit,           \* Unit[f]: ticks in the unit of function f
  MaxAsked,       \* bound: units asked for in one call
  MaxInterrupts,  \* bound: signals that are handled during the calls
  MaxSlept        \* bound: ticks counted of one call

Plain == {"sleep_seconds", "sleep_milliseconds", "sleep_microseconds"}
Fully == {"sleep_seconds_fully", "sleep_milliseconds_fully", "sleep_microseconds_fully"}
Function == Plain \cup Fully

Error == -1

VARIABLES
  errno,
  function,      \* the function being called, or "none"
  request,       \* ticks that it asks of nanosleep()
  remain,        \* ticks that nanosleep() has left, set when it is interrupted
  return_value,  \* what nanosleep() returned
  pc,            \* "idle", "nanosleep", "test" or "returned"
  result,        \* what the function returned, all errors being Error
  slept,         \* ticks slept in this call
  interrupts     \* bounded counter

vars == <<errno, function, request, remain, return_value, pc, result, slept, interrupts>>

\* Whatever the program did before may have left EINTR in errno.
Init ==
  /\ errno \in {"none", "EINTR"}
  /\ function = "none" /\ request = 0 /\ remain = 0 /\ return_value = -1
  /\ pc = "idle" /\ result = 0 /\ slept = 0 /\ interrupts = 0

Call ==
  /\ pc = "idle" /\ pc' = "nanosleep"
  /\ \E f \in Function, n \in -1..MaxAsked :
       function' = f /\ request' = n * Unit[f]
  /\ remain' = 0 /\ return_value' = -1 /\ slept' = 0
  /\ UNCHANGED <<errno, result, interrupts>>

Sleep(ticks) == slept' = IF slept + ticks > MaxSlept THEN MaxSlept ELSE slept + ticks

\* Success changes neither errno nor remain, and request is never changed.
Nanosleep ==
  /\ pc = "nanosleep" /\ pc' = "test"
  /\ \/ /\ request < 0
        /\ return_value' = -1 /\ errno' = "EINVAL"
        /\ UNCHANGED <<remain, slept, interrupts>>
     \/ /\ request >= 0
        /\ return_value' = 0 /\ Sleep(request)
        /\ UNCHANGED <<errno, remain, interrupts>>
     \/ /\ interrupts < MaxInterrupts /\ interrupts' = interrupts + 1
        /\ return_value' = -1 /\ errno' = "EINTR"
        /\ \E left \in 1..request : remain' = left /\ Sleep(request - left)
  /\ UNCHANGED <<function, request, result>>

Again == function \in Fully /\ errno = "EINTR" /\ remain > 0

\* The plain functions return the whole units that are left; for seconds, less
\* than one is an error.
Test ==
  /\ pc = "test"
  /\ IF Again
     THEN pc' = "nanosleep" /\ UNCHANGED result
     ELSE /\ pc' = "returned"
          /\ result' = IF return_value = 0 THEN 0
                       ELSE IF function \in Plain /\ errno = "EINTR"
                               /\ (function = "sleep_seconds" => remain >= Unit[function])
                            THEN remain \div Unit[function]
                            ELSE Error
  /\ UNCHANGED <<errno, function, request, remain, return_value, slept, interrupts>>

Return ==
  /\ pc = "returned" /\ pc' = "idle"
  /\ UNCHANGED <<errno, function, request, remain, return_value, result, slept, interrupts>>

Next == Call \/ Nanosleep \/ Test \/ Return

\* A thread that is in a call keeps running, and time passes.
Spec == Init /\ [][Next]_vars /\ WF_vars(Nanosleep) /\ WF_vars(Test)

-----------------------------------------------------------------------------
\* The functions that sleep "fully" are to be interrupted by no signal, and to
\* sleep the time once: with a bounded number of signals each call returns.
SleepEnds == pc = "nanosleep" ~> pc = "returned"
=============================================================================
