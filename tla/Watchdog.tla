------------------------------ MODULE Watchdog ------------------------------
(***************************************************************************)
(* The watchdog (watchdog.c): a thread that traps when the main loop has   *)
(* not ticked for Fatal milliseconds.  Clocks are kept as what the code    *)
(* subtracts: the time since the thread read its clock and since main      *)
(* ticked, each up to a cap beyond which no test tells values apart.       *)
(***************************************************************************)
EXTENDS Integers

CONSTANTS
  Threshold,  \* suspend_threshold: a longer pause is taken for a suspend
  Warning,    \* warning_delay_ms
  Fatal       \* fatal_delay_ms

\* What watchdog_start asserts
ASSUME DelaysAssumption ==
  Threshold \in Nat /\ {Warning, Fatal} \subseteq Nat \ {0} /\ Warning < Fatal

VARIABLES
  mpc,       \* the main thread: "off", "run", "stopping", "join"
  wpc,       \* the watchdog thread
  running, flag,         \* fields of watchdog_t; flag: watchdog_tick_set
  since, warned,         \* time_since_last_tick, warn_reported
  lag,       \* time since last_tick was read
  quiet,     \* time awake since the last tick of main
  seen       \* history: quiet when the flag was read

vars == <<mpc, wpc, running, flag, since, warned, lag, quiet, seen>>

Init ==
  /\ mpc = "off" /\ wpc = "exited" /\ running = FALSE /\ flag = TRUE
  /\ since = 0 /\ warned = FALSE /\ lag = 0 /\ quiet = 0 /\ seen = 0

Upto(n, cap) == IF n < cap THEN n ELSE cap

-----------------------------------------------------------------------------
(* The main thread. *)

\* watchdog_start; ZEROMEM sets the flag.
Start ==
  /\ mpc = "off" /\ mpc' = "run" /\ wpc' = "start"
  /\ running' = TRUE /\ flag' = TRUE /\ quiet' = 0
  /\ UNCHANGED <<since, warned, lag, seen>>

\* watchdog_tick
Tick ==
  /\ mpc = "run"
  /\ flag' = TRUE /\ quiet' = 0
  /\ UNCHANGED <<mpc, wpc, running, since, warned, lag, seen>>

\* watchdog_shutdown: running is cleared, then the flag set, then the join.
Stop ==
  /\ mpc = "run" /\ mpc' = "stopping" /\ running' = FALSE
  /\ UNCHANGED <<wpc, flag, since, warned, lag, quiet, seen>>

StopTick ==
  /\ mpc = "stopping" /\ mpc' = "join" /\ flag' = TRUE /\ quiet' = 0
  /\ UNCHANGED <<wpc, running, since, warned, lag, seen>>

Join ==
  /\ mpc = "join" /\ wpc = "exited" /\ mpc' = "off"
  /\ UNCHANGED <<wpc, running, flag, since, warned, lag, quiet, seen>>

-----------------------------------------------------------------------------
(* watchdog_thread_proc *)

ReadClock ==
  /\ wpc = "start" /\ wpc' = "top"
  /\ lag' = 0 /\ since' = 0 /\ warned' = FALSE
  /\ UNCHANGED <<mpc, running, flag, quiet, seen>>

Runs == running

Exit ==
  /\ wpc = "top" /\ ~Runs /\ wpc' = "exited"
  /\ UNCHANGED <<mpc, running, flag, since, warned, lag, quiet, seen>>

\* Mutants: every pause counts; a pause of just the threshold does not.
BugCounted(dt) == dt
BugCountedBelow(dt) == IF dt < Threshold THEN dt ELSE 0
Counted(dt) == IF dt <= Threshold THEN dt ELSE 0

Count ==
  /\ wpc = "top" /\ Runs /\ wpc' = "load"
  /\ since' = Upto(since + Counted(lag), Fatal) /\ lag' = 0
  /\ UNCHANGED <<mpc, running, flag, warned, quiet, seen>>

Load ==
  /\ wpc = "load" /\ wpc' = IF flag THEN "store" ELSE "check"
  /\ seen' = quiet
  /\ UNCHANGED <<mpc, running, flag, since, warned, lag, quiet>>

\* A tick between the load and the store is overwritten.
Store ==
  /\ wpc = "store" /\ wpc' = "check"
  /\ flag' = FALSE /\ since' = 0 /\ warned' = FALSE
  /\ UNCHANGED <<mpc, running, lag, quiet, seen>>

TooLong == since >= Fatal

Check ==
  /\ wpc = "check" /\ wpc' = IF TooLong THEN "trapped" ELSE "top"
  /\ warned' = (warned \/ (since >= Warning /\ ~TooLong))
  /\ UNCHANGED <<mpc, running, flag, since, lag, quiet, seen>>

-----------------------------------------------------------------------------
Elapse ==
  /\ wpc # "trapped"
  /\ lag' = Upto(lag + 1, Threshold + 1) /\ quiet' = Upto(quiet + 1, Fatal + Threshold)
  /\ UNCHANGED <<mpc, wpc, running, flag, since, warned, seen>>

\* The device sleeps: clocks jump, main had no time to tick.
Suspend ==
  /\ wpc # "trapped"
  /\ lag' = Threshold + 1
  /\ UNCHANGED <<mpc, wpc, running, flag, since, warned, quiet, seen>>

Trapped == wpc = "trapped" /\ UNCHANGED vars

Watch == ReadClock \/ Exit \/ Count \/ Load \/ Store \/ Check

Next ==
  \/ Start \/ Tick \/ Stop \/ StopTick \/ Join
  \/ Watch \/ Elapse \/ Suspend \/ Trapped

Spec == Init /\ [][Next]_vars

-----------------------------------------------------------------------------
(* Properties. *)

\* Every variable keeps the type the code declares.
TypeOK ==
  /\ mpc \in {"off", "run", "stopping", "join"}
  /\ wpc \in {"start", "top", "load", "store", "check", "trapped", "exited"}
  /\ running \in BOOLEAN /\ flag \in BOOLEAN /\ warned \in BOOLEAN
  /\ since \in 0 .. Fatal /\ lag \in 0 .. Threshold + 1
  /\ quiet \in 0 .. Fatal + Threshold /\ seen \in 0 .. Fatal + Threshold

\* The trap means that main, awake, had not ticked for the fatal delay when the
\* flag was read, but for one threshold: the clock is read before the flag, and
\* a suspend or a tick that is overwritten does not add to it (watchdog.c:27-39).
\* It was announced, main was reported unresponsive before (watchdog.c:41-48), if
\* no one turn counts the time from the warning to the trap: so in the default
\* configuration (30, 100, 3000), while other delays may trap without a word.
WarnsFirst == Threshold <= Fatal - Warning
NoFalseTrap == wpc = "trapped" => seen >= Fatal - Threshold /\ (WarnsFirst => warned)

\* A main loop that hangs for good is trapped, as long as the thread itself is
\* not held up for longer than the threshold.
HangIsDetected ==
  <>[](mpc = "run" /\ quiet > 0 /\ lag <= Threshold) => <>(wpc = "trapped")
=============================================================================
