----------------------------- MODULE MCMonitors -----------------------------
(***************************************************************************)
(* What tells about an application in trouble, on small instances: the     *)
(* watchdog of the main loop and the queue of error reports.  They share   *)
(* no state; a behaviour is about the one that `part' names.               *)
(***************************************************************************)
EXTENDS Watchdog, FiniteSets

CONSTANTS Events, Null, Limits, Delays, FirstTime, MaxTime, Half  \* ReportingQueue

ASSUME EventsAssumption == IsFiniteSet(Events) /\ Null \notin Events
ASSUME SizeAssumption == Limits \subseteq Nat \ {0}
ASSUME TimeAssumption ==
  /\ Delays \subseteq Nat /\ {FirstTime, MaxTime, Half} \subseteq Nat
  /\ FirstTime <= MaxTime /\ Half > 0
  /\ \A d \in Delays : MaxTime + d < 2 * Half

VARIABLES
  part,
  max_events, next, head, tail, length, pauseUntil, now, pc, list, reply, posted, done,
  order, flushed, quietUntil

reportVars == <<max_events, next, head, tail, length, pauseUntil, now, pc, list, reply, posted,
                done, order, flushed, quietUntil>>

Reports == INSTANCE ReportingQueue WITH Start <- FirstTime

PartsInit == part \in {"watchdog", "reports"} /\ Init /\ Reports!Init

PartsNext ==
  /\ UNCHANGED part
  /\ \/ part = "watchdog" /\ Next /\ UNCHANGED reportVars
     \/ part = "reports" /\ Reports!Next /\ UNCHANGED vars

(***************************************************************************)
(* Fairness.  Time passes, the watchdog thread runs and a shutdown that    *)
(* began goes on; nothing makes the main loop tick while it hangs.  For    *)
(* the reports the main loop ticks (app_thunk.c:783), time passes and the  *)
(* http client answers every post; a server may ask for retries while      *)
(* time is left.                                                           *)
(***************************************************************************)
PartsFairness ==
  /\ WF_vars(part = "watchdog" /\ Watch) /\ WF_vars(part = "watchdog" /\ Elapse)
  /\ WF_vars(part = "watchdog" /\ StopTick) /\ WF_vars(part = "watchdog" /\ Join)
  /\ WF_reportVars(part = "reports" /\ Reports!Tick)
  /\ WF_reportVars(part = "reports" /\ Reports!Elapse)
  /\ \A e \in Events :
       SF_reportVars(part = "reports" /\ (Reports!Answered(e) \/ \E d \in Delays : Reports!RetryPause(e, d)))

PartsSpec == PartsInit /\ [][PartsNext]_<<part, vars, reportVars>> /\ PartsFairness

-----------------------------------------------------------------------------
(* The properties of ReportingQueue. *)

\* An event is in one place and the lists are in order.
EventsConserved == Reports!EventsConserved

\* Nothing is sent before the time a server asked to wait for.
PauseIsKept == Reports!PauseIsKept

\* A reported event leaves.
EveryEventLeaves == Reports!EveryEventLeaves
=============================================================================
