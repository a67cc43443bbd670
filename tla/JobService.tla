----------------------------- MODULE JobService -----------------------------
(***************************************************************************)
(* What the thread pool promises its callers, without slots, lists, mutex  *)
(* or workers: every accepted job is started at most once, in the order of *)
(* the queue; its completion callback is posted at most once, by the job   *)
(* itself, and callbacks are called in the order they were posted.         *)
(***************************************************************************)
EXTENDS Integers, Sequences

CONSTANT Ids  \* names of accepted jobs, in the order of acceptance

VARIABLES
  accepted,   \* how many jobs were accepted
  pending,    \* jobs not started yet, next one first
  running,    \* jobs whose body runs and whose completion is not posted
  posted      \* jobs whose completion callback is still to be called, next one first

vars == <<accepted, pending, running, posted>>

Init == accepted = 0 /\ pending = <<>> /\ running = {} /\ posted = <<>>

\* A job enters at the back of the queue or, by thread_pool_enqueue_front, at its front.
Accept ==
  /\ accepted \in Ids
  /\ accepted' = accepted + 1
  /\ pending' \in {Append(pending, accepted), <<accepted>> \o pending}
  /\ UNCHANGED <<running, posted>>

Start ==
  /\ pending # <<>>
  /\ running' = running \cup {Head(pending)}
  /\ pending' = Tail(pending)
  /\ UNCHANGED <<accepted, posted>>

\* The body is over and there is no callback to call.
Finish(id) ==
  /\ id \in running
  /\ running' = running \ {id}
  /\ UNCHANGED <<accepted, pending, posted>>

Post(id) ==
  /\ id \in running
  /\ running' = running \ {id}
  /\ posted' = Append(posted, id)
  /\ UNCHANGED <<accepted, pending>>

Call ==
  /\ posted # <<>>
  /\ posted' = Tail(posted)
  /\ UNCHANGED <<accepted, pending, running>>

Next == Accept \/ Start \/ Call \/ \E id \in Ids : Finish(id) \/ Post(id)

Spec == Init /\ [][Next]_vars
=============================================================================
