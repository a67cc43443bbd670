--------------------------- MODULE ReportingQueue ---------------------------
(***************************************************************************)
(* Error reporting: adk_reporting_send_queue.c, filled by any thread that  *)
(* logs, and adk_reporting_tick with its completion callback               *)
(* (adk_reporting_sentry.c), run by the main thread.                       *)
(*                                                                         *)
(* An event is in one node at a time, so a node is named by its event and  *)
(* `next' links events.  A section under the queue's mutex is one action;  *)
(* building the JSON of an event is left out.  The http client is external *)
(* (HttpxPump models it): a post fails at once or is answered in some      *)
(* later tick.  Seconds since the epoch are unsigned, of width 2 * Half.   *)
(***************************************************************************)
EXTENDS Integers, Sequences, FiniteSets, Functions, SequencesExt

CONSTANTS
  Events,     \* events the application may report
  Null,       \* a null pointer
  Limits,     \* the values of send_queue_size
  Delays,     \* Retry-After values up to adk_reporting_max_valid_retry_delay_seconds
  Start,      \* seconds since the epoch when the instance is created
  MaxTime,    \* bound: the clock stops here
  Half        \* 2^31

VARIABLES
  max_events,                \* send_queue_size
  next, head, tail, length,  \* the linked list
  pauseUntil,                \* pause_until_seconds_since_epoch
  now,                       \* sb_get_time_since_epoch().seconds
  pc, list, reply,           \* the tick: place, what it flushed, event being answered
  posted,                    \* events the http client has
  done,                      \* events whose JSON was deleted
  order, flushed,            \* history: events in head's list and in list
  quietUntil                 \* history: the latest time a server asked to wait for

queue == <<next, head, tail, length>>
vars == <<max_events, queue, pauseUntil, now, pc, list, reply, posted, done, order, flushed, quietUntil>>

\* The n events reached from e.
Walk(e, n) ==
  LET node[i \in 1 .. n] == IF i = 1 THEN e ELSE next[node[i - 1]] IN [i \in 1 .. n |-> node[i]]

Queued == Range(Walk(head, length))

Init ==
  /\ max_events \in Limits
  /\ next = [e \in Events |-> Null] /\ head = Null /\ tail = Null /\ length = 0
  /\ pauseUntil = 0 /\ now = Start /\ quietUntil = 0
  /\ pc = "idle" /\ list = Null /\ reply = Null
  /\ posted = {} /\ done = {}
  /\ order = <<>> /\ flushed = <<>>

-----------------------------------------------------------------------------
Full == length = max_events

\* The tail once the oldest event is unlinked.
TailAfterDrop == IF tail = head THEN next[head] ELSE tail

\* The list once there is room: at the limit the oldest event goes.
Room ==
  IF Full THEN [head |-> next[head], tail |-> TailAfterDrop, length |-> length - 1]
          ELSE [head |-> head, tail |-> tail, length |-> length]

\* adk_reporting_enqueue_to_send
Enqueue(e) ==
  /\ head' = IF Room.length = 0 THEN e ELSE Room.head
  /\ next' = [x \in Events |->
                IF x = e THEN Null
                ELSE IF Room.length > 0 /\ x = Room.tail THEN e ELSE next[x]]
  /\ tail' = e /\ length' = Room.length + 1
  /\ order' = Append(IF Full THEN Tail(order) ELSE order, e)

Dropped == IF Full THEN {head} ELSE {}

\* adk_reporting_report_msg and _exception, on any thread.
Report(e) ==
  /\ pc # "freed"
  /\ e \notin Queued \cup Range(Walk(list, Len(flushed))) \cup posted \cup done \cup {reply}
  /\ Enqueue(e) /\ done' = done \cup Dropped
  /\ UNCHANGED <<pauseUntil, now, max_events, pc, list, reply, posted, flushed, quietUntil>>

-----------------------------------------------------------------------------
(* adk_reporting_tick *)

\* Mutant: a queue that was paused once is never flushed again.
BugMayFlush == pauseUntil = 0
MayFlush == now > pauseUntil

LengthAfterFlush == 0

\* adk_reporting_flush_send_queue(regard_pause)
Flush ==
  /\ pc = "idle"
  /\ pc' = "post"
  /\ IF MayFlush
       THEN /\ list' = head /\ flushed' = order /\ order' = <<>>
            /\ head' = Null /\ tail' = Null /\ length' = LengthAfterFlush
       ELSE UNCHANGED <<list, flushed, order, head, tail, length>>
  /\ UNCHANGED <<next, pauseUntil, now, max_events, reply, posted, done, quietUntil>>

\* adk_reporting_post_event takes the event over or deletes it.
Post ==
  /\ pc = "post" /\ list # Null
  /\ list' = next[list] /\ flushed' = Tail(flushed)
  /\ \/ posted' = posted \cup {list} /\ UNCHANGED done
     \/ done' = done \cup {list} /\ UNCHANGED posted
  /\ UNCHANGED <<queue, pauseUntil, now, max_events, pc, reply, order, quietUntil>>

AllPosted ==
  /\ pc = "post" /\ list = Null
  /\ pc' = "http"
  /\ UNCHANGED <<queue, pauseUntil, now, max_events, list, reply, posted, done, order, flushed, quietUntil>>

\* event_sent_on_complete_cb: sent, or an error that is not worth a retry.
Answered(e) ==
  /\ pc = "http" /\ e \in posted
  /\ posted' = posted \ {e} /\ done' = done \cup {e}
  /\ UNCHANGED <<queue, pauseUntil, now, max_events, pc, list, reply, order, flushed, quietUntil>>

AsInt(s) == IF s < Half THEN s ELSE s - 2 * Half
MaxInt(a, b) == IF a > b THEN a ELSE b

\* Mutant: the later of two answers decides.
BugPaused(old, new) == new

\* max_int, whose arguments become int
Paused(old, new) == MaxInt(AsInt(old), AsInt(new)) % (2 * Half)

\* HTTP 429 with a delay that is_retry_eligible accepts: pause first ...
RetryPause(e, delay) ==
  /\ pc = "http" /\ e \in posted /\ now + delay < MaxTime
  /\ pauseUntil' = Paused(pauseUntil, now + delay)
  /\ quietUntil' = MaxInt(quietUntil, now + delay)
  /\ posted' = posted \ {e} /\ reply' = e
  /\ pc' = "requeue"
  /\ UNCHANGED <<queue, now, max_events, list, done, order, flushed>>

\* Mutant: data->event is not cleared, the callback deletes a queued event.
BugDeleted == {reply}
Deleted == {}

\* ... then the event is the newest of the queue.
RetryEnqueue ==
  /\ pc = "requeue"
  /\ Enqueue(reply) /\ done' = done \cup Dropped \cup Deleted
  /\ reply' = Null /\ pc' = "http"
  /\ UNCHANGED <<pauseUntil, now, max_events, list, posted, flushed, quietUntil>>

TickReturns ==
  /\ pc = "http"
  /\ pc' = "idle"
  /\ UNCHANGED <<queue, pauseUntil, now, max_events, list, reply, posted, done, order, flushed, quietUntil>>

\* adk_reporting_instance_free: what is queued is deleted.
InstanceFree ==
  /\ pc = "idle"
  /\ done' = done \cup Queued
  /\ head' = Null /\ tail' = Null /\ length' = 0 /\ order' = <<>>
  /\ pc' = "freed"
  /\ UNCHANGED <<next, pauseUntil, now, max_events, list, reply, posted, flushed, quietUntil>>

Elapse ==
  /\ now < MaxTime
  /\ now' = now + 1
  /\ UNCHANGED <<max_events, queue, pauseUntil, pc, list, reply, posted, done, order, flushed, quietUntil>>

Freed == pc = "freed" /\ UNCHANGED vars

Tick == Flush \/ Post \/ AllPosted \/ RetryEnqueue \/ TickReturns

Next ==
  \/ \E e \in Events :
       Report(e) \/ Answered(e) \/ \E d \in Delays : RetryPause(e, d)
  \/ Tick \/ InstanceFree \/ Elapse \/ Freed

Spec == Init /\ [][Next]_vars

-----------------------------------------------------------------------------
(* Properties. *)

\* Every variable keeps the type the code declares.
TypeOK ==
  /\ next \in [Events -> Events \cup {Null}]
  /\ {head, tail, list, reply} \subseteq Events \cup {Null}
  /\ max_events \in Limits /\ length \in 0 .. max_events
  /\ pauseUntil \in 0 .. 2 * Half - 1 /\ now \in Start .. MaxTime /\ quietUntil \in Nat
  /\ pc \in {"idle", "post", "http", "requeue", "freed"}
  /\ posted \subseteq Events /\ done \subseteq Events
  /\ order \in Seq(Events) /\ flushed \in Seq(Events)

\* The queue holds the newest max_events events in the order they came, and the
\* tick walks what it flushed, although reporters, retries and the tick itself
\* link and unlink nodes of both lists in between (send_queue.c:44-66, 79-84).
\* The assertions of the next enqueue hold: a queue that is empty once the
\* oldest event went has no tail either.
ListsInOrder ==
  /\ Walk(head, length) = order /\ (length = 0 => head = Null /\ tail = Null)
  /\ length > 0 => tail = Last(order) /\ next[tail] = Null
  /\ Walk(list, Len(flushed)) = flushed /\ (flushed = <<>> => list = Null)
  /\ IF Room.length = 0 THEN Room.head = Null /\ Room.tail = Null ELSE Room.tail # Null

\* An event is in the queue, in the tick's list, with the http client, being
\* answered, or deleted, and in no two of them: no event is sent twice, none is
\* used after it was deleted, and the lists are in order.
EventsConserved ==
  LET places == <<Range(order), Range(flushed), posted, {reply} \ {Null}, done>>
  IN  /\ TypeOK /\ ListsInOrder
      /\ \A i, j \in DOMAIN places : i # j => places[i] \cap places[j] = {}
      /\ IsInjective(order) /\ IsInjective(flushed)

\* While a server has asked to wait, nothing is taken from the queue to be
\* sent: "Blocks flushing the queue in the instance for `delay' seconds"
\* (adk_reporting_send_queue.h:59), the longest of several delays counting.
PauseIsKept == [][flushed' # <<>> /\ flushed = <<>> => now > quietUntil]_vars

\* A reported event leaves: sent, refused, pushed out or discarded at the end.
EveryEventLeaves ==
  \A e \in Events : (e \in Range(order)) ~> (e \in done \/ pc = "freed")
=============================================================================
