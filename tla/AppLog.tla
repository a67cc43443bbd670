------------------------------- MODULE AppLog -------------------------------
(***************************************************************************)
(* Logging while the application runs and while it is shut down:           *)
(* log_message (log.c) on any thread, the dispatcher thread with the log   *)
(* receiver and the event logger, and app_shutdown_thunk (app_thunk.c).    *)
(*                                                                         *)
(* A text is the call that formatted it.  The bus is what CncBus shows it  *)
(* to be for two receivers: a queue per receiver, swept as a whole, and a  *)
(* pool from which a message takes a buffer until it is delivered.  An     *)
(* event on the bus makes the event logger log on the dispatcher thread.   *)
(* A data race on `statics' is the interleaving of its reads and writes;   *)
(* atomics are ordered as x86 orders them.                                 *)
(***************************************************************************)
EXTENDS Integers, Sequences, FiniteSets, Functions

CONSTANTS
  Workers,      \* threads that are joined before the log is reinitialised
  LateThreads,  \* threads that outlive that, the pump of the http client
  Main, Dispatcher,
  Nobody,       \* no thread, no text
  MaxCalls,     \* bound: messages a thread logs
  MaxEvents,    \* bound: events on the bus
  Buffers       \* message buffers of the bus

ASSUME ThreadsAssumption ==
  /\ Cardinality({Main, Dispatcher, Nobody}) = 3
  /\ IsFiniteSet(Workers) /\ IsFiniteSet(LateThreads) /\ Workers \cap LateThreads = {}
  /\ {Main, Dispatcher, Nobody} \cap (Workers \cup LateThreads) = {}
ASSUME BoundsAssumption ==
  {MaxCalls, MaxEvents} \subseteq Nat /\ Buffers \in Nat \ {0}

Loggers == Workers \cup LateThreads \cup {Main, Dispatcher}

VARIABLES
  busSet, reporterSet, hazard, slow,     \* statics: bus, reporter, slow_buffer_hazard, slow_buffer
  route,                                 \* which of address and subnet_mask are set
  pc, calls, text, message,              \* each logging thread
  free, queue,                           \* the bus: buffers, the log receiver's chain
  events,                                \* events sent so far
  batch, eventBatch, dpc, run,           \* the dispatcher
  mpc,                                   \* the main thread
  printed, sent                          \* history

statics == <<busSet, reporterSet, hazard, slow, route>>
threads == <<pc, calls, text, message>>
bus == <<free, queue, events>>
dispatcher == <<batch, eventBatch, dpc, run>>
history == <<printed, sent>>
vars == <<statics, threads, bus, dispatcher, mpc, history>>

Route == {"address", "mask"}

NoText == <<Nobody, 0>>
Call(t) == <<t, calls[t]>>

Init ==
  /\ busSet = TRUE /\ reporterSet = TRUE /\ hazard = FALSE /\ slow = NoText /\ route = Route
  /\ pc = [t \in Loggers |-> "out"] /\ calls = [t \in Loggers |-> 0]
  /\ text = [t \in Loggers |-> NoText] /\ message = text
  /\ free = Buffers /\ queue = <<>> /\ events = 0
  /\ batch = <<>> /\ eventBatch = 0 /\ dpc = "top" /\ run = TRUE
  /\ mpc = "up"
  /\ printed = <<>> /\ sent = <<>>

-----------------------------------------------------------------------------
(* log_message *)

Goto(t, from, to) == pc[t] = from /\ pc' = [pc EXCEPT ![t] = to]

\* Where a thread is when it may log.
MayLog(t) ==
  CASE t \in Workers -> mpc = "up"
    [] t \in LateThreads -> mpc \in {"up", "joined", "zeroed", "reset"}
    [] t = Main -> mpc \in {"up", "joined", "reset", "late"}
    [] t = Dispatcher -> dpc = "event"

Log(t) ==
  /\ MayLog(t) /\ calls[t] < MaxCalls
  /\ Goto(t, "out", IF reporterSet THEN "report" ELSE "format")
  /\ calls' = [calls EXCEPT ![t] = @ + 1]
  /\ UNCHANGED <<statics, text, message, bus, dispatcher, mpc, history>>

\* adk_reporting_report_msg(statics.reporter, ...): the variable is read again,
\* a null instance is dereferenced.
Report(t) ==
  /\ Goto(t, "report", IF reporterSet THEN "format" ELSE "trapped")
  /\ UNCHANGED <<statics, calls, text, message, bus, dispatcher, mpc, history>>

\* vsnprintf into the stack buffer; only workers and main log long messages.
Format(t) ==
  /\ \E long \in {FALSE} \cup {t \in Workers \cup {Main}} : Goto(t, "format", IF long THEN "claim" ELSE "bus")
  /\ text' = [text EXCEPT ![t] = Call(t)]
  /\ UNCHANGED <<statics, calls, message, bus, dispatcher, mpc, history>>

\* Mutant: the buffer is taken without looking.
BugMayClaim == TRUE
MayClaim == ~hazard

\* sb_atomic_cas until it succeeds
Claim(t) ==
  /\ Goto(t, "claim", "slow") /\ MayClaim
  /\ hazard' = TRUE
  /\ UNCHANGED <<busSet, reporterSet, slow, route, calls, text, message, bus,
                 dispatcher, mpc, history>>

\* The second vsnprintf, into the slow buffer.
FormatSlow(t) ==
  /\ Goto(t, "slow", "bus")
  /\ slow' = Call(t)
  /\ text' = [text EXCEPT ![t] = NoText]
  /\ UNCHANGED <<busSet, reporterSet, hazard, route, calls, message, bus, dispatcher,
                 mpc, history>>

IsLong(t) == text[t] = NoText
TextOf(t) == IF IsLong(t) THEN slow ELSE text[t]

\* Mutant: the buffer stays claimed once it was printed.
BugAfterUse(t) == hazard
\* The hazard once the text was written or printed.
AfterUse(t) == hazard /\ ~IsLong(t)

\* statics.bus is tested; without a bus the text is printed at once.
NoBus(t) ==
  /\ ~busSet
  /\ Goto(t, "bus", "out")
  /\ printed' = Append(printed, [call |-> Call(t), text |-> TextOf(t)])
  /\ hazard' = AfterUse(t)
  /\ UNCHANGED <<busSet, reporterSet, slow, route, calls, text, message, bus,
                 dispatcher, mpc, sent>>

HasBus(t) ==
  /\ busSet
  /\ Goto(t, "bus", "begin")
  /\ UNCHANGED <<statics, calls, text, message, bus, dispatcher, mpc, history>>

\* cncbus_msg_begin_unchecked(statics.bus): the compiler may read the variable
\* again; a null bus or message is dereferenced.
Begin(t) ==
  /\ \E again \in BOOLEAN :
       IF free > 0 /\ (again => busSet)
         THEN Goto(t, "begin", "write") /\ free' = free - 1
         ELSE Goto(t, "begin", "trapped") /\ UNCHANGED free
  /\ UNCHANGED <<statics, calls, text, message, queue, events, dispatcher, mpc, history>>

Write(t) ==
  /\ Goto(t, "write", "release")
  /\ message' = [message EXCEPT ![t] = TextOf(t)]
  /\ UNCHANGED <<statics, calls, text, bus, dispatcher, mpc, history>>

\* sb_atomic_store(&statics.slow_buffer_hazard, 0, memory_order_relaxed)
Release(t) ==
  /\ Goto(t, "release", "send")
  /\ hazard' = AfterUse(t)
  /\ UNCHANGED <<busSet, reporterSet, slow, route, calls, text, message, bus,
                 dispatcher, mpc, history>>

\* No address is the broadcast; an address without a mask is nobody's.
Reaches == route # {"address"}

\* cncbus_send_async; a message for nobody is freed.
Send(t) ==
  /\ Goto(t, "send", "out")
  /\ \/ /\ Reaches /\ UNCHANGED free
        /\ LET m == [call |-> Call(t), text |-> message[t]] IN
             queue' = Append(queue, m) /\ sent' = Append(sent, m)
     \/ ~Reaches /\ free' = free + 1 /\ UNCHANGED <<queue, sent>>
  /\ UNCHANGED <<statics, calls, text, message, events, dispatcher, mpc, printed>>

LogStep(t) ==
  \/ Report(t) \/ Format(t) \/ Claim(t) \/ FormatSlow(t)
  \/ NoBus(t) \/ HasBus(t) \/ Begin(t) \/ Write(t) \/ Release(t) \/ Send(t)

-----------------------------------------------------------------------------
(* bus_dispatcher_thread_proc *)

Event ==
  /\ mpc = "up" /\ events < MaxEvents
  /\ events' = events + 1 /\ eventBatch' = eventBatch + 1
  /\ UNCHANGED <<statics, threads, free, queue, batch, dpc, run, mpc, history>>

\* The pending messages are unhooked and then delivered one by one.
Sweep ==
  /\ dpc = "top" /\ run
  /\ batch' = queue /\ queue' = <<>>
  /\ dpc' = "deliver"
  /\ UNCHANGED <<statics, threads, free, events, eventBatch, run, mpc, history>>

\* Mutant: the last chain of a sweep is not released.
BugAfterDelivery == IF Len(batch) > 1 THEN free + 1 ELSE free
AfterDelivery == free + 1

\* on_log_msg_received, bus_release_msg_chain
Deliver ==
  /\ dpc = "deliver" /\ batch # <<>>
  /\ printed' = Append(printed, Head(batch))
  /\ batch' = Tail(batch)
  /\ free' = AfterDelivery
  /\ UNCHANGED <<statics, threads, queue, events, eventBatch, dpc, run, mpc, sent>>

\* on_event_msg_received
DeliverEvent ==
  /\ dpc = "deliver" /\ batch = <<>> /\ eventBatch > 0
  /\ eventBatch' = eventBatch - 1
  /\ dpc' = "event"
  /\ UNCHANGED <<statics, threads, bus, batch, run, mpc, history>>

EventLogged ==
  /\ dpc = "event" /\ pc[Dispatcher] = "out"
  /\ dpc' = "deliver"
  /\ UNCHANGED <<statics, threads, bus, batch, eventBatch, run, mpc, history>>

Swept ==
  /\ dpc = "deliver" /\ batch = <<>>
  /\ dpc' = "top"
  /\ UNCHANGED <<statics, threads, bus, batch, eventBatch, run, mpc, history>>

DispatcherExit ==
  /\ dpc = "top" /\ ~run
  /\ dpc' = "exited"
  /\ UNCHANGED <<statics, threads, bus, batch, eventBatch, run, mpc, history>>

-----------------------------------------------------------------------------
(* app_shutdown_thunk; main logs between two of its steps. *)

Shutdown(from, to) == mpc = from /\ mpc' = to /\ pc[Main] = "out"

\* thread_pool_drain, thread_pool_shutdown
JoinWorkers ==
  /\ Shutdown("up", "joined") /\ \A t \in Workers : pc[t] = "out"
  /\ UNCHANGED <<statics, threads, bus, dispatcher, history>>

\* log_init: ZEROMEM ...
LogZero ==
  /\ Shutdown("joined", "zeroed")
  /\ busSet' = FALSE /\ reporterSet' = FALSE /\ hazard' = FALSE /\ slow' = NoText /\ route' = {}
  /\ UNCHANGED <<threads, bus, dispatcher, history>>

\* ... then the bus, the address and the mask ...
LogSet ==
  /\ mpc = "zeroed" /\ pc[Main] = "out"
  /\ \/ ~busSet /\ busSet' = TRUE /\ UNCHANGED route
     \/ busSet /\ route = {} /\ route' = {"address"} /\ UNCHANGED busSet
     \/ busSet /\ route = {"address"} /\ route' = Route /\ UNCHANGED busSet
  /\ UNCHANGED <<reporterSet, hazard, slow, threads, bus, dispatcher, mpc, history>>

\* ... and no reporter.
LogInit ==
  /\ Shutdown("zeroed", "reset") /\ route = Route
  /\ UNCHANGED <<statics, threads, bus, dispatcher, history>>

\* adk_httpx_client_free joins the pump.
JoinLate ==
  /\ Shutdown("reset", "late") /\ \A t \in LateThreads : pc[t] = "out"
  /\ UNCHANGED <<statics, threads, bus, dispatcher, history>>

StopDispatcher ==
  /\ Shutdown("late", "stopping")
  /\ run' = FALSE
  /\ UNCHANGED <<statics, threads, bus, batch, eventBatch, dpc, history>>

\* sb_join_thread, log_receiver_shutdown, cncbus_destroy, log_shutdown
Destroy ==
  /\ Shutdown("stopping", "down") /\ dpc = "exited"
  /\ queue' = <<>> /\ free' = free + Len(queue)
  /\ busSet' = FALSE /\ hazard' = FALSE /\ slow' = NoText /\ route' = {}
  /\ UNCHANGED <<reporterSet, threads, events, dispatcher, history>>

MainStep ==
  \/ JoinWorkers \/ LogZero \/ LogSet \/ LogInit \/ JoinLate \/ StopDispatcher \/ Destroy

DispatcherStep == Sweep \/ Deliver \/ DeliverEvent \/ EventLogged \/ Swept \/ DispatcherExit

Trapped == \E t \in Loggers : pc[t] = "trapped"

\* The end; a thread that traps ends the process, the others may still run a while.
Down == (mpc = "down" \/ Trapped) /\ UNCHANGED vars

Next ==
  \/ \E t \in Loggers : Log(t) \/ LogStep(t)
  \/ DispatcherStep \/ Event \/ MainStep \/ Down

Spec == Init /\ [][Next]_vars

(***************************************************************************)
(* Every thread runs: a spinning claim is one of its steps, and the bound  *)
(* on calls is what keeps others from taking the buffer for ever.          *)
(***************************************************************************)
FairSpec ==
  /\ Spec /\ WF_vars(DispatcherStep) /\ WF_vars(MainStep)
  /\ \A t \in Loggers : WF_vars(LogStep(t))

-----------------------------------------------------------------------------
(* Properties. *)

Entry == [call : Loggers \X Nat, text : (Loggers \cup {Nobody}) \X Nat]

\* Every variable keeps the type the code declares.
TypeOK ==
  /\ {busSet, reporterSet, hazard, run} \subseteq BOOLEAN /\ route \subseteq Route
  /\ calls \in [Loggers -> 0 .. MaxCalls]
  /\ \A t \in Loggers :
       pc[t] \in {"out", "report", "format", "claim", "slow", "bus", "begin",
                  "write", "release", "send", "trapped"}
  /\ free \in 0 .. Buffers /\ eventBatch \in 0 .. MaxEvents
  /\ queue \in Seq(Entry) /\ batch \in Seq(Entry) /\ printed \in Seq(Entry)
  /\ dpc \in {"top", "deliver", "event", "exited"}
  /\ mpc \in {"up", "joined", "zeroed", "reset", "late", "stopping", "down"}

\* A message carries the text of the call that sends it: one static buffer
\* serves all long messages, and log_init resets it while threads still log
\* (log.c:73-97 against log_init).
TextsDoNotMix ==
  \A m \in Range(sent) \cup Range(printed) : m.text = m.call

Holders == Cardinality({t \in Loggers : pc[t] \in {"write", "release", "send"}})

\* A message buffer is free, being written, queued or being delivered.
BuffersConserved ==
  TypeOK /\ free + Holders + Len(queue) + Len(batch) = Buffers

\* A call of log_message returns, the spin on the buffer included, unless the
\* process is trapped.
LogReturns == \A t \in Loggers : (pc[t] = "claim") ~> (pc[t] = "out" \/ Trapped)
=============================================================================
