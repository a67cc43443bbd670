------------------------------ MODULE Renderer ------------------------------
(***************************************************************************)
(* The command buffers of the renderer (renderer/private/rmain.c): streams *)
(* on several threads write commands into buffers and submit them, one     *)
(* render thread executes the buffers, and fences tell a stream how far it *)
(* has come.                                                               *)
(*                                                                         *)
(* A stream has a thread of its own: the default stream the main thread,   *)
(* the stream of an animated image the job that decodes it.  A critical    *)
(* section is one action; `waiting' are the threads asleep on              *)
(* retired_signal.  A command is its stream and its number in it, a buffer *)
(* holds at most Capacity of them.  Counters have 32 bits; here they wrap  *)
(* at 2 * Half, and are about to when the behaviour starts.                *)
(***************************************************************************)
EXTENDS Integers, FiniteSets, SequencesExt

CONSTANTS
  Streams, Default,     \* streams, the one of the main thread
  Bufs, None,           \* command buffers, no buffer
  Capacity,             \* commands that fit into a buffer
  Half,                 \* half the range of a counter
  MaxCommands           \* bound: commands each stream writes

ASSUME StreamsAssumption == Default \in Streams /\ IsFiniteSet(Streams) /\ None \notin Bufs
ASSUME BufsAssumption == IsFiniteSet(Bufs) /\ Cardinality(Bufs) >= Cardinality(Streams)
ASSUME SizesAssumption == {Capacity, Half} \subseteq Nat \ {0} /\ MaxCommands \in [Streams -> Nat]
\* Nothing is kept while a buffer is submitted half the range of a counter: a
\* submission takes a command, and there are as many as pairs below.
ASSUME AgeAssumption ==
  Half > Cardinality(UNION {{s} \X (1 .. MaxCommands[s]) : s \in Streams})

VARIABLES
  free_cmd_buf_chain, ordered_cmd_buf_que,
  cmds, submit_counter, retire_counter,     \* of each buffer
  submit_count, done_count,                 \* of the device
  frame_fences, num_frames,
  buf, last_fence,                          \* of each stream
  pc, then, fence, waiting,                 \* its thread: place, where it goes on, what it waits for
  kept,                                     \* the fence a resource of the default stream keeps
  rpc, running, pos,                        \* the render thread
  written, ran                              \* history: commands written and executed

buffers == <<free_cmd_buf_chain, ordered_cmd_buf_que, cmds, submit_counter, retire_counter>>
counts == <<submit_count, done_count>>
frames == <<frame_fences, num_frames>>
stream == <<buf, last_fence>>
thread == <<pc, then, fence, waiting>>
render == <<rpc, running, pos>>
history == <<written, ran>>
vars == <<buffers, counts, frames, stream, thread, kept, render, history>>

Range32 == 2 * Half
Inc(n) == (n + 1) % Range32
BugWrapIsLess(x, y) == x < y   \* mutant: the counters are compared as they are
wrap_is_less(x, y) == Half - 1 < (x - y) % Range32

\* A fence with what it stands for: the commands of its stream up to `upto'.
Fence(s, b, n, upto) == [stream |-> s, cmd_buf |-> b, counter |-> n, upto |-> upto]
NullFence(s) == Fence(s, None, 0, 0)

\* render_check_fence
Passed(f) == f.cmd_buf # None => ~wrap_is_less(retire_counter[f.cmd_buf], f.counter)

Init ==
  LET start == Range32 - 1
  IN  /\ free_cmd_buf_chain = SetToSeq(Bufs) /\ ordered_cmd_buf_que = <<>>
      /\ cmds = [b \in Bufs |-> <<>>]
      /\ submit_counter = [b \in Bufs |-> start] /\ retire_counter = submit_counter
      /\ submit_count = start /\ done_count = start
      /\ frame_fences = [i \in 0 .. 1 |-> NullFence(Default)] /\ num_frames = 0
      /\ buf = [s \in Streams |-> None] /\ last_fence = [s \in Streams |-> NullFence(s)]
      /\ pc = [s \in Streams |-> "idle"] /\ then = pc
      /\ fence = last_fence /\ waiting = {} /\ kept = NullFence(Default)
      /\ rpc = "deque" /\ running = None /\ pos = 0
      /\ written = [s \in Streams |-> 0] /\ ran = written

-----------------------------------------------------------------------------
(* The thread of a stream. *)

\* The main thread drains the pool before it flushes the device: nobody else
\* then has a call to make.
Flushing == pc[Default] \in {"flush", "lock", "drain", "flushed"} \/ then[Default] = "flush"
Idle(s) == pc[s] = "idle" /\ (s # Default => ~Flushing)
Goto(s, place) == pc' = [pc EXCEPT ![s] = place]

BugLinked(b) == <<b>> \o ordered_cmd_buf_que   \* mutant: linked at the head
Linked(b) == Append(ordered_cmd_buf_que, b)

BugUnlatched(s) == buf   \* mutant: the stream keeps the buffer it submitted
Unlatched(s) == [buf EXCEPT ![s] = None]

\* render_submit_cmd_buf of a buffer with commands, up to the unlock.  The branch
\* that puts one without commands back into the free chain is not modelled: a
\* caller writes what it latched a buffer for, and a command that does not fit
\* into an empty buffer does not fit into the next one either and traps.
Submit(s, place) ==
  LET b == buf[s]
      n == Inc(submit_counter[b])
  IN  /\ b # None
      /\ submit_counter' = [submit_counter EXCEPT ![b] = n]
      /\ ordered_cmd_buf_que' = Linked(b)
      /\ buf' = Unlatched(s)
      /\ last_fence' = [last_fence EXCEPT ![s] = Fence(s, b, n, written[s])]
      /\ fence' = [fence EXCEPT ![s] = IF place \in {"test", "frame"} THEN last_fence'[s] ELSE @]
      /\ then' = [then EXCEPT ![s] = place] /\ Goto(s, "count")
      /\ UNCHANGED <<free_cmd_buf_chain, cmds, retire_counter, counts, frames, waiting, kept,
                     render, history>>

\* ... after the unlock: the count, and the wake-up of the render thread.
Count(s) ==
  /\ pc[s] = "count"
  /\ submit_count' = Inc(submit_count)
  /\ rpc' = IF rpc = "asleep" THEN "deque" ELSE rpc
  /\ Goto(s, then[s]) /\ then' = [then EXCEPT ![s] = "idle"]
  /\ UNCHANGED <<buffers, done_count, frames, stream, fence, waiting, kept, running, pos, history>>

\* A command is written; a resource of the default stream may keep the fence that
\* render_get_cmd_stream_fence then returns.
WriteInto(s, b) ==
  /\ cmds' = [cmds EXCEPT ![b] = Append(@, <<s, written[s] + 1>>)]
  /\ written' = [written EXCEPT ![s] = @ + 1]
  /\ \/ UNCHANGED kept
     \/ s = Default /\ kept' = Fence(s, b, Inc(submit_counter[b]), written'[s])

\* RENDER_ENSURE_WRITE_CMD_STREAM, or a command with its data between a mark and
\* an unwind: it fits into the rest of the buffer, or no buffer is latched, or
\* it does not fit and the buffer is submitted.
Write(s) ==
  /\ Idle(s) /\ written[s] < MaxCommands[s]
  /\ \/ /\ buf[s] # None /\ Len(cmds[buf[s]]) < Capacity
        /\ WriteInto(s, buf[s])
        /\ UNCHANGED <<free_cmd_buf_chain, ordered_cmd_buf_que, submit_counter, retire_counter,
                       counts, frames, stream, thread, render, ran>>
     \/ /\ buf[s] = None /\ Goto(s, "get")
        /\ UNCHANGED <<buffers, counts, frames, stream, then, fence, waiting, kept, render, history>>
     \/ buf[s] # None /\ Submit(s, "get")

\* render_get_cmd_buf
GetBuf(s) ==
  /\ pc[s] = "get" /\ s \notin waiting
  /\ free_cmd_buf_chain # <<>> /\ free_cmd_buf_chain' = Tail(free_cmd_buf_chain)
  /\ buf' = [buf EXCEPT ![s] = Head(free_cmd_buf_chain)]
  /\ WriteInto(s, Head(free_cmd_buf_chain))
  /\ Goto(s, "idle")
  /\ UNCHANGED <<ordered_cmd_buf_que, submit_counter, retire_counter, counts, frames, last_fence,
                 then, fence, waiting, render, ran>>

SleepAt(s, place) ==
  /\ waiting' = waiting \cup {s} /\ Goto(s, place)
  /\ UNCHANGED <<buffers, counts, frames, stream, then, fence, kept, render, history>>
Sleep(s) == SleepAt(s, pc[s])

WaitBuf(s) == pc[s] = "get" /\ s \notin waiting /\ free_cmd_buf_chain = <<>> /\ Sleep(s)

\* render_flush_cmd_stream of a stream that has commands; nobody but the main
\* thread asks it to wait.
Flush(s) == Idle(s) /\ (Submit(s, "idle") \/ (s = Default /\ Submit(s, "test")))

\* render_conditional_flush_cmd_stream_and_wait_fence; of a buffer that is
\* latched again nothing is left to wait for.
Unsubmitted(s, f) ==
  f.cmd_buf # None /\ f.cmd_buf = buf[s] /\ wrap_is_less(submit_counter[f.cmd_buf], f.counter)

WaitKept(s) ==
  LET f == IF s = Default THEN kept ELSE last_fence[s]
  IN  /\ Idle(s)
      /\ IF Unsubmitted(s, f) THEN Submit(s, "test")
         ELSE /\ f.cmd_buf # buf[s]
              /\ fence' = [fence EXCEPT ![s] = f] /\ Goto(s, "test")
              /\ UNCHANGED <<buffers, counts, frames, stream, then, waiting, kept, render, history>>

\* render_wait_fence
TestFence(s) ==
  /\ pc[s] = "test" /\ s \notin waiting
  /\ IF Passed(fence[s])
     THEN /\ Goto(s, "idle") /\ fence' = [fence EXCEPT ![s] = NullFence(s)]
          /\ UNCHANGED <<buffers, counts, frames, stream, then, waiting, kept, render, history>>
     ELSE Sleep(s)

-----------------------------------------------------------------------------
(* The main thread: render_device_frame and flush_render_device. *)

Slot(n) == n % 2

NextSlot == Slot(num_frames + 1)
BugTailSlot == NextSlot   \* mutant: the wait is for the frame that is replaced
TailSlot == Slot(NextSlot + 1)

\* The frame is submitted, or has no commands.
Frame ==
  /\ Idle(Default)
  /\ \/ Submit(Default, "frame")
     \/ /\ buf[Default] = None
        /\ fence' = [fence EXCEPT ![Default] = last_fence[Default]] /\ Goto(Default, "frame")
        /\ UNCHANGED <<buffers, counts, frames, stream, then, waiting, kept, render, history>>

\* The wait for the frame before.
EndFrame ==
  /\ pc[Default] = "frame" /\ Default \notin waiting
  /\ IF Passed(frame_fences[TailSlot])
     THEN /\ frame_fences' = [frame_fences EXCEPT ![NextSlot] = fence[Default]]
          /\ num_frames' = NextSlot
          /\ Goto(Default, "idle") /\ fence' = [fence EXCEPT ![Default] = NullFence(Default)]
          /\ UNCHANGED <<buffers, counts, stream, then, waiting, kept, render, history>>
     ELSE Sleep(Default)

FlushDevice ==
  /\ Idle(Default) /\ \A s \in Streams \ {Default} : pc[s] = "idle"
  /\ \/ Submit(Default, "flush")
     \/ /\ buf[Default] = None /\ Goto(Default, "flush")
        /\ UNCHANGED <<buffers, counts, frames, stream, then, fence, waiting, kept, render, history>>

MainAt(from, place) ==
  /\ pc[Default] = from /\ Default \notin waiting /\ Goto(Default, place)
  /\ UNCHANGED <<buffers, counts, frames, stream, then, fence, waiting, kept, render, history>>

\* async_wait_render_device: nothing is submitted meanwhile, so that the count
\* it reads first is the count throughout.  It looks before it has the mutex;
\* with the mutex it sleeps first and then looks again.
Behind == wrap_is_less(done_count, submit_count)
TestDevice == MainAt("flush", IF Behind THEN "lock" ELSE "flushed")
LockDevice == pc[Default] = "lock" /\ SleepAt(Default, "drain")
DrainDevice ==
  IF Behind THEN pc[Default] = "drain" /\ Default \notin waiting /\ Sleep(Default)
  ELSE MainAt("drain", "flushed")

\* The caller of flush_render_device goes on.
Flushed == MainAt("flushed", "idle")

-----------------------------------------------------------------------------
(* The render thread: render_proc_any_order, rb_cmd_buf_execute. *)

Deque ==
  /\ rpc = "deque" /\ ordered_cmd_buf_que # <<>>
  /\ running' = Head(ordered_cmd_buf_que) /\ ordered_cmd_buf_que' = Tail(ordered_cmd_buf_que)
  /\ pos' = 0 /\ rpc' = "execute"
  /\ UNCHANGED <<free_cmd_buf_chain, cmds, submit_counter, retire_counter, counts, frames, stream,
                 thread, kept, history>>

WaitQueued ==
  /\ rpc = "deque" /\ ordered_cmd_buf_que = <<>> /\ rpc' = "asleep"
  /\ UNCHANGED <<buffers, counts, frames, stream, thread, kept, running, pos, history>>

Left(b) == SubSeq(cmds[b], pos + 1, Len(cmds[b]))

Execute ==
  /\ rpc = "execute" /\ Left(running) # <<>>
  /\ LET c == Head(Left(running)) IN ran' = [ran EXCEPT ![c[1]] = c[2]]
  /\ pos' = pos + 1
  /\ UNCHANGED <<buffers, counts, frames, stream, thread, kept, rpc, running, written>>

Retire ==
  /\ rpc = "execute" /\ Left(running) = <<>>
  /\ retire_counter' = [retire_counter EXCEPT ![running] = Inc(@)]
  /\ rpc' = "retired"
  /\ UNCHANGED <<free_cmd_buf_chain, ordered_cmd_buf_que, cmds, submit_counter, counts, frames,
                 stream, thread, kept, running, pos, history>>

\* Mutant: the retired buffer wakes one thread.
BugAsleep == waiting \ {CHOOSE s \in Streams : waiting # {} => s \in waiting}
Asleep == {}

\* The buffer is empty and free again, and who waits for a buffer or a fence is
\* woken.
FreeBuf ==
  /\ rpc = "retired"
  /\ cmds' = [cmds EXCEPT ![running] = <<>>]
  /\ free_cmd_buf_chain' = <<running>> \o free_cmd_buf_chain
  /\ done_count' = Inc(done_count)
  /\ waiting' = Asleep
  /\ running' = None /\ pos' = 0 /\ rpc' = "deque"
  /\ UNCHANGED <<ordered_cmd_buf_que, submit_counter, retire_counter, submit_count, frames, stream,
                 pc, then, fence, kept, history>>

Continue(s) == Count(s) \/ GetBuf(s) \/ WaitBuf(s) \/ TestFence(s)
Call(s) == Write(s) \/ Flush(s) \/ WaitKept(s)
MainCall == Frame \/ FlushDevice
MainContinues == EndFrame \/ TestDevice \/ LockDevice \/ DrainDevice \/ Flushed
Render == Deque \/ WaitQueued \/ Execute \/ Retire \/ FreeBuf

Next == Render \/ MainCall \/ MainContinues \/ \E s \in Streams : Call(s) \/ Continue(s)

\* The render thread runs and a call that was begun goes on; nobody has to call.
Fairness == WF_vars(Render) /\ WF_vars(MainContinues) /\ \A s \in Streams : WF_vars(Continue(s))
Spec == Init /\ [][Next]_vars /\ Fairness

-----------------------------------------------------------------------------
(* Properties. *)

\* The buffers on their way through the render thread, the one executed first.
UnderWay == (IF running = None THEN <<>> ELSE <<running>>) \o ordered_cmd_buf_que

\* A buffer is free, latched by one stream, queued or being executed: nobody
\* writes into a buffer that is executed, and no buffer is lost.
CmdBufsConserved ==
  /\ pc \in [Streams -> {"idle", "count", "get", "test", "frame", "flush", "lock", "drain",
                       "flushed"}]
  /\ waiting \subseteq Streams
  /\ \A s, t \in Streams : buf[s] = buf[t] => s = t \/ buf[s] = None
  /\ IsInjective(free_cmd_buf_chain) /\ IsInjective(UnderWay)
  /\ LET latched == Range(buf) \ {None}
         places == <<Range(free_cmd_buf_chain), latched, Range(UnderWay)>>
     IN  /\ UNION Range(places) = Bufs
         /\ \A i, j \in DOMAIN places : i # j => places[i] \cap places[j] = {}

\* The buffers a stream may have commands in, in the order of their execution, and
\* the places <<i, j>> of those that are not executed: command j of buffer i.
Path(s) == UnderWay \o (IF buf[s] = None THEN <<>> ELSE <<buf[s]>>)
Unrun(s) ==
  UNION {{i} \X {j \in DOMAIN cmds[Path(s)[i]] :
                   cmds[Path(s)[i]][j][1] = s /\ (Path(s)[i] = running => j > pos)} :
         i \in DOMAIN Path(s)}
Number(s, p) == cmds[Path(s)[p[1]]][p[2]][2]
Sooner(p, q) == p[1] < q[1] \/ (p[1] = q[1] /\ p[2] < q[2])

\* The commands of a stream are executed once each in the order they were
\* written, over whichever buffers they are spread (rbcmd.h:50, renderer.h:291).
CommandsConserved ==
  \A s \in Streams :
    /\ {Number(s, p) : p \in Unrun(s)} = ran[s] + 1 .. written[s]
    /\ \A p, q \in Unrun(s) : Sooner(p, q) => Number(s, p) < Number(s, q)

\* A fence that is passed, whenever somebody looks at it and however often its
\* buffer went round since, means that all commands before it are executed:
\* what they read may be freed.
FenceMeansExecuted ==
  \A f \in UNION {Range(last_fence), {kept}, Range(fence), Range(frame_fences)} :
    Passed(f) => ran[f.stream] >= f.upto

\* When a frame is submitted all frames before it are executed, but for one,
\* and when the device is flushed nothing is left to execute.
FramesBounded ==
  /\ Passed(frame_fences[NextSlot])
  /\ pc[Default] = "flushed" => UnderWay = <<>>

\* Whoever waits for a buffer, a fence or a frame gets it: "Waits until the fence
\* has been processed" (renderer.h:263), and no wake-up for it is lost.
CallsReturn ==
  \A s \in Streams : pc[s] \in {"get", "count", "test", "frame"} ~> pc[s] \in {"idle", "flush"}

\* flush_render_device "blocks until they are all completed" (renderer.h:242)
\* and no longer.
FlushReturns == pc[Default] = "flush" ~> pc[Default] = "flushed"
=============================================================================
