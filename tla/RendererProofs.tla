--------------------------- MODULE RendererProofs ---------------------------
(***************************************************************************)
(* Proofs about Renderer, for any streams, buffers and counter widths: no  *)
(* buffer is lost or shared, a passed fence means that the commands before *)
(* it are executed, no command is lost or out of order, and one frame at   *)
(* most is on its way when the next is submitted.                          *)
(***************************************************************************)
EXTENDS Renderer, ListLemmas

-----------------------------------------------------------------------------
(* The places of the threads, and what a step does to the buffers.         *)

Places == {"idle", "count", "get", "test", "frame", "flush", "lock", "drain", "flushed"}
Counters == 0 .. Range32 - 1

\* A stream that asks for a buffer has none.
ControlInv ==
  /\ pc \in [Streams -> Places]
  /\ then \in [Streams -> {"idle", "get", "test", "frame", "flush"}]
  /\ waiting \subseteq Streams
  /\ buf \in [Streams -> Bufs \cup {None}]
  /\ \A s \in Streams : pc[s] = "get" \/ (pc[s] = "count" /\ then[s] = "get") => buf[s] = None

\* What the steps that touch the buffers do to them.
SubmitStep(s) ==
  \E place \in {"idle", "get", "test", "frame", "flush"} : Idle(s) /\ Submit(s, place)
WriteStep(s) ==
  /\ Idle(s) /\ buf[s] # None /\ WriteInto(s, buf[s])
  /\ UNCHANGED <<free_cmd_buf_chain, ordered_cmd_buf_que, submit_counter, retire_counter,
                 counts, frames, stream, thread, render, ran>>

core == <<buffers, buf, running, pos, history>>

Fences == [stream : Streams, cmd_buf : Bufs \cup {None}, counter : Counters, upto : Nat]
FenceTypes ==
  /\ last_fence \in [Streams -> Fences] /\ fence \in [Streams -> Fences]
  /\ kept \in Fences /\ frame_fences \in [0 .. 1 -> Fences] /\ num_frames \in 0 .. 1

\* The others move no buffer, and copy fences at most.
QuietStep ==
  /\ UNCHANGED core
  /\ rpc' = rpc \/ {rpc, rpc'} \subseteq {"deque", "asleep"}
  /\ UNCHANGED <<kept, last_fence>>
  /\ fence' \in [Streams -> Fences] /\ frame_fences' \in [0 .. 1 -> Fences]
  /\ num_frames' \in 0 .. 1
  /\ \A s \in Streams :
       fence'[s] \in {fence[s], NullFence(s), last_fence[s], kept}
  /\ \A i \in 0 .. 1 : frame_fences'[i] \in {frame_fences[i], fence[Default]}

CoreStep ==
  \/ QuietStep
  \/ \E s \in Streams : SubmitStep(s) \/ WriteStep(s) \/ GetBuf(s)
  \/ Deque \/ Execute \/ Retire \/ FreeBuf

\* A null fence is a fence.
LEMMA NullFenceType == ASSUME NEW s \in Streams PROVE NullFence(s) \in Fences
BY SizesAssumption DEF NullFence, Fence, Fences, Counters, Range32

\* Every step of the system is a quiet one or one of the seven that move buffers.
LEMMA NextIsCoreStep ==
  ASSUME ControlInv, FenceTypes, [Next]_vars
  PROVE  CoreStep
<1> USE StreamsAssumption DEF ControlInv, FenceTypes
<1> USE DEF buffers, counts, frames, stream, thread, render, history, core
<1>1. CASE UNCHANGED vars
  BY <1>1, NullFenceType DEF vars, QuietStep, CoreStep
<1>2. CASE Render
  <2>1. CASE WaitQueued
    BY <2>1 DEF WaitQueued, QuietStep, CoreStep
  <2>2. QED
    BY <1>2, <2>1 DEF Render, CoreStep
<1>3. CASE MainCall
  <2>1. CASE Frame
    <3>1. CASE Submit(Default, "frame")
      BY <2>1, <3>1 DEF Frame, SubmitStep, CoreStep
    <3>2. CASE ~Submit(Default, "frame")
      BY <2>1, <3>2, NullFenceType DEF Frame, QuietStep, CoreStep
    <3>3. QED
      BY <3>1, <3>2
  <2>2. CASE FlushDevice
    <3>1. CASE Submit(Default, "flush")
      BY <2>2, <3>1 DEF FlushDevice, SubmitStep, CoreStep
    <3>2. CASE ~Submit(Default, "flush")
      BY <2>2, <3>2 DEF FlushDevice, QuietStep, CoreStep
    <3>3. QED
      BY <3>1, <3>2
  <2>3. QED
    BY <1>3, <2>1, <2>2 DEF MainCall
<1>4. CASE MainContinues
  <2>1. CASE EndFrame
    <3>1. NextSlot \in 0 .. 1
      BY <2>1 DEF NextSlot, Slot
    <3>2. CASE Passed(frame_fences[TailSlot])
      BY <2>1, <3>1, <3>2, NullFenceType DEF EndFrame, QuietStep, CoreStep
    <3>3. CASE ~Passed(frame_fences[TailSlot])
      BY <2>1, <3>3 DEF EndFrame, Sleep, SleepAt, QuietStep, CoreStep
    <3>4. QED
      BY <3>2, <3>3
  <2>2. CASE TestDevice \/ Flushed
    BY <2>2 DEF TestDevice, Flushed, MainAt, QuietStep, CoreStep
  <2>3. CASE LockDevice \/ DrainDevice
    BY <2>3 DEF LockDevice, DrainDevice, Sleep, SleepAt, MainAt, QuietStep, CoreStep
  <2>4. QED
    BY <1>4, <2>1, <2>2, <2>3 DEF MainContinues
<1>5. ASSUME NEW s \in Streams, Call(s) PROVE CoreStep
  <2>1. CASE Write(s)
    <3>1. CASE Idle(s) /\ buf[s] # None /\ Submit(s, "get")
      BY <3>1 DEF SubmitStep, CoreStep
    <3>2. CASE Idle(s) /\ buf[s] = None /\ ~Submit(s, "get")
      BY <2>1, <3>2 DEF Write, QuietStep, CoreStep
    <3>3. CASE ~Submit(s, "get") /\ buf[s] # None
      BY <2>1, <3>3 DEF Write, WriteStep, CoreStep
    <3>4. CASE Submit(s, "get") /\ buf[s] = None
      BY <3>4 DEF Submit
    <3>5. QED
      BY <2>1, <3>1, <3>2, <3>3, <3>4 DEF Write
  <2>2. CASE Flush(s)
    BY <2>2 DEF Flush, SubmitStep, CoreStep
  <2>3. CASE WaitKept(s)
    <3> DEFINE f == IF s = Default THEN kept ELSE last_fence[s]
    <3>1. CASE Unsubmitted(s, f)
      BY <2>3, <3>1 DEF WaitKept, SubmitStep, CoreStep
    <3>2. CASE ~Unsubmitted(s, f)
      BY <2>3, <3>2 DEF WaitKept, QuietStep, CoreStep
    <3>3. QED
      BY <3>1, <3>2
  <2>4. QED
    BY <1>5, <2>1, <2>2, <2>3 DEF Call
<1>6. ASSUME NEW s \in Streams, Continue(s) PROVE CoreStep
  <2>1. CASE Count(s)
    BY <2>1 DEF Count, QuietStep, CoreStep
  <2>2. CASE WaitBuf(s)
    BY <2>2 DEF WaitBuf, Sleep, SleepAt, QuietStep, CoreStep
  <2>3. CASE TestFence(s)
    BY <2>3, NullFenceType DEF TestFence, Sleep, SleepAt, QuietStep, CoreStep
  <2>4. QED
    BY <1>6, <2>1, <2>2, <2>3 DEF Continue, CoreStep
<1>7. QED
  BY <1>1, <1>2, <1>3, <1>4, <1>5, <1>6 DEF Next

\* No stream has a buffer at first.
LEMMA InitControl == Init => ControlInv
BY DEF Init, ControlInv, Places

\* A stream that goes on to ask for a buffer has submitted its own.
LEMMA NextControl ==
  ASSUME ControlInv, [Next]_vars, free_cmd_buf_chain \in Seq(Bufs)
  PROVE  ControlInv'
<1> USE StreamsAssumption DEF ControlInv, Places, Goto
<1> USE DEF buffers, counts, frames, stream, thread, render, history
<1>1. ASSUME NEW s \in Streams, NEW place \in {"idle", "get", "test", "frame", "flush"},
             Submit(s, place)
      PROVE  ControlInv'
  BY <1>1 DEF Submit, Unlatched
<1>2. ASSUME NEW s \in Streams, NEW place \in Places, place # "count",
             place = "get" => buf[s] = None, SleepAt(s, place)
      PROVE  ControlInv'
  BY <1>2 DEF SleepAt
<1>3. CASE UNCHANGED vars
  BY <1>3 DEF vars
<1>4. CASE Render
  BY <1>4 DEF Render, Deque, WaitQueued, Execute, Retire, FreeBuf, Asleep
<1>5. CASE MainCall
  <2>1. CASE Submit(Default, "frame") \/ Submit(Default, "flush")
    BY <1>1, <2>1
  <2>2. CASE ~(Submit(Default, "frame") \/ Submit(Default, "flush"))
    BY <1>5, <2>2 DEF MainCall, Frame, FlushDevice
  <2>3. QED
    BY <2>1, <2>2
<1>6. CASE MainContinues
  <2>1. CASE EndFrame
    BY <2>1, <1>2 DEF EndFrame, Sleep
  <2>2. CASE TestDevice \/ Flushed
    BY <2>2 DEF TestDevice, Flushed, MainAt
  <2>3. CASE LockDevice
    BY <2>3, <1>2 DEF LockDevice
  <2>4. CASE DrainDevice
    BY <2>4, <1>2 DEF DrainDevice, Sleep, MainAt
  <2>5. QED
    BY <1>6, <2>1, <2>2, <2>3, <2>4 DEF MainContinues
<1>7. ASSUME NEW s \in Streams, Call(s) PROVE ControlInv'
  <2>1. CASE \E place \in {"idle", "get", "test", "frame", "flush"} : Submit(s, place)
    BY <1>1, <2>1
  <2>2. CASE ~ \E place \in {"idle", "get", "test", "frame", "flush"} : Submit(s, place)
    BY <1>7, <2>2 DEF Call, Write, Flush, WaitKept, WriteInto
  <2>3. QED
    BY <2>1, <2>2
<1>8. ASSUME NEW s \in Streams, Continue(s) PROVE ControlInv'
  <2>1. CASE Count(s)
    BY <2>1 DEF Count
  <2>2. CASE GetBuf(s)
    <3>1. Head(free_cmd_buf_chain) \in Bufs
      BY <2>2 DEF GetBuf
    <3>2. QED
      BY <2>2, <3>1 DEF GetBuf
  <2>3. CASE WaitBuf(s)
    BY <2>3, <1>2 DEF WaitBuf, Sleep
  <2>4. CASE TestFence(s)
    BY <2>4, <1>2 DEF TestFence, Sleep
  <2>5. QED
    BY <1>8, <2>1, <2>2, <2>3, <2>4 DEF Continue
<1>9. QED
  BY <1>3, <1>4, <1>5, <1>6, <1>7, <1>8 DEF Next

-----------------------------------------------------------------------------
(* Where the buffers are. *)

FreeBufs == Range(free_cmd_buf_chain)
QueuedBufs == Range(ordered_cmd_buf_que)
LatchedBufs == {b \in Bufs : \E s \in Streams : buf[s] = b}

PlacesInv ==
  /\ free_cmd_buf_chain \in Seq(Bufs) /\ IsInjective(free_cmd_buf_chain)
  /\ ordered_cmd_buf_que \in Seq(Bufs) /\ IsInjective(ordered_cmd_buf_que)
  /\ running \in Bufs \cup {None} /\ rpc \in {"deque", "asleep", "execute", "retired"}
  /\ running # None <=> rpc \in {"execute", "retired"}
  /\ \A s, t \in Streams : buf[s] = buf[t] => s = t \/ buf[s] = None
  /\ \A b \in Bufs :
       /\ b \in FreeBufs \/ b \in QueuedBufs \/ b \in LatchedBufs \/ b = running
       /\ b \in FreeBufs => b \notin QueuedBufs /\ b \notin LatchedBufs /\ b # running
       /\ b \in QueuedBufs => b \notin LatchedBufs /\ b # running
       /\ b \in LatchedBufs => b # running

\* The free list starts as a list of all buffers.
LEMMA AllBufs ==
  /\ SetToSeq(Bufs) \in Seq(Bufs) /\ IsInjective(SetToSeq(Bufs))
  /\ Range(SetToSeq(Bufs)) = Bufs
<1> DEFINE n == Cardinality(Bufs)
           f == SetToSeq(Bufs)
<1>1. n \in Nat /\ ExistsBijection(1 .. n, Bufs)
  BY BufsAssumption, FS_CardinalityType
<1>2. PICK g : g \in Bijection(1 .. n, Bufs)
  BY <1>1 DEF ExistsBijection
<1>3. g \in [1 .. n -> Bufs] /\ IsInjective(g)
  BY <1>2 DEF Bijection, Injection, IsInjective
<1>4. f \in [1 .. n -> Bufs] /\ IsInjective(f)
  BY <1>3 DEF SetToSeq
<1>5. f \in Seq(Bufs)
  BY <1>1, <1>4
<1>6. f \in Injection(1 .. n, Bufs)
  BY <1>4 DEF Injection, IsInjective
<1>7. Cardinality(1 .. n) = n
  BY <1>1, FS_Interval
<1>8. f \in Surjection(1 .. n, Bufs)
  BY <1>6, <1>7, BufsAssumption, FS_Injection
<1>9. Range(f) = Bufs
  BY <1>4, <1>8 DEF Surjection, Range
<1>10. QED
  BY <1>4, <1>5, <1>9

\* At first all buffers are in the free chain.
LEMMA InitPlaces == Init => PlacesInv
<1> SUFFICES ASSUME Init PROVE PlacesInv
  OBVIOUS
<1>1. /\ ordered_cmd_buf_que \in Seq(Bufs) /\ IsInjective(ordered_cmd_buf_que)
      /\ Range(ordered_cmd_buf_que) = {}
  BY DEF Init, IsInjective, Range
<1>2. \A b \in Bufs : b \in FreeBufs /\ b \notin QueuedBufs /\ b \notin LatchedBufs /\ b # running
  BY <1>1, AllBufs, StreamsAssumption DEF Init, FreeBufs, QueuedBufs, LatchedBufs
<1>3. QED
  BY <1>1, <1>2, AllBufs DEF Init, PlacesInv

\* Each of the seven steps moves one buffer from one place to one other.
LEMMA NextPlaces ==
  ASSUME ControlInv, PlacesInv, CoreStep
  PROVE  PlacesInv'
<1> USE StreamsAssumption DEF PlacesInv, FreeBufs, QueuedBufs, LatchedBufs
<1> USE DEF buffers, counts, frames, stream, thread, render, history
<1>1. CASE QuietStep
  BY <1>1 DEF QuietStep, core
<1>2. ASSUME NEW s \in Streams, SubmitStep(s) PROVE PlacesInv'
  <2> DEFINE b == buf[s]
  <2>1. /\ b \in Bufs /\ buf' = [buf EXCEPT ![s] = None] /\ buf' \in [Streams -> Bufs \cup {None}]
        /\ ordered_cmd_buf_que' = Append(ordered_cmd_buf_que, b)
        /\ UNCHANGED <<free_cmd_buf_chain, rpc, running>>
    BY <1>2 DEF SubmitStep, Submit, Unlatched, Linked, ControlInv
  <2>2. /\ ordered_cmd_buf_que' \in Seq(Bufs) /\ IsInjective(ordered_cmd_buf_que')
        /\ Range(ordered_cmd_buf_que') = Range(ordered_cmd_buf_que) \cup {b}
    BY <2>1, AppendOf
  <2>3. \A c \in Bufs : c \in LatchedBufs' <=> c \in LatchedBufs /\ c # b
    BY <2>1 DEF ControlInv
  <2>4. \A t, u \in Streams : buf'[t] = buf'[u] => t = u \/ buf'[t] = None
    BY <2>1 DEF ControlInv
  <2> HIDE DEF b
  <2>5. ASSUME NEW c \in Bufs
        PROVE  /\ c \in FreeBufs' \/ c \in QueuedBufs' \/ c \in LatchedBufs' \/ c = running'
               /\ c \in FreeBufs' => c \notin QueuedBufs' /\ c \notin LatchedBufs' /\ c # running'
               /\ c \in QueuedBufs' => c \notin LatchedBufs' /\ c # running'
               /\ c \in LatchedBufs' => c # running'
    <3>1. c \in FreeBufs' <=> c \in FreeBufs
      BY <2>1
    <3>2. c \in QueuedBufs' <=> c \in QueuedBufs \/ c = b
      BY <2>2
    <3>3. b \in LatchedBufs /\ b # running
      BY <2>1 DEF b
    <3>4. QED
      BY <2>1, <2>3, <3>1, <3>2, <3>3
  <2>6. QED
    BY <2>1, <2>2, <2>4, <2>5
<1>3. ASSUME NEW s \in Streams, WriteStep(s) PROVE PlacesInv'
  BY <1>3 DEF WriteStep
<1>4. ASSUME NEW s \in Streams, GetBuf(s) PROVE PlacesInv'
  <2> DEFINE b == Head(free_cmd_buf_chain)
  <2>1. /\ buf[s] = None /\ buf' = [buf EXCEPT ![s] = b]
        /\ free_cmd_buf_chain # <<>> /\ free_cmd_buf_chain' = Tail(free_cmd_buf_chain)
        /\ UNCHANGED <<ordered_cmd_buf_que, rpc, running>>
    BY <1>4 DEF GetBuf, ControlInv
  <2>2. /\ b \in Bufs /\ free_cmd_buf_chain' \in Seq(Bufs) /\ IsInjective(free_cmd_buf_chain')
        /\ Range(free_cmd_buf_chain) = {b} \cup Range(free_cmd_buf_chain')
        /\ b \notin Range(free_cmd_buf_chain')
    BY <2>1, TailOf
  <2> HIDE DEF b
  <2>3. \A c \in Bufs : c \in LatchedBufs' <=> c \in LatchedBufs \/ c = b
    BY <2>1, <2>2 DEF ControlInv
  <2>4. \A t, u \in Streams : buf'[t] = buf'[u] => t = u \/ buf'[t] = None
    BY <2>1, <2>2 DEF ControlInv
  <2>5. ASSUME NEW c \in Bufs
        PROVE  /\ c \in FreeBufs' \/ c \in QueuedBufs' \/ c \in LatchedBufs' \/ c = running'
               /\ c \in FreeBufs' => c \notin QueuedBufs' /\ c \notin LatchedBufs' /\ c # running'
               /\ c \in QueuedBufs' => c \notin LatchedBufs' /\ c # running'
               /\ c \in LatchedBufs' => c # running'
    <3>1. c \in QueuedBufs' <=> c \in QueuedBufs
      BY <2>1
    <3>2. c \in FreeBufs <=> c \in FreeBufs' \/ c = b
      BY <2>2
    <3>3. b \in FreeBufs /\ (c = b => c \notin FreeBufs')
      BY <2>2
    <3>4. QED
      BY <2>1, <2>2, <2>3, <3>1, <3>2, <3>3
  <2>6. QED
    BY <2>1, <2>2, <2>4, <2>5
<1>5. CASE Deque
  <2> DEFINE b == Head(ordered_cmd_buf_que)
  <2>1. /\ ordered_cmd_buf_que # <<>> /\ ordered_cmd_buf_que' = Tail(ordered_cmd_buf_que)
        /\ rpc = "deque" /\ rpc' = "execute" /\ running' = b
        /\ UNCHANGED <<free_cmd_buf_chain, buf>>
    BY <1>5 DEF Deque
  <2>2. /\ b \in Bufs /\ ordered_cmd_buf_que' \in Seq(Bufs) /\ IsInjective(ordered_cmd_buf_que')
        /\ Range(ordered_cmd_buf_que) = {b} \cup Range(ordered_cmd_buf_que')
        /\ b \notin Range(ordered_cmd_buf_que')
    BY <2>1, TailOf
  <2> HIDE DEF b
  <2>3. QED
    BY <2>1, <2>2
<1>6. CASE Execute
  BY <1>6 DEF Execute
<1>7. CASE Retire
  BY <1>7 DEF Retire
<1>8. CASE FreeBuf
  <2>1. /\ rpc = "retired" /\ rpc' = "deque" /\ running' = None /\ running \in Bufs
        /\ free_cmd_buf_chain' = <<running>> \o free_cmd_buf_chain
        /\ UNCHANGED <<ordered_cmd_buf_que, buf>>
    BY <1>8 DEF FreeBuf
  <2>2. /\ free_cmd_buf_chain' \in Seq(Bufs) /\ IsInjective(free_cmd_buf_chain')
        /\ Range(free_cmd_buf_chain') = {running} \cup Range(free_cmd_buf_chain)
    BY <2>1, PrependOf
  <2>3. QED
    BY <2>1, <2>2
<1>9. QED
  BY <1>1, <1>2, <1>3, <1>4, <1>5, <1>6, <1>7, <1>8 DEF CoreStep

-----------------------------------------------------------------------------
(* The counters of a buffer: it is submitted once more than it is retired  *)
(* from the submission until it is executed.                               *)

SubmittedBufs == {b \in Bufs : b \in QueuedBufs \/ (b = running /\ rpc = "execute")}

CounterInv ==
  /\ submit_counter \in [Bufs -> Counters] /\ retire_counter \in [Bufs -> Counters]
  /\ \A b \in Bufs :
       submit_counter[b] = IF b \in SubmittedBufs THEN Inc(retire_counter[b]) ELSE retire_counter[b]

\* A counter that wraps stays a counter.
LEMMA IncType == \A n \in Counters : Inc(n) \in Counters
BY SizesAssumption DEF Counters, Inc, Range32

\* At first no buffer was submitted.
LEMMA InitCounter == Init => CounterInv
<1> SUFFICES ASSUME Init PROVE CounterInv
  OBVIOUS
<1>1. \A b \in Bufs : b \notin SubmittedBufs
  BY DEF Init, SubmittedBufs, QueuedBufs, Range
<1>2. Range32 - 1 \in Counters
  BY SizesAssumption DEF Counters, Range32
<1>3. QED
  BY <1>1, <1>2 DEF Init, CounterInv

\* Submit and Retire are the only steps that count a buffer.
LEMMA NextCounter ==
  ASSUME ControlInv, PlacesInv, CounterInv, CoreStep
  PROVE  CounterInv'
<1> USE StreamsAssumption, IncType DEF CounterInv
<1> USE DEF buffers, counts, frames, stream, thread, render, history
<1>1. ASSUME UNCHANGED <<submit_counter, retire_counter>>,
             \A b \in Bufs : b \in SubmittedBufs' <=> b \in SubmittedBufs
      PROVE  CounterInv'
  BY <1>1
<1>2. CASE QuietStep
  BY <1>1, <1>2 DEF QuietStep, core, SubmittedBufs, QueuedBufs
<1>3. ASSUME NEW s \in Streams, SubmitStep(s) PROVE CounterInv'
  <2> DEFINE b == buf[s]
  <2>1. /\ b \in Bufs /\ submit_counter' = [submit_counter EXCEPT ![b] = Inc(submit_counter[b])]
        /\ ordered_cmd_buf_que' = Append(ordered_cmd_buf_que, b)
        /\ UNCHANGED <<retire_counter, rpc, running>>
    BY <1>3 DEF SubmitStep, Submit, Linked, ControlInv
  <2>2. b \notin SubmittedBufs
    BY <2>1 DEF PlacesInv, SubmittedBufs, LatchedBufs
  <2> HIDE DEF b
  <2>3. Range(ordered_cmd_buf_que') = Range(ordered_cmd_buf_que) \cup {b}
    BY <2>1, AppendOf DEF PlacesInv
  <2>4. \A c \in Bufs : c \in SubmittedBufs' <=> c \in SubmittedBufs \/ c = b
    BY <2>1, <2>3 DEF SubmittedBufs, QueuedBufs
  <2>5. QED
    BY <2>1, <2>2, <2>4
<1>4. ASSUME NEW s \in Streams, WriteStep(s) \/ GetBuf(s) PROVE CounterInv'
  BY <1>1, <1>4 DEF WriteStep, GetBuf, SubmittedBufs, QueuedBufs
<1>5. CASE Deque
  <2>1. /\ ordered_cmd_buf_que # <<>> /\ ordered_cmd_buf_que' = Tail(ordered_cmd_buf_que)
        /\ rpc = "deque" /\ rpc' = "execute" /\ running' = Head(ordered_cmd_buf_que)
        /\ UNCHANGED <<submit_counter, retire_counter>>
    BY <1>5 DEF Deque
  <2>2. Range(ordered_cmd_buf_que) = {Head(ordered_cmd_buf_que)} \cup Range(ordered_cmd_buf_que')
    BY <2>1, TailOf DEF PlacesInv
  <2>3. \A b \in Bufs : b \in SubmittedBufs' <=> b \in SubmittedBufs
    BY <2>1, <2>2 DEF SubmittedBufs, QueuedBufs
  <2>4. QED
    BY <1>1, <2>1, <2>3
<1>6. CASE Execute
  BY <1>1, <1>6 DEF Execute, SubmittedBufs, QueuedBufs
<1>7. CASE Retire
  <2>1. /\ running \in Bufs /\ rpc = "execute" /\ rpc' = "retired"
        /\ retire_counter' = [retire_counter EXCEPT ![running] = Inc(retire_counter[running])]
        /\ UNCHANGED <<submit_counter, running, ordered_cmd_buf_que>>
    BY <1>7 DEF Retire, PlacesInv
  <2>2. \A b \in Bufs : b \in SubmittedBufs' <=> b \in SubmittedBufs /\ b # running
    BY <2>1 DEF SubmittedBufs, QueuedBufs, PlacesInv
  <2>3. running \in SubmittedBufs
    BY <2>1 DEF SubmittedBufs
  <2>4. QED
    BY <2>1, <2>2, <2>3
<1>8. CASE FreeBuf
  BY <1>1, <1>8 DEF FreeBuf, SubmittedBufs, QueuedBufs
<1>9. QED
  BY <1>2, <1>3, <1>4, <1>5, <1>6, <1>7, <1>8 DEF CoreStep

-----------------------------------------------------------------------------
(* The commands: in whichever buffers they are, those of a stream come in  *)
(* the order they were written, after those that are executed.             *)

Less(c, d) == c[1] = d[1] => c[2] < d[2]
LastOf(q) == q[Len(q)]

\* Buffer b is executed before buffer c.
Ahead(b, c) ==
  \/ b = running /\ (c \in QueuedBufs \/ c \in LatchedBufs)
  \/ \E i, j \in DOMAIN ordered_cmd_buf_que :
       i < j /\ b = ordered_cmd_buf_que[i] /\ c = ordered_cmd_buf_que[j]
  \/ b \in QueuedBufs /\ c \in LatchedBufs

CommandsInv ==
  /\ cmds \in [Bufs -> Seq(Streams \X Nat)]
  /\ written \in [Streams -> Nat] /\ ran \in [Streams -> Nat]
  /\ pos \in Nat /\ (running # None => pos <= Len(cmds[running]))
  /\ \A b \in Bufs : b \in FreeBufs <=> cmds[b] = <<>>
  /\ \A s \in Streams : buf[s] # None =>
       /\ LastOf(cmds[buf[s]]) = <<s, written[s]>>
       /\ \A i \in 1 .. Len(cmds[buf[s]]) : cmds[buf[s]][i][1] = s
  /\ \A b \in Bufs : \A i \in 1 .. Len(cmds[b]) : cmds[b][i][2] <= written[cmds[b][i][1]]
  /\ \A s \in Streams : ran[s] <= written[s]

OrderInv ==
  /\ \A b \in Bufs : \A i, j \in 1 .. Len(cmds[b]) : i < j => Less(cmds[b][i], cmds[b][j])
  /\ \A b, c \in Bufs : Ahead(b, c) =>
       \A i \in 1 .. Len(cmds[b]), j \in 1 .. Len(cmds[c]) : Less(cmds[b][i], cmds[c][j])
  /\ \A b \in Bufs : b \in QueuedBufs \/ b \in LatchedBufs =>
       \A i \in 1 .. Len(cmds[b]) : ran[cmds[b][i][1]] < cmds[b][i][2]
  /\ running # None => \A i \in pos + 1 .. Len(cmds[running]) :
       ran[cmds[running][i][1]] < cmds[running][i][2]
  /\ running # None /\ pos > 0 => ran[cmds[running][pos][1]] >= cmds[running][pos][2]
  /\ rpc = "retired" => pos = Len(cmds[running])

\* At first nothing is written.
LEMMA InitCommands == Init => CommandsInv /\ OrderInv
<1> SUFFICES ASSUME Init PROVE CommandsInv /\ OrderInv
  OBVIOUS
<1>1. cmds = [b \in Bufs |-> <<>>] /\ \A b \in Bufs : cmds[b] = <<>> /\ Len(cmds[b]) = 0
  BY DEF Init
<1>2. \A b \in Bufs : b \in FreeBufs
  BY AllBufs DEF Init, FreeBufs
<1>3. CommandsInv
  BY <1>1, <1>2 DEF Init, CommandsInv
<1>4. OrderInv
  BY <1>1, StreamsAssumption DEF Init, OrderInv
<1>5. QED
  BY <1>3, <1>4

\* A command of stream s is added to a buffer that is its own from now on.
Grow(s, b) ==
  /\ cmds' = [cmds EXCEPT ![b] = Append(cmds[b], <<s, written[s] + 1>>)]
  /\ written' = [written EXCEPT ![s] = written[s] + 1]
  /\ buf'[s] = b /\ \A u \in Streams \ {s} : buf'[u] = buf[u]
  /\ \A c \in Bufs : /\ c \in FreeBufs' <=> c \in FreeBufs /\ c # b
                     /\ c \in LatchedBufs' <=> c \in LatchedBufs \/ c = b
  /\ b \notin QueuedBufs /\ b # running
  /\ cmds[b] = <<>> \/ b \in LatchedBufs
  /\ \A i \in 1 .. Len(cmds[b]) : cmds[b][i][1] = s
  /\ UNCHANGED <<ordered_cmd_buf_que, submit_counter, retire_counter, last_fence, fence,
                 frame_fences, num_frames, rpc, running, pos, ran>>

\* A write appends one command, the next of its stream, to one buffer.
LEMMA WritesGrow ==
  ASSUME ControlInv, PlacesInv, CommandsInv, NEW s \in Streams, WriteStep(s) \/ GetBuf(s)
  PROVE  \E b \in Bufs :
           /\ Grow(s, b)
           /\ UNCHANGED kept \/ kept' = Fence(s, b, Inc(submit_counter[b]), written'[s])
<1> USE DEF buffers, counts, frames, stream, thread, render, history
<1>1. CASE WriteStep(s)
  <2> DEFINE b == buf[s]
  <2>1. /\ b \in Bufs /\ b \in LatchedBufs
        /\ UNCHANGED <<buf, free_cmd_buf_chain>>
    BY <1>1 DEF WriteStep, ControlInv, LatchedBufs
  <2>2. b \notin QueuedBufs /\ b # running /\ b \notin FreeBufs
    BY <2>1 DEF PlacesInv
  <2>3. \A i \in 1 .. Len(cmds[b]) : cmds[b][i][1] = s
    BY <1>1 DEF CommandsInv, WriteStep
  <2>4. \A c \in Bufs : /\ c \in FreeBufs' <=> c \in FreeBufs /\ c # b
                        /\ c \in LatchedBufs' <=> c \in LatchedBufs \/ c = b
    BY <2>1, <2>2 DEF FreeBufs, LatchedBufs
  <2>5. /\ cmds' = [cmds EXCEPT ![b] = Append(cmds[b], <<s, written[s] + 1>>)]
        /\ written' = [written EXCEPT ![s] = written[s] + 1]
        /\ UNCHANGED <<ordered_cmd_buf_que, submit_counter, retire_counter, last_fence, fence,
                       frame_fences, num_frames, rpc, running, pos, ran>>
    BY <1>1 DEF WriteStep, WriteInto
  <2>6. buf'[s] = b /\ \A u \in Streams \ {s} : buf'[u] = buf[u]
    BY <2>1
  <2> HIDE DEF b
  <2>7. Grow(s, b)
    BY <2>1, <2>2, <2>3, <2>4, <2>5, <2>6 DEF Grow
  <2>8. QED
    BY <1>1, <2>1, <2>7 DEF WriteStep, WriteInto, b
<1>2. CASE GetBuf(s)
  <2> DEFINE b == Head(free_cmd_buf_chain)
  <2>1. /\ buf[s] = None /\ buf' = [buf EXCEPT ![s] = b]
        /\ free_cmd_buf_chain # <<>> /\ free_cmd_buf_chain' = Tail(free_cmd_buf_chain)
    BY <1>2 DEF GetBuf, ControlInv
  <2>2. /\ b \in Bufs
        /\ Range(free_cmd_buf_chain) = {b} \cup Range(free_cmd_buf_chain')
        /\ b \notin Range(free_cmd_buf_chain')
    BY <2>1, TailOf DEF PlacesInv
  <2>3. b \in FreeBufs /\ b \notin QueuedBufs /\ b # running /\ cmds[b] = <<>>
    BY <2>2 DEF FreeBufs, PlacesInv, CommandsInv
  <2>4. UNCHANGED <<ordered_cmd_buf_que, submit_counter, retire_counter, last_fence, fence,
                    frame_fences, num_frames, rpc, running, pos, ran>>
    BY <1>2 DEF GetBuf
  <2>5. /\ cmds' = [cmds EXCEPT ![b] = Append(cmds[b], <<s, written[s] + 1>>)]
        /\ written' = [written EXCEPT ![s] = written[s] + 1]
        /\ UNCHANGED kept \/ kept' = Fence(s, b, Inc(submit_counter[b]), written'[s])
    BY <1>2 DEF GetBuf, WriteInto
  <2> HIDE DEF b
  <2>6. buf'[s] = b /\ \A u \in Streams \ {s} : buf'[u] = buf[u]
    BY <2>1 DEF ControlInv
  <2>7. \A c \in Bufs : c \in FreeBufs' <=> c \in FreeBufs /\ c # b
    BY <2>2 DEF FreeBufs
  <2>8. \A c \in Bufs : c \in LatchedBufs' <=> c \in LatchedBufs \/ c = b
    BY <2>1, <2>2, StreamsAssumption DEF LatchedBufs, ControlInv
  <2>9. \A i \in 1 .. Len(cmds[b]) : cmds[b][i][1] = s
    BY <2>3
  <2>10. Grow(s, b)
    BY <2>3, <2>4, <2>5, <2>6, <2>7, <2>8, <2>9 DEF Grow
  <2>11. QED
    BY <2>2, <2>5, <2>10
<1>3. QED
  BY <1>1, <1>2

\* What a growing buffer holds.
LEMMA Grown ==
  ASSUME CommandsInv, NEW s \in Streams, NEW b \in Bufs, Grow(s, b)
  PROVE  /\ cmds' \in [Bufs -> Seq(Streams \X Nat)] /\ written' \in [Streams -> Nat]
         /\ \A u \in Streams : written[u] <= written'[u]
         /\ \A c \in Bufs \ {b} : cmds'[c] = cmds[c]
         /\ Len(cmds[b]) \in Nat /\ Len(cmds'[b]) = Len(cmds[b]) + 1
         /\ cmds'[b][Len(cmds[b]) + 1] = <<s, written'[s]>> /\ written'[s] = written[s] + 1
         /\ \A i \in 1 .. Len(cmds[b]) : cmds'[b][i] = cmds[b][i]
<1> DEFINE n == written[s] + 1
<1>1. n \in Nat /\ <<s, n>> \in Streams \X Nat
  BY DEF CommandsInv
<1>2. cmds[b] \in Seq(Streams \X Nat)
  BY DEF CommandsInv
<1> DEFINE q == Append(cmds[b], <<s, n>>)
<1>3. /\ q \in Seq(Streams \X Nat) /\ Len(q) = Len(cmds[b]) + 1 /\ Len(cmds[b]) \in Nat
      /\ q[Len(cmds[b]) + 1] = <<s, n>> /\ \A i \in 1 .. Len(cmds[b]) : q[i] = cmds[b][i]
  BY <1>1, <1>2
<1>4. cmds' = [cmds EXCEPT ![b] = q]
  BY DEF Grow
<1> HIDE DEF q
<1>5. /\ cmds' \in [Bufs -> Seq(Streams \X Nat)] /\ cmds'[b] = q
      /\ \A c \in Bufs \ {b} : cmds'[c] = cmds[c]
  BY <1>3, <1>4 DEF CommandsInv
<1>6. /\ written' \in [Streams -> Nat] /\ written'[s] = n
      /\ \A u \in Streams : written[u] <= written'[u]
  BY DEF Grow, CommandsInv
<1>7. QED
  BY <1>3, <1>5, <1>6

\* The rest of the buffer that is executed.
LEMMA LeftOf ==
  ASSUME CommandsInv, running \in Bufs, Left(running) # <<>>
  PROVE  /\ pos + 1 \in 1 .. Len(cmds[running])
         /\ Head(Left(running)) = cmds[running][pos + 1]
         /\ cmds[running][pos + 1] \in Streams \X Nat
<1> DEFINE q == cmds[running]
<1>1. q \in Seq(Streams \X Nat) /\ Len(q) \in Nat /\ pos \in Nat
  BY DEF CommandsInv
<1> HIDE DEF q
<1>2. pos + 1 <= Len(q)
  <2>1. Left(running) = SubSeq(q, pos + 1, Len(q))
    BY DEF Left, q
  <2>2. QED
    BY <1>1, <2>1, SubSeqEmpty
<1>3. Head(SubSeq(q, pos + 1, Len(q))) = q[pos + 1]
  BY <1>1, <1>2, HeadTailOfSubSeq
<1>4. pos + 1 \in 1 .. Len(q) /\ q[pos + 1] \in Streams \X Nat
  BY <1>1, <1>2
<1>5. QED
  BY <1>3, <1>4 DEF Left, q

\* A step that writes nothing.
LEMMA CommandsKept ==
  ASSUME CommandsInv, UNCHANGED <<free_cmd_buf_chain, cmds, written>>,
         \A s \in Streams : buf'[s] \in {buf[s], None},
         ran' \in [Streams -> Nat], \A s \in Streams : ran'[s] <= written[s],
         pos' \in Nat, running' # None => pos' <= Len(cmds[running'])
  PROVE  CommandsInv'
<1>1. FreeBufs' = FreeBufs
  BY DEF FreeBufs
<1>2. ASSUME NEW s \in Streams, buf'[s] # None
      PROVE  /\ LastOf(cmds'[buf'[s]]) = <<s, written'[s]>>
             /\ \A i \in 1 .. Len(cmds'[buf'[s]]) : cmds'[buf'[s]][i][1] = s
  <2>1. buf'[s] = buf[s] /\ buf[s] # None
    BY <1>2
  <2>2. QED
    BY <2>1 DEF CommandsInv
<1>3. QED
  BY <1>1, <1>2 DEF CommandsInv

\* Every step keeps what the buffers hold well formed.
LEMMA NextCommands ==
  ASSUME ControlInv, PlacesInv, CommandsInv, OrderInv, CoreStep
  PROVE  CommandsInv'
<1> USE StreamsAssumption
<1> USE DEF buffers, counts, frames, stream, thread, render, history
<1>1. CASE QuietStep
  <2>1. UNCHANGED <<free_cmd_buf_chain, cmds, written, ran, buf, running, pos>>
    BY <1>1 DEF QuietStep, core
  <2>2. ran \in [Streams -> Nat] /\ \A s \in Streams : ran[s] <= written[s]
    BY DEF CommandsInv
  <2>3. pos \in Nat /\ (running # None => pos <= Len(cmds[running]))
    BY DEF CommandsInv
  <2>4. QED
    BY <2>1, <2>2, <2>3, CommandsKept
<1>2. ASSUME NEW s \in Streams, SubmitStep(s) PROVE CommandsInv'
  <2>1. /\ buf' = [buf EXCEPT ![s] = None]
        /\ UNCHANGED <<free_cmd_buf_chain, cmds, written, ran, running, pos>>
    BY <1>2 DEF SubmitStep, Submit, Unlatched
  <2>2. ran \in [Streams -> Nat] /\ \A u \in Streams : ran[u] <= written[u]
    BY DEF CommandsInv
  <2>3. pos \in Nat /\ (running # None => pos <= Len(cmds[running]))
    BY DEF CommandsInv
  <2>4. \A u \in Streams : buf'[u] \in {buf[u], None}
    BY <2>1 DEF ControlInv
  <2>5. QED
    BY <2>1, <2>2, <2>3, <2>4, CommandsKept
<1>3. ASSUME NEW s \in Streams, WriteStep(s) \/ GetBuf(s) PROVE CommandsInv'
  <2>1. PICK b \in Bufs : Grow(s, b)
    BY <1>3, WritesGrow
  <2>2. /\ cmds' \in [Bufs -> Seq(Streams \X Nat)] /\ written' \in [Streams -> Nat]
        /\ \A u \in Streams : written[u] <= written'[u]
        /\ \A c \in Bufs \ {b} : cmds'[c] = cmds[c]
        /\ Len(cmds[b]) \in Nat /\ Len(cmds'[b]) = Len(cmds[b]) + 1
        /\ cmds'[b][Len(cmds[b]) + 1] = <<s, written'[s]>> /\ written'[s] = written[s] + 1
        /\ \A i \in 1 .. Len(cmds[b]) : cmds'[b][i] = cmds[b][i]
    BY <2>1, Grown, Zenon
  <2>3. /\ ran' \in [Streams -> Nat] /\ pos' \in Nat
        /\ running' # None => pos' <= Len(cmds'[running'])
    BY <2>1, <2>2, ZenonT(30) DEF Grow, CommandsInv, PlacesInv
  <2>4. ASSUME NEW c \in Bufs PROVE c \in FreeBufs' <=> cmds'[c] = <<>>
    <3>1. cmds'[b] # <<>>
      BY <2>2
    <3>2. c \in FreeBufs' <=> c \in FreeBufs /\ c # b
      BY <2>1 DEF Grow
    <3>3. c # b => cmds'[c] = cmds[c]
      BY <2>2
    <3>4. c \in FreeBufs <=> cmds[c] = <<>>
      BY DEF CommandsInv
    <3>5. QED
      BY <3>1, <3>2, <3>3, <3>4
  <2>5. ASSUME NEW u \in Streams, buf'[u] # None
        PROVE  /\ LastOf(cmds'[buf'[u]]) = <<u, written'[u]>>
               /\ \A i \in 1 .. Len(cmds'[buf'[u]]) : cmds'[buf'[u]][i][1] = u
    <3>1. CASE u = s
      <4>1. buf'[u] = b /\ LastOf(cmds'[b]) = <<s, written'[s]>>
        BY <2>1, <2>2, <3>1 DEF Grow, LastOf
      <4>2. ASSUME NEW i \in 1 .. Len(cmds'[b]) PROVE cmds'[b][i][1] = s
        <5> DEFINE n == Len(cmds[b])
        <5>1. n \in Nat /\ i \in 1 .. n + 1
          BY <2>2
        <5>2. CASE i = n + 1
          BY <2>2, <5>2
        <5>3. CASE i \in 1 .. n
          <6>1. cmds'[b][i] = cmds[b][i]
            BY <2>2, <5>3
          <6>2. cmds[b][i][1] = s
            BY <2>1, <5>3 DEF Grow
          <6>3. QED
            BY <6>1, <6>2
        <5> HIDE DEF n
        <5>4. QED
          BY <5>1, <5>2, <5>3
      <4>3. QED
        BY <3>1, <4>1, <4>2
    <3>2. CASE u # s
      <4>1. buf'[u] = buf[u] /\ buf[u] \in Bufs
        BY <2>1, <2>5, <3>2 DEF Grow, ControlInv
      <4>2. buf[u] # b
        <5>1. cmds[buf[u]][Len(cmds[buf[u]])][1] = u
          BY <2>5, <4>1 DEF CommandsInv, LastOf
        <5>2. cmds[buf[u]] # <<>>
          BY <4>1 DEF PlacesInv, CommandsInv, LatchedBufs
        <5>3. Len(cmds[buf[u]]) \in 1 .. Len(cmds[buf[u]])
          BY <4>1, <5>2 DEF CommandsInv
        <5>4. QED
          BY <2>1, <3>2, <5>1, <5>3 DEF Grow
      <4>3. cmds'[buf[u]] = cmds[buf[u]] /\ written'[u] = written[u]
        BY <2>1, <2>2, <3>2, <4>1, <4>2 DEF Grow, CommandsInv
      <4>4. QED
        BY <2>5, <4>1, <4>3 DEF CommandsInv, LastOf
    <3>3. QED
      BY <3>1, <3>2
  <2>6. ASSUME NEW c \in Bufs, NEW i \in 1 .. Len(cmds'[c])
        PROVE  cmds'[c][i][2] <= written'[cmds'[c][i][1]]
    <3>1. CASE c = b /\ i = Len(cmds[b]) + 1
      BY <2>2, <3>1
    <3>2. CASE ~(c = b /\ i = Len(cmds[b]) + 1)
      <4>1. i \in 1 .. Len(cmds[c]) /\ cmds'[c][i] = cmds[c][i]
        <5>1. CASE c = b
          <6>1. i \in 1 .. Len(cmds[b])
            <7>1. i \in 1 .. Len(cmds[b]) + 1 /\ i # Len(cmds[b]) + 1
              BY <2>2, <3>2, <5>1
            <7>2. Len(cmds[b]) \in Nat
              BY <2>2
            <7>3. QED
              BY <7>1, <7>2
          <6>2. QED
            BY <2>2, <5>1, <6>1
        <5>2. CASE c # b
          BY <2>2, <5>2
        <5>3. QED
          BY <5>1, <5>2
      <4>2. cmds[c][i] \in Streams \X Nat
        BY <4>1 DEF CommandsInv
      <4>3. PICK u \in Streams, n \in Nat : cmds[c][i] = <<u, n>>
        BY <4>2
      <4>4. n <= written[u]
        <5>1. cmds[c][i][2] <= written[cmds[c][i][1]]
          BY <4>1 DEF CommandsInv
        <5>2. QED
          BY <4>3, <5>1
      <4>5. written[u] <= written'[u] /\ written[u] \in Nat /\ written'[u] \in Nat
        BY <2>2 DEF CommandsInv
      <4>6. n <= written'[u]
        BY <4>4, <4>5
      <4>7. QED
        BY <4>1, <4>3, <4>6
    <3>3. QED
      BY <3>1, <3>2
  <2>7. ASSUME NEW u \in Streams PROVE ran'[u] <= written'[u]
    <3>1. /\ ran'[u] = ran[u] /\ ran[u] <= written[u] /\ written[u] <= written'[u]
          /\ ran[u] \in Nat /\ written[u] \in Nat /\ written'[u] \in Nat
      BY <2>1, <2>2 DEF Grow, CommandsInv
    <3>2. QED
      BY <3>1
  <2>8. QED
    BY <2>2, <2>3, <2>4, <2>5, <2>6, <2>7 DEF CommandsInv
<1>4. CASE Deque
  <2>1. /\ running' \in Bufs /\ pos' = 0
        /\ UNCHANGED <<free_cmd_buf_chain, cmds, written, ran, buf>>
    BY <1>4 DEF Deque, PlacesInv
  <2>2. Len(cmds[running']) \in Nat
    BY <2>1 DEF CommandsInv
  <2>3. ran \in [Streams -> Nat] /\ \A s \in Streams : ran[s] <= written[s]
    BY DEF CommandsInv
  <2>4. pos' \in Nat /\ pos' <= Len(cmds[running'])
    BY <2>1, <2>2
  <2>5. QED
    BY <2>1, <2>3, <2>4, CommandsKept
<1>5. CASE Execute
  <2>1. /\ running \in Bufs /\ Left(running) # <<>> /\ pos' = pos + 1
        /\ UNCHANGED <<free_cmd_buf_chain, cmds, written, buf, running>>
        /\ ran' = [ran EXCEPT ![Head(Left(running))[1]] = Head(Left(running))[2]]
    BY <1>5 DEF Execute, PlacesInv
  <2>2. /\ pos + 1 \in 1 .. Len(cmds[running])
        /\ Head(Left(running)) = cmds[running][pos + 1]
        /\ cmds[running][pos + 1] \in Streams \X Nat
    BY <2>1, LeftOf
  <2>3. PICK v \in Streams, k \in Nat : cmds[running][pos + 1] = <<v, k>>
    BY <2>2
  <2>4. ran' = [ran EXCEPT ![v] = k]
    <3>1. Head(Left(running))[1] = v /\ Head(Left(running))[2] = k
      BY <2>2, <2>3
    <3>2. QED
      BY <2>1, <3>1
  <2>5. k <= written[v]
    <3>1. cmds[running][pos + 1][2] <= written[cmds[running][pos + 1][1]]
      BY <2>1, <2>2 DEF CommandsInv
    <3>2. QED
      BY <2>3, <3>1
  <2>6. ran \in [Streams -> Nat] /\ \A u \in Streams : ran[u] <= written[u]
    BY DEF CommandsInv
  <2>7. ran' \in [Streams -> Nat] /\ \A u \in Streams : ran'[u] <= written[u]
    BY <2>4, <2>5, <2>6
  <2>8. pos' \in Nat /\ pos' <= Len(cmds[running])
    <3>1. pos \in Nat /\ Len(cmds[running]) \in Nat
      BY <2>1 DEF CommandsInv
    <3>2. QED
      BY <2>1, <2>2, <3>1
  <2>9. QED
    BY <2>1, <2>7, <2>8, CommandsKept
<1>6. CASE Retire
  <2>1. UNCHANGED <<free_cmd_buf_chain, cmds, written, ran, buf, running, pos>>
    BY <1>6 DEF Retire
  <2>2. ran \in [Streams -> Nat] /\ \A s \in Streams : ran[s] <= written[s]
    BY DEF CommandsInv
  <2>3. pos \in Nat /\ (running # None => pos <= Len(cmds[running]))
    BY DEF CommandsInv
  <2>4. QED
    BY <2>1, <2>2, <2>3, CommandsKept
<1>7. CASE FreeBuf
  <2>1. /\ running \in Bufs /\ running' = None /\ pos' = 0
        /\ cmds' = [cmds EXCEPT ![running] = <<>>]
        /\ free_cmd_buf_chain' = <<running>> \o free_cmd_buf_chain
        /\ UNCHANGED <<written, ran, buf>>
    BY <1>7 DEF FreeBuf, PlacesInv
  <2>2. \A c \in Bufs : c \in FreeBufs' <=> c \in FreeBufs \/ c = running
    BY <2>1, PrependOf DEF PlacesInv, FreeBufs
  <2>3. \A u \in Streams : buf[u] # running
    BY <2>1 DEF PlacesInv, LatchedBufs
  <2>4. cmds' \in [Bufs -> Seq(Streams \X Nat)] /\ cmds'[running] = <<>>
        /\ \A c \in Bufs \ {running} : cmds'[c] = cmds[c]
    BY <2>1 DEF CommandsInv
  <2>5. \A c \in Bufs : c \in FreeBufs' <=> cmds'[c] = <<>>
    BY <2>2, <2>4 DEF CommandsInv
  <2>6. \A u \in Streams : buf[u] # None => cmds'[buf[u]] = cmds[buf[u]]
    BY <2>3, <2>4 DEF ControlInv
  <2>7. \A c \in Bufs : \A i \in 1 .. Len(cmds'[c]) : cmds'[c][i][2] <= written[cmds'[c][i][1]]
    <3> SUFFICES ASSUME NEW c \in Bufs, NEW i \in 1 .. Len(cmds'[c])
                 PROVE  cmds'[c][i][2] <= written[cmds'[c][i][1]]
      OBVIOUS
    <3>1. Len(cmds'[running]) = 0
      BY <2>4
    <3>2. c # running
      BY <3>1
    <3>3. cmds'[c] = cmds[c]
      BY <2>4, <3>2
    <3>4. QED
      BY <3>3 DEF CommandsInv
  <2>8. \A s \in Streams : buf'[s] # None =>
          /\ LastOf(cmds'[buf'[s]]) = <<s, written'[s]>>
          /\ \A i \in 1 .. Len(cmds'[buf'[s]]) : cmds'[buf'[s]][i][1] = s
    <3> SUFFICES ASSUME NEW s \in Streams, buf[s] # None
                 PROVE  /\ LastOf(cmds'[buf[s]]) = <<s, written[s]>>
                        /\ \A i \in 1 .. Len(cmds'[buf[s]]) : cmds'[buf[s]][i][1] = s
      BY <2>1
    <3>1. cmds'[buf[s]] = cmds[buf[s]]
      BY <2>6
    <3>2. QED
      BY <3>1 DEF CommandsInv
  <2>9. /\ written' \in [Streams -> Nat] /\ ran' \in [Streams -> Nat]
        /\ pos' \in Nat /\ running' = None
    BY <2>1 DEF CommandsInv
  <2>10. QED
    BY <2>1, <2>4, <2>5, <2>7, <2>8, <2>9 DEF CommandsInv
<1>8. QED
  BY <1>1, <1>2, <1>3, <1>4, <1>5, <1>6, <1>7 DEF CoreStep

\* A step that executes and writes nothing keeps the order if no two buffers
\* change places.
LEMMA OrderKept ==
  ASSUME OrderInv, UNCHANGED <<cmds, ran>>,
         \A b, c \in Bufs : Ahead(b, c)' =>
           \/ Ahead(b, c)
           \/ \A i \in 1 .. Len(cmds[b]), j \in 1 .. Len(cmds[c]) : cmds[b][i][1] # cmds[c][j][1],
         \A b \in Bufs : b \in QueuedBufs' \cup LatchedBufs' => b \in QueuedBufs \cup LatchedBufs,
         \/ /\ UNCHANGED <<running, pos>>
            /\ rpc' = "retired" => rpc = "retired" \/ pos = Len(cmds[running])
         \/ running' \in Bufs /\ running' \in QueuedBufs /\ pos' = 0 /\ rpc' # "retired"
  PROVE  OrderInv'
<1>1. \A b \in Bufs : \A i, j \in 1 .. Len(cmds[b]) : i < j => Less(cmds[b][i], cmds[b][j])
  BY DEF OrderInv
<1>2. \A b, c \in Bufs : Ahead(b, c)' =>
        \A i \in 1 .. Len(cmds[b]), j \in 1 .. Len(cmds[c]) : Less(cmds[b][i], cmds[c][j])
  <2> SUFFICES ASSUME NEW b \in Bufs, NEW c \in Bufs, Ahead(b, c)',
                      NEW i \in 1 .. Len(cmds[b]), NEW j \in 1 .. Len(cmds[c])
               PROVE  Less(cmds[b][i], cmds[c][j])
    OBVIOUS
  <2>1. CASE Ahead(b, c)
    BY <2>1 DEF OrderInv
  <2>2. CASE ~Ahead(b, c)
    BY <2>2 DEF Less
  <2>3. QED
    BY <2>1, <2>2
<1>3. \A b \in Bufs : b \in QueuedBufs' \/ b \in LatchedBufs' =>
        \A i \in 1 .. Len(cmds[b]) : ran[cmds[b][i][1]] < cmds[b][i][2]
  BY DEF OrderInv
<1>4. CASE /\ UNCHANGED <<running, pos>>
           /\ rpc' = "retired" => rpc = "retired" \/ pos = Len(cmds[running])
  BY <1>1, <1>2, <1>3, <1>4 DEF OrderInv
<1>5. CASE running' \in Bufs /\ running' \in QueuedBufs /\ pos' = 0 /\ rpc' # "retired"
  <2>1. \A i \in 1 .. Len(cmds[running']) :
          ran[cmds[running'][i][1]] < cmds[running'][i][2]
    BY <1>5 DEF OrderInv
  <2>2. pos' + 1 = 1 /\ ~(pos' > 0)
    BY <1>5
  <2>3. QED
    BY <1>1, <1>2, <1>3, <1>5, <2>1, <2>2 DEF OrderInv
<1>6. QED
  BY <1>4, <1>5

\* A latched buffer that is queued last stays behind all queued ones.
LEMMA SubmitOrder ==
  ASSUME ControlInv, PlacesInv, CommandsInv, OrderInv, NEW s \in Streams, SubmitStep(s)
  PROVE  OrderInv'
<1> DEFINE b == buf[s]
           n == Len(ordered_cmd_buf_que)
<1>1. /\ b \in Bufs /\ buf' = [buf EXCEPT ![s] = None] /\ b \in LatchedBufs
      /\ ordered_cmd_buf_que' = Append(ordered_cmd_buf_que, b)
      /\ UNCHANGED <<cmds, ran, rpc, running, pos>>
  BY DEF SubmitStep, Submit, Unlatched, Linked, ControlInv, render, history, LatchedBufs
<1>2. /\ n \in Nat /\ DOMAIN ordered_cmd_buf_que = 1 .. n
      /\ DOMAIN ordered_cmd_buf_que' = 1 .. n + 1
      /\ ordered_cmd_buf_que'[n + 1] = b
      /\ \A i \in 1 .. n : ordered_cmd_buf_que'[i] = ordered_cmd_buf_que[i]
  BY <1>1 DEF PlacesInv
<1>3. \A c \in Bufs : /\ c \in QueuedBufs' <=> c \in QueuedBufs \/ c = b
                      /\ c \in LatchedBufs' <=> c \in LatchedBufs /\ c # b
  <2>1. Range(ordered_cmd_buf_que') = Range(ordered_cmd_buf_que) \cup {b}
    BY <1>1, AppendOf DEF PlacesInv
  <2>2. \A c \in Bufs : c \in LatchedBufs' <=> c \in LatchedBufs /\ c # b
    BY <1>1, StreamsAssumption DEF ControlInv, PlacesInv, LatchedBufs
  <2>3. QED
    BY <2>1, <2>2 DEF QueuedBufs
<1>4. \A i \in 1 .. Len(cmds[b]) : cmds[b][i][1] = s
  BY <1>1, StreamsAssumption DEF CommandsInv
<1> HIDE DEF b, n
<1>5. ASSUME NEW x \in Bufs, NEW y \in Bufs, Ahead(x, y)'
      PROVE  \/ Ahead(x, y)
             \/ \A i \in 1 .. Len(cmds[x]), j \in 1 .. Len(cmds[y]) : cmds[x][i][1] # cmds[y][j][1]
  <2>1. CASE x = running' /\ (y \in QueuedBufs' \/ y \in LatchedBufs')
    BY <1>1, <1>3, <2>1 DEF Ahead
  <2>2. CASE \E i, j \in DOMAIN ordered_cmd_buf_que' :
               i < j /\ x = ordered_cmd_buf_que'[i] /\ y = ordered_cmd_buf_que'[j]
    <3>1. PICK i \in 1 .. n + 1, j \in 1 .. n + 1 :
            i < j /\ x = ordered_cmd_buf_que'[i] /\ y = ordered_cmd_buf_que'[j]
      BY <1>2, <2>2
    <3>2. i \in 1 .. n /\ x = ordered_cmd_buf_que[i]
      BY <1>2, <3>1
    <3>3. CASE j = n + 1
      BY <1>1, <1>2, <3>1, <3>2, <3>3 DEF Ahead, QueuedBufs, Range
    <3>4. CASE j # n + 1
      <4>1. j \in 1 .. n /\ y = ordered_cmd_buf_que[j]
        BY <1>2, <3>1, <3>4
      <4>2. QED
        BY <1>2, <3>1, <3>2, <4>1 DEF Ahead
    <3>5. QED
      BY <3>3, <3>4
  <2>3. CASE x \in QueuedBufs' /\ y \in LatchedBufs'
    <3>1. CASE x \in QueuedBufs
      BY <1>3, <2>3, <3>1 DEF Ahead
    <3>2. CASE x = b
      <4>1. y \in LatchedBufs /\ y # b
        BY <1>3, <2>3
      <4> PICK u \in Streams : buf[u] = y
        BY <4>1 DEF LatchedBufs
      <4>2. u # s /\ y # None
        BY <4>1, StreamsAssumption DEF b
      <4>3. \A j \in 1 .. Len(cmds[y]) : cmds[y][j][1] = u
        BY <4>1, <4>2 DEF CommandsInv
      <4>4. QED
        BY <1>4, <3>2, <4>2, <4>3
    <3>3. QED
      BY <1>3, <2>3, <3>1, <3>2
  <2>4. QED
    BY <1>5, <2>1, <2>2, <2>3 DEF Ahead
<1>6. \A c \in Bufs : c \in QueuedBufs' \cup LatchedBufs' => c \in QueuedBufs \cup LatchedBufs
  <2>1. b \in LatchedBufs
    BY <1>1
  <2>2. QED
    BY <1>3, <2>1
<1>7. QED
  BY <1>1, <1>5, <1>6, OrderKept

\* A command that is written is behind all others of its stream.
LEMMA GrowOrder ==
  ASSUME ControlInv, PlacesInv, CommandsInv, OrderInv,
         NEW s \in Streams, NEW b \in Bufs, Grow(s, b)
  PROVE  OrderInv'
<1> DEFINE n == Len(cmds[b])
<1>1. /\ written' \in [Streams -> Nat] /\ written'[s] = written[s] + 1
      /\ \A c \in Bufs \ {b} : cmds'[c] = cmds[c]
      /\ n \in Nat /\ Len(cmds'[b]) = n + 1 /\ cmds'[b][n + 1] = <<s, written'[s]>>
      /\ \A i \in 1 .. n : cmds'[b][i] = cmds[b][i]
  BY Grown
<1>2. /\ UNCHANGED <<ordered_cmd_buf_que, rpc, running, pos, ran>>
      /\ b \notin QueuedBufs /\ b # running
  BY DEF Grow
<1> HIDE DEF n
\* The new command comes after all others of its stream.
<1>3. ASSUME NEW c \in Bufs, NEW i \in 1 .. Len(cmds[c])
      PROVE  Less(cmds[c][i], <<s, written'[s]>>)
  <2>1. cmds[c][i] \in Streams \X Nat /\ cmds[c][i][2] <= written[cmds[c][i][1]]
    BY <1>3 DEF CommandsInv
  <2>2. PICK u \in Streams, k \in Nat : cmds[c][i] = <<u, k>>
    BY <2>1
  <2>3. k <= written[u]
    BY <2>1, <2>2
  <2>4. u = s => k < written'[s]
    BY <1>1, <2>3 DEF CommandsInv
  <2>5. QED
    BY <2>2, <2>4 DEF Less
<1>4. ASSUME NEW c \in Bufs, NEW i \in 1 .. Len(cmds'[c])
      PROVE  \/ i \in 1 .. Len(cmds[c]) /\ cmds'[c][i] = cmds[c][i]
             \/ c = b /\ i = n + 1 /\ cmds'[c][i] = <<s, written'[s]>>
  <2>1. CASE c # b
    BY <1>1, <2>1
  <2>2. CASE c = b /\ i = n + 1
    BY <1>1, <2>2
  <2>3. CASE c = b /\ i # n + 1
    <3>1. i \in 1 .. n
      BY <1>1, <2>3
    <3>2. QED
      BY <1>1, <2>3, <3>1 DEF n
  <2>4. QED
    BY <2>1, <2>2, <2>3
<1>5. ASSUME NEW c \in Bufs, NEW i \in 1 .. Len(cmds'[c]), NEW j \in 1 .. Len(cmds'[c]), i < j
      PROVE  Less(cmds'[c][i], cmds'[c][j])
  <2>1. i \in 1 .. Len(cmds[c]) /\ cmds'[c][i] = cmds[c][i]
    BY <1>1, <1>4, <1>5
  <2>2. CASE j \in 1 .. Len(cmds[c]) /\ cmds'[c][j] = cmds[c][j]
    BY <1>5, <2>1, <2>2 DEF OrderInv
  <2>3. CASE cmds'[c][j] = <<s, written'[s]>>
    BY <1>3, <2>1, <2>3
  <2>4. QED
    BY <1>4, <2>2, <2>3
<1>6. ASSUME NEW x \in Bufs, NEW y \in Bufs, Ahead(x, y)'
      PROVE  x # b /\ (Ahead(x, y) \/ (y = b /\ cmds[b] = <<>>))
  <2>1. x # b
    BY <1>2, <1>6 DEF Ahead, QueuedBufs, Range
  <2>2. y \in QueuedBufs' <=> y \in QueuedBufs
    BY <1>2 DEF QueuedBufs
  <2>3. x \in QueuedBufs' <=> x \in QueuedBufs
    BY <1>2 DEF QueuedBufs
  <2>4. y \in LatchedBufs' => y \in LatchedBufs \/ (y = b /\ cmds[b] = <<>>)
    BY DEF Grow
  <2>5. QED
    BY <1>2, <1>6, <2>1, <2>2, <2>3, <2>4 DEF Ahead
<1>7. ASSUME NEW x \in Bufs, NEW y \in Bufs, Ahead(x, y)',
             NEW i \in 1 .. Len(cmds'[x]), NEW j \in 1 .. Len(cmds'[y])
      PROVE  Less(cmds'[x][i], cmds'[y][j])
  <2>1. i \in 1 .. Len(cmds[x]) /\ cmds'[x][i] = cmds[x][i]
    BY <1>4, <1>6, <1>7
  <2>2. CASE j \in 1 .. Len(cmds[y]) /\ cmds'[y][j] = cmds[y][j]
    <3>1. cmds[y] # <<>>
      BY <2>2
    <3>2. Ahead(x, y)
      BY <1>6, <1>7, <3>1
    <3>3. QED
      BY <2>1, <2>2, <3>2 DEF OrderInv
  <2>3. CASE cmds'[y][j] = <<s, written'[s]>>
    BY <1>3, <2>1, <2>3
  <2>4. QED
    BY <1>4, <2>2, <2>3
<1>8. ASSUME NEW c \in Bufs, c \in QueuedBufs' \/ c \in LatchedBufs', NEW i \in 1 .. Len(cmds'[c])
      PROVE  ran'[cmds'[c][i][1]] < cmds'[c][i][2]
  <2>1. CASE i \in 1 .. Len(cmds[c]) /\ cmds'[c][i] = cmds[c][i]
    <3>1. cmds[c] # <<>>
      BY <2>1
    <3>2. c \in QueuedBufs \/ c \in LatchedBufs
      BY <1>2, <1>8, <3>1 DEF Grow, QueuedBufs
    <3>3. QED
      BY <1>2, <2>1, <3>2 DEF OrderInv
  <2>2. CASE cmds'[c][i] = <<s, written'[s]>>
    <3>1. ran[s] <= written[s]
      BY DEF CommandsInv
    <3>2. QED
      BY <1>1, <1>2, <2>2, <3>1 DEF CommandsInv
  <2>3. QED
    BY <1>4, <2>1, <2>2
<1>9. running # None => running \in Bufs /\ cmds'[running] = cmds[running]
  BY <1>1, <1>2 DEF PlacesInv
<1>10. rpc = "retired" => running # None
  BY DEF PlacesInv
<1>11. QED
  BY <1>2, <1>5, <1>7, <1>8, <1>9, <1>10 DEF OrderInv

\* The first of the queue, once it is taken, is ahead of all others.
LEMMA DequeOrder ==
  ASSUME PlacesInv, OrderInv, Deque
  PROVE  OrderInv'
<1> DEFINE q == ordered_cmd_buf_que
           r == ordered_cmd_buf_que'
<1>1. /\ q # <<>> /\ r = Tail(q) /\ running' = Head(q) /\ pos' = 0 /\ rpc' # "retired"
      /\ UNCHANGED <<cmds, ran, buf>>
  BY DEF Deque, stream, history
<1>2. /\ q \in Seq(Bufs) /\ running' = q[1] /\ 1 \in DOMAIN q /\ running' \in Bufs
      /\ DOMAIN r = 1 .. Len(q) - 1 /\ DOMAIN q = 1 .. Len(q) /\ Len(q) \in Nat
      /\ \A i \in DOMAIN r : i + 1 \in DOMAIN q /\ r[i] = q[i + 1]
  BY <1>1 DEF PlacesInv
<1>3. LatchedBufs' = LatchedBufs
  BY <1>1 DEF LatchedBufs
<1>4. running' \in QueuedBufs /\ \A c \in Bufs : c \in QueuedBufs' => c \in QueuedBufs
  BY <1>1, <1>2, TailOf DEF PlacesInv, QueuedBufs
<1>5. ASSUME NEW x \in Bufs, NEW y \in Bufs, Ahead(x, y)' PROVE Ahead(x, y)
  <2>1. CASE x = running' /\ y \in QueuedBufs'
    <3>1. PICK j \in DOMAIN r : y = r[j]
      BY <2>1 DEF QueuedBufs, Range
    <3>2. j + 1 \in DOMAIN q /\ 1 < j + 1 /\ y = q[j + 1] /\ x = q[1]
      BY <1>2, <2>1, <3>1
    <3>3. QED
      BY <1>2, <3>2 DEF Ahead
  <2>2. CASE x = running' /\ y \in LatchedBufs'
    BY <1>3, <1>4, <2>2 DEF Ahead
  <2>3. CASE \E i, j \in DOMAIN r : i < j /\ x = r[i] /\ y = r[j]
    <3>1. PICK i \in DOMAIN r, j \in DOMAIN r : i < j /\ x = r[i] /\ y = r[j]
      BY <2>3
    <3>2. /\ i + 1 \in DOMAIN q /\ j + 1 \in DOMAIN q /\ i + 1 < j + 1
          /\ x = q[i + 1] /\ y = q[j + 1]
      BY <1>2, <3>1
    <3>3. QED
      BY <3>2 DEF Ahead
  <2>4. CASE x \in QueuedBufs' /\ y \in LatchedBufs'
    BY <1>3, <1>4, <2>4 DEF Ahead
  <2>5. QED
    BY <1>5, <2>1, <2>2, <2>3, <2>4 DEF Ahead
<1>6. \A c \in Bufs : c \in QueuedBufs' \cup LatchedBufs' => c \in QueuedBufs \cup LatchedBufs
  BY <1>3, <1>4
<1> HIDE DEF q, r
<1>7. QED
  BY <1>1, <1>2, <1>4, <1>5, <1>6, OrderKept

\* The command that is executed is the next of its stream.
LEMMA ExecuteOrder ==
  ASSUME PlacesInv, CommandsInv, OrderInv, Execute
  PROVE  OrderInv' /\ \A s \in Streams : ran[s] <= ran'[s]
<1> DEFINE q == cmds[running]
<1>1. /\ running \in Bufs /\ Left(running) # <<>> /\ pos' = pos + 1 /\ rpc' # "retired"
      /\ ran' = [ran EXCEPT ![Head(Left(running))[1]] = Head(Left(running))[2]]
      /\ UNCHANGED <<cmds, running, ordered_cmd_buf_que, buf>>
  BY DEF Execute, PlacesInv, buffers, stream
<1>2. /\ pos + 1 \in 1 .. Len(q) /\ pos \in Nat
      /\ Head(Left(running)) = q[pos + 1] /\ q[pos + 1] \in Streams \X Nat
  BY <1>1, LeftOf DEF CommandsInv
<1>3. PICK v \in Streams, k \in Nat : q[pos + 1] = <<v, k>>
  BY <1>2
<1>4. ran' \in [Streams -> Nat] /\ ran'[v] = k /\ \A s \in Streams \ {v} : ran'[s] = ran[s]
  <2>1. Head(Left(running))[1] = v /\ Head(Left(running))[2] = k
    BY <1>2, <1>3
  <2>2. ran' = [ran EXCEPT ![v] = k]
    BY <1>1, <2>1
  <2>3. QED
    BY <2>2 DEF CommandsInv
<1>5. ran[v] < k
  <2>1. ran[q[pos + 1][1]] < q[pos + 1][2]
    BY <1>1, <1>2, StreamsAssumption DEF OrderInv
  <2>2. QED
    BY <1>3, <2>1
<1>6. \A s \in Streams : ran[s] <= ran'[s]
  <2>1. ran \in [Streams -> Nat]
    BY DEF CommandsInv
  <2>2. \A s \in Streams \ {v} : ran[s] <= ran'[s]
    BY <1>4, <2>1
  <2>3. ran[v] <= ran'[v]
    BY <1>4, <1>5, <2>1
  <2>4. QED
    BY <2>2, <2>3
<1>7. QueuedBufs' = QueuedBufs /\ LatchedBufs' = LatchedBufs
  BY <1>1 DEF QueuedBufs, LatchedBufs
<1>8. \A x, y \in Bufs : Ahead(x, y)' => Ahead(x, y)
  BY <1>1, <1>7 DEF Ahead
<1>9. ASSUME NEW c \in Bufs, NEW i \in 1 .. Len(cmds[c]),
             ran[cmds[c][i][1]] < cmds[c][i][2], Less(<<v, k>>, cmds[c][i])
      PROVE  ran'[cmds[c][i][1]] < cmds[c][i][2]
  <2>1. PICK u \in Streams, m \in Nat : cmds[c][i] = <<u, m>>
    <3>1. cmds[c][i] \in Streams \X Nat
      BY DEF CommandsInv
    <3>2. QED
      BY <3>1
  <2>2. CASE u = v
    BY <1>4, <1>9, <2>1, <2>2 DEF Less
  <2>3. CASE u # v
    BY <1>4, <1>9, <2>1, <2>3
  <2>4. QED
    BY <2>2, <2>3
<1>10. ASSUME NEW c \in Bufs, c \in QueuedBufs \/ c \in LatchedBufs, NEW i \in 1 .. Len(cmds[c])
       PROVE  ran'[cmds[c][i][1]] < cmds[c][i][2]
  <2>1. Ahead(running, c)
    BY <1>10 DEF Ahead
  <2>2. Less(<<v, k>>, cmds[c][i])
    BY <1>1, <1>2, <1>3, <2>1 DEF OrderInv
  <2>3. ran[cmds[c][i][1]] < cmds[c][i][2]
    BY <1>10 DEF OrderInv
  <2>4. QED
    BY <1>9, <2>2, <2>3
<1>11. ASSUME NEW i \in pos' + 1 .. Len(q)
       PROVE  ran'[q[i][1]] < q[i][2]
  <2>1. i \in 1 .. Len(q) /\ i \in pos + 1 .. Len(q) /\ pos + 1 < i
    BY <1>1, <1>2
  <2>2. Less(<<v, k>>, q[i])
    BY <1>1, <1>2, <1>3, <2>1 DEF OrderInv
  <2>3. ran[q[i][1]] < q[i][2]
    BY <1>1, <2>1, StreamsAssumption DEF OrderInv
  <2>4. QED
    BY <1>1, <1>9, <2>1, <2>2, <2>3
<1>12. ran'[q[pos'][1]] >= q[pos'][2]
  BY <1>1, <1>3, <1>4
<1>13. OrderInv'
  <2>1. \A b \in Bufs : \A i, j \in 1 .. Len(cmds[b]) : i < j => Less(cmds[b][i], cmds[b][j])
    BY DEF OrderInv
  <2>2. \A b, c \in Bufs : Ahead(b, c)' =>
          \A i \in 1 .. Len(cmds[b]), j \in 1 .. Len(cmds[c]) : Less(cmds[b][i], cmds[c][j])
    BY <1>8 DEF OrderInv
  <2>3. QED
    BY <1>1, <1>7, <1>10, <1>11, <1>12, <2>1, <2>2 DEF OrderInv, Less
<1>14. QED
  BY <1>6, <1>13

\* A buffer that is freed has nothing left to order.
LEMMA FreeOrder ==
  ASSUME PlacesInv, CommandsInv, OrderInv, FreeBuf
  PROVE  OrderInv'
<1>1. /\ running \in Bufs /\ running' = None /\ rpc' = "deque"
      /\ cmds' = [cmds EXCEPT ![running] = <<>>]
      /\ UNCHANGED <<ordered_cmd_buf_que, buf, ran>>
  BY DEF FreeBuf, PlacesInv, stream, history
<1>2. QueuedBufs' = QueuedBufs /\ LatchedBufs' = LatchedBufs
  BY <1>1 DEF QueuedBufs, LatchedBufs
<1>3. \A x, y \in Bufs : Ahead(x, y)' => Ahead(x, y)
  BY <1>1, <1>2, StreamsAssumption DEF Ahead
<1>4. \A c \in Bufs : \A i \in 1 .. Len(cmds'[c]) :
        i \in 1 .. Len(cmds[c]) /\ cmds'[c][i] = cmds[c][i]
  <2>1. cmds'[running] = <<>> /\ Len(cmds'[running]) = 0
    BY <1>1 DEF CommandsInv
  <2>2. \A c \in Bufs \ {running} : cmds'[c] = cmds[c]
    BY <1>1 DEF CommandsInv
  <2>3. ASSUME NEW c \in Bufs, NEW i \in 1 .. Len(cmds'[c])
        PROVE  i \in 1 .. Len(cmds[c]) /\ cmds'[c][i] = cmds[c][i]
    <3>1. c # running
      BY <2>1
    <3>2. QED
      BY <2>2, <3>1
  <2>4. QED
    BY <2>3
<1>5. \A b \in Bufs : \A i, j \in 1 .. Len(cmds'[b]) : i < j => Less(cmds'[b][i], cmds'[b][j])
  BY <1>4 DEF OrderInv
<1>6. \A b, c \in Bufs : Ahead(b, c)' =>
        \A i \in 1 .. Len(cmds'[b]), j \in 1 .. Len(cmds'[c]) : Less(cmds'[b][i], cmds'[c][j])
  BY <1>3, <1>4 DEF OrderInv
<1>7. \A b \in Bufs : b \in QueuedBufs' \/ b \in LatchedBufs' =>
        \A i \in 1 .. Len(cmds'[b]) : ran'[cmds'[b][i][1]] < cmds'[b][i][2]
  BY <1>1, <1>2, <1>4 DEF OrderInv
<1>8. QED
  BY <1>1, <1>5, <1>6, <1>7 DEF OrderInv

\* Every step keeps the commands of a stream in order.
LEMMA NextOrder ==
  ASSUME ControlInv, PlacesInv, CommandsInv, OrderInv, CoreStep
  PROVE  OrderInv'
<1>1. CASE QuietStep
  <2>1. /\ UNCHANGED <<cmds, ran, running, pos, ordered_cmd_buf_que, buf>>
        /\ rpc' = "retired" => rpc = "retired"
    BY <1>1 DEF QuietStep, core, buffers, history
  <2>2. QueuedBufs' = QueuedBufs /\ LatchedBufs' = LatchedBufs
    BY <2>1 DEF QueuedBufs, LatchedBufs
  <2>3. \A x, y \in Bufs : Ahead(x, y)' => Ahead(x, y)
    BY <2>1, <2>2 DEF Ahead
  <2>4. QED
    BY <2>1, <2>2, <2>3, OrderKept
<1>2. ASSUME NEW s \in Streams, SubmitStep(s) PROVE OrderInv'
  BY <1>2, SubmitOrder
<1>3. ASSUME NEW s \in Streams, WriteStep(s) \/ GetBuf(s) PROVE OrderInv'
  BY <1>3, WritesGrow, GrowOrder
<1>4. CASE Deque
  BY <1>4, DequeOrder
<1>5. CASE Execute
  BY <1>5, ExecuteOrder
<1>6. CASE Retire
  <2>1. /\ UNCHANGED <<cmds, ran, running, pos, ordered_cmd_buf_que, buf>>
        /\ Left(running) = <<>> /\ running \in Bufs
    BY <1>6 DEF Retire, PlacesInv, stream, history
  <2>2. pos = Len(cmds[running])
    <3>1. /\ cmds[running] \in Seq(Streams \X Nat) /\ pos \in Nat /\ pos <= Len(cmds[running])
      BY <2>1, StreamsAssumption DEF CommandsInv
    <3>2. CASE pos < Len(cmds[running])
      <4>1. Len(Left(running)) = Len(cmds[running]) - (pos + 1) + 1
        BY <3>1, <3>2 DEF Left
      <4>2. QED
        BY <2>1, <3>1, <3>2, <4>1
    <3>3. QED
      BY <3>1, <3>2
  <2>3. QueuedBufs' = QueuedBufs /\ LatchedBufs' = LatchedBufs
    BY <2>1 DEF QueuedBufs, LatchedBufs
  <2>4. \A x, y \in Bufs : Ahead(x, y)' => Ahead(x, y)
    BY <2>1, <2>3 DEF Ahead
  <2>5. QED
    BY <2>1, <2>2, <2>3, <2>4, OrderKept
<1>7. CASE FreeBuf
  BY <1>7, FreeOrder
<1>8. QED
  BY <1>1, <1>2, <1>3, <1>4, <1>5, <1>6, <1>7 DEF CoreStep

-----------------------------------------------------------------------------
(* The fences: the commands before one are executed, or its buffer is to   *)
(* be executed and ends with the last of them.                             *)

Coming(f) ==
  LET b == f.cmd_buf
  IN  /\ b \in Bufs /\ (b \in SubmittedBufs \/ b \in LatchedBufs)
      /\ f.counter = Inc(retire_counter[b])
      /\ LastOf(cmds[b])[1] = f.stream /\ f.upto <= LastOf(cmds[b])[2]

Held == {f \in Fences : f.upto <= ran[f.stream] \/ Coming(f)}

FencesInv ==
  /\ last_fence \in [Streams -> Held] /\ fence \in [Streams -> Held]
  /\ kept \in Held /\ frame_fences \in [0 .. 1 -> Held] /\ num_frames \in 0 .. 1

\* The invariant of fences types them.
LEMMA FencesTyped == FencesInv => FenceTypes
BY DEF FencesInv, FenceTypes, Held

\* A null fence promises nothing.
LEMMA NullFenceHeld == ASSUME CommandsInv, NEW s \in Streams PROVE NullFence(s) \in Held
<1>1. NullFence(s) \in Fences /\ NullFence(s).upto = 0 /\ NullFence(s).stream = s
  BY NullFenceType DEF NullFence, Fence
<1>2. ran[s] \in Nat
  BY DEF CommandsInv
<1>3. QED
  BY <1>1, <1>2 DEF Held

\* At first all fences are null.
LEMMA InitFences == Init => FencesInv
<1> SUFFICES ASSUME Init PROVE FencesInv
  OBVIOUS
<1>1. \A s \in Streams : NullFence(s) \in Held
  BY InitCommands, NullFenceHeld
<1>2. QED
  BY <1>1, StreamsAssumption DEF Init, FencesInv

\* If a step leaves a buffer that is on its way as it is, or adds to it, and
\* forgets nothing that is executed, a fence on it still holds.
LEMMA HeldKept ==
  ASSUME CommandsInv, CommandsInv',
         \A s \in Streams : ran[s] <= ran'[s],
         \A b \in Bufs : b \in SubmittedBufs \/ b \in LatchedBufs =>
           \/ /\ b \in SubmittedBufs' \/ b \in LatchedBufs'
              /\ retire_counter'[b] = retire_counter[b]
              /\ LastOf(cmds'[b])[1] = LastOf(cmds[b])[1]
              /\ LastOf(cmds'[b])[2] >= LastOf(cmds[b])[2]
           \/ LastOf(cmds[b])[2] <= ran'[LastOf(cmds[b])[1]],
         \A b \in Bufs : b \in SubmittedBufs \/ b \in LatchedBufs =>
           LastOf(cmds[b]) \in Streams \X Nat /\ LastOf(cmds'[b])[2] \in Int
  PROVE  Held \subseteq Held'
<1> SUFFICES ASSUME NEW f \in Fences, f.upto <= ran[f.stream] \/ Coming(f)
             PROVE  f.upto <= ran'[f.stream] \/ Coming(f)'
  BY DEF Held
<1>1. f.upto \in Nat /\ f.stream \in Streams /\ ran[f.stream] \in Nat /\ ran'[f.stream] \in Nat
  BY DEF Fences, CommandsInv
<1>2. CASE f.upto <= ran[f.stream]
  <2>1. ran[f.stream] <= ran'[f.stream]
    BY <1>1
  <2>2. QED
    BY <1>1, <1>2, <2>1
<1>3. CASE Coming(f)
  <2> DEFINE b == f.cmd_buf
  <2>1. /\ b \in Bufs /\ (b \in SubmittedBufs \/ b \in LatchedBufs)
        /\ f.counter = Inc(retire_counter[b])
        /\ LastOf(cmds[b])[1] = f.stream /\ f.upto <= LastOf(cmds[b])[2]
    BY <1>3 DEF Coming
  <2>2. LastOf(cmds[b])[2] \in Nat /\ LastOf(cmds'[b])[2] \in Int
    BY <2>1
  <2>3. CASE LastOf(cmds[b])[2] <= ran'[LastOf(cmds[b])[1]]
    BY <1>1, <2>1, <2>2, <2>3
  <2>4. CASE /\ b \in SubmittedBufs' \/ b \in LatchedBufs'
             /\ retire_counter'[b] = retire_counter[b]
             /\ LastOf(cmds'[b])[1] = LastOf(cmds[b])[1]
             /\ LastOf(cmds'[b])[2] >= LastOf(cmds[b])[2]
    <3>1. f.upto <= LastOf(cmds'[b])[2]
      BY <1>1, <2>1, <2>2, <2>4
    <3>2. f.counter = Inc(retire_counter'[b]) /\ LastOf(cmds'[b])[1] = f.stream
      BY <2>1, <2>4
    <3>3. Coming(f)'
      BY <2>1, <2>4, <3>1, <3>2 DEF Coming, Inc
    <3>4. QED
      BY <3>3
  <2>5. QED
    BY <2>1, <2>3, <2>4
<1>4. QED
  BY <1>2, <1>3

\* A buffer on its way holds a command.
LEMMA LastCommand ==
  ASSUME PlacesInv, CommandsInv, NEW b \in Bufs, b \notin FreeBufs
  PROVE  Len(cmds[b]) \in 1 .. Len(cmds[b]) /\ LastOf(cmds[b]) \in Streams \X Nat
<1>1. cmds[b] \in Seq(Streams \X Nat) /\ cmds[b] # <<>>
  BY DEF CommandsInv
<1>2. QED
  BY <1>1 DEF LastOf

\* A fence that holds before a step holds after it.
LEMMA NextHeld ==
  ASSUME ControlInv, PlacesInv, PlacesInv', CommandsInv, CommandsInv', OrderInv, CoreStep
  PROVE  Held \subseteq Held'
<1> USE StreamsAssumption
<1> USE DEF buffers, counts, frames, stream, thread, render, history
<1>1. \A b \in Bufs : b \in SubmittedBufs \/ b \in LatchedBufs => b \notin FreeBufs
  BY DEF PlacesInv, SubmittedBufs
<1>2. \A b \in Bufs : b \in SubmittedBufs \/ b \in LatchedBufs => LastOf(cmds[b]) \in Streams \X Nat
  BY <1>1, LastCommand
<1>3. ran \in [Streams -> Nat] /\ \A s \in Streams : ran[s] <= ran[s]
  BY DEF CommandsInv
<1>4. \A b \in Bufs : b \in SubmittedBufs \/ b \in LatchedBufs =>
        LastOf(cmds[b])[2] \in Int /\ LastOf(cmds[b])[2] >= LastOf(cmds[b])[2]
  BY <1>2
\* No buffer on its way arrives or changes.
<1>5. ASSUME UNCHANGED <<cmds, retire_counter>>, \A s \in Streams : ran[s] <= ran'[s],
             \A b \in Bufs : b \in SubmittedBufs \/ b \in LatchedBufs =>
               b \in SubmittedBufs' \/ b \in LatchedBufs'
      PROVE  Held \subseteq Held'
  BY <1>2, <1>4, <1>5, HeldKept
<1>6. CASE QuietStep
  <2>1. UNCHANGED <<cmds, retire_counter, ran>> /\ \A s \in Streams : ran[s] <= ran'[s]
    BY <1>3, <1>6 DEF QuietStep, core
  <2>2. SubmittedBufs' = SubmittedBufs /\ LatchedBufs' = LatchedBufs
    BY <1>6 DEF QuietStep, core, SubmittedBufs, QueuedBufs, LatchedBufs
  <2>3. QED
    BY <1>5, <2>1, <2>2
<1>7. ASSUME NEW s \in Streams, SubmitStep(s) PROVE Held \subseteq Held'
  <2> DEFINE b == buf[s]
  <2>1. /\ b \in Bufs /\ buf' = [buf EXCEPT ![s] = None]
        /\ ordered_cmd_buf_que' = Append(ordered_cmd_buf_que, b)
        /\ UNCHANGED <<cmds, retire_counter, ran, rpc, running>>
    BY <1>7 DEF SubmitStep, Submit, Unlatched, Linked, ControlInv
  <2>2. Range(ordered_cmd_buf_que') = Range(ordered_cmd_buf_que) \cup {b}
    BY <2>1, AppendOf DEF PlacesInv
  <2>3. \A c \in Bufs : c \in LatchedBufs => c \in LatchedBufs' \/ c = b
    BY <2>1 DEF ControlInv, LatchedBufs
  <2> HIDE DEF b
  <2>4. \A c \in Bufs : c \in SubmittedBufs \/ c = b => c \in SubmittedBufs'
    BY <2>1, <2>2 DEF SubmittedBufs, QueuedBufs
  <2>5. \A u \in Streams : ran[u] <= ran'[u]
    BY <1>3, <2>1
  <2>6. QED
    BY <1>5, <2>1, <2>3, <2>4, <2>5
<1>8. ASSUME NEW s \in Streams, WriteStep(s) \/ GetBuf(s) PROVE Held \subseteq Held'
  <2>1. PICK b \in Bufs : Grow(s, b)
    BY <1>8, WritesGrow
  <2>2. /\ written' \in [Streams -> Nat] /\ written'[s] = written[s] + 1
        /\ \A c \in Bufs \ {b} : cmds'[c] = cmds[c]
        /\ Len(cmds[b]) \in Nat /\ Len(cmds'[b]) = Len(cmds[b]) + 1
        /\ cmds'[b][Len(cmds[b]) + 1] = <<s, written'[s]>>
    BY <2>1, Grown
  <2>3. LastOf(cmds'[b]) = <<s, written'[s]>>
    BY <2>2 DEF LastOf
  <2>4. SubmittedBufs' = SubmittedBufs /\ UNCHANGED <<retire_counter, ran>>
    BY <2>1 DEF Grow, SubmittedBufs, QueuedBufs
  <2>5. \A c \in Bufs : c \in LatchedBufs => c \in LatchedBufs'
    BY <2>1 DEF Grow
  <2>6. b \in SubmittedBufs \/ b \in LatchedBufs =>
          LastOf(cmds[b])[1] = s /\ LastOf(cmds[b])[2] <= written[s]
    <3>1. ASSUME b \in SubmittedBufs \/ b \in LatchedBufs
          PROVE  LastOf(cmds[b])[1] = s /\ LastOf(cmds[b])[2] <= written[s]
      <4>1. Len(cmds[b]) \in 1 .. Len(cmds[b])
        BY <1>1, <3>1, LastCommand
      <4>2. LastOf(cmds[b])[1] = s
        BY <2>1, <4>1 DEF Grow, LastOf
      <4>3. LastOf(cmds[b])[2] <= written[LastOf(cmds[b])[1]]
        BY <4>1 DEF CommandsInv, LastOf
      <4>4. QED
        BY <4>2, <4>3
    <3>2. QED
      BY <3>1
  <2>7. ASSUME NEW c \in Bufs, c \in SubmittedBufs \/ c \in LatchedBufs
        PROVE  /\ c \in SubmittedBufs' \/ c \in LatchedBufs'
               /\ LastOf(cmds'[c])[2] \in Int
               /\ LastOf(cmds'[c])[1] = LastOf(cmds[c])[1]
               /\ LastOf(cmds'[c])[2] >= LastOf(cmds[c])[2]
    <3>1. CASE c = b
      <4>1. LastOf(cmds'[c])[1] = s /\ LastOf(cmds'[c])[2] = written[s] + 1
        BY <2>2, <2>3, <3>1
      <4>2. LastOf(cmds[c])[1] = s /\ LastOf(cmds[c])[2] <= written[s] /\ LastOf(cmds[c])[2] \in Int
        BY <1>4, <2>6, <2>7, <3>1
      <4>3. written[s] \in Nat
        BY DEF CommandsInv
      <4>4. QED
        BY <2>4, <2>5, <2>7, <4>1, <4>2, <4>3
    <3>2. CASE c # b
      BY <1>4, <2>2, <2>4, <2>5, <2>7, <3>2
    <3>3. QED
      BY <3>1, <3>2
  <2>8. \A u \in Streams : ran[u] <= ran'[u]
    BY <1>3, <2>4
  <2>9. QED
    BY <1>2, <2>4, <2>7, <2>8, HeldKept
<1>9. CASE Deque
  <2>1. /\ ordered_cmd_buf_que # <<>> /\ ordered_cmd_buf_que' = Tail(ordered_cmd_buf_que)
        /\ rpc = "deque" /\ rpc' = "execute" /\ running' = Head(ordered_cmd_buf_que)
        /\ UNCHANGED <<cmds, retire_counter, ran, buf>>
    BY <1>9 DEF Deque
  <2>2. Range(ordered_cmd_buf_que) = {Head(ordered_cmd_buf_que)} \cup Range(ordered_cmd_buf_que')
    BY <2>1, TailOf DEF PlacesInv
  <2>3. \A b \in Bufs : b \in SubmittedBufs => b \in SubmittedBufs'
    BY <2>1, <2>2 DEF SubmittedBufs, QueuedBufs
  <2>4. LatchedBufs' = LatchedBufs
    BY <2>1 DEF LatchedBufs
  <2>5. \A u \in Streams : ran[u] <= ran'[u]
    BY <1>3, <2>1
  <2>6. QED
    BY <1>5, <2>1, <2>3, <2>4, <2>5
<1>10. CASE Execute
  <2>1. \A s \in Streams : ran[s] <= ran'[s]
    BY <1>10, ExecuteOrder
  <2>2. /\ UNCHANGED <<cmds, retire_counter>>
        /\ SubmittedBufs' = SubmittedBufs /\ LatchedBufs' = LatchedBufs
    BY <1>10 DEF Execute, SubmittedBufs, QueuedBufs, LatchedBufs
  <2>3. QED
    BY <1>5, <2>1, <2>2
<1>11. CASE Retire
  <2>1. /\ running \in Bufs /\ rpc' = "retired"
        /\ retire_counter' = [retire_counter EXCEPT ![running] = Inc(retire_counter[running])]
        /\ UNCHANGED <<cmds, ran, running, pos, ordered_cmd_buf_que, buf>>
    BY <1>11 DEF Retire, PlacesInv
  <2>2. \A s \in Streams : ran[s] <= ran'[s]
    BY <1>3, <2>1
  <2>3. LatchedBufs' = LatchedBufs /\ SubmittedBufs \ {running} \subseteq SubmittedBufs'
    BY <2>1 DEF SubmittedBufs, QueuedBufs, LatchedBufs
  <2>4. running \notin LatchedBufs
    BY <2>1 DEF PlacesInv
  <2>5. \A b \in Bufs \ {running} : retire_counter'[b] = retire_counter[b]
    BY <2>1
\* All commands of the buffer are executed.
  <2>6. LastOf(cmds[running])[2] <= ran'[LastOf(cmds[running])[1]]
    <3>1. running \notin FreeBufs
      BY <2>1 DEF PlacesInv
    <3>2. Len(cmds[running]) \in 1 .. Len(cmds[running]) /\ LastOf(cmds[running]) \in Streams \X Nat
      BY <2>1, <3>1, LastCommand
    <3>3. pos = Len(cmds[running])
      <4>1. OrderInv'
        BY <1>11, NextOrder DEF CoreStep
      <4>2. QED
        BY <2>1, <4>1 DEF OrderInv
    <3>4. ran[cmds[running][pos][1]] >= cmds[running][pos][2]
      BY <2>1, <3>2, <3>3 DEF OrderInv
    <3>5. PICK u \in Streams, k \in Nat : LastOf(cmds[running]) = <<u, k>>
      BY <3>2
    <3>6. ran[u] >= k
      BY <3>3, <3>4, <3>5 DEF LastOf
    <3>7. ran[u] \in Nat /\ ran'[u] = ran[u]
      BY <1>3, <2>1
    <3>8. k <= ran'[u]
      BY <3>6, <3>7
    <3>9. QED
      BY <3>5, <3>8
  <2>7. QED
    BY <1>2, <1>4, <2>1, <2>2, <2>3, <2>4, <2>5, <2>6, HeldKept
<1>12. CASE FreeBuf
  <2>1. /\ running \in Bufs /\ running' = None /\ rpc = "retired" /\ rpc' = "deque"
        /\ cmds' = [cmds EXCEPT ![running] = <<>>]
        /\ UNCHANGED <<retire_counter, ran, ordered_cmd_buf_que, buf>>
    BY <1>12 DEF FreeBuf, PlacesInv
  <2>2. SubmittedBufs' = SubmittedBufs /\ LatchedBufs' = LatchedBufs
    BY <2>1 DEF SubmittedBufs, QueuedBufs, LatchedBufs
  <2>3. \A b \in Bufs : b \in SubmittedBufs \/ b \in LatchedBufs => b # running
    BY <2>1 DEF SubmittedBufs, PlacesInv
  <2>4. \A b \in Bufs \ {running} : cmds'[b] = cmds[b]
    BY <2>1 DEF CommandsInv
  <2>5. \A s \in Streams : ran[s] <= ran'[s]
    BY <1>3, <2>1
  <2>6. QED
    BY <1>2, <1>4, <2>1, <2>2, <2>3, <2>4, <2>5, HeldKept
<1>13. QED
  BY <1>6, <1>7, <1>8, <1>9, <1>10, <1>11, <1>12 DEF CoreStep

\* Every fence after a step held before it, or is that of the buffer just submitted.
LEMMA NextFences ==
  ASSUME ControlInv, PlacesInv, PlacesInv', CounterInv, CommandsInv, CommandsInv', OrderInv,
         FencesInv, CoreStep
  PROVE  FencesInv'
<1> USE StreamsAssumption
<1> USE DEF buffers, counts, frames, stream, thread, render, history
<1>1. Held \subseteq Held'
  BY NextHeld
<1>2. /\ last_fence \in [Streams -> Held'] /\ fence \in [Streams -> Held']
      /\ kept \in Held' /\ frame_fences \in [0 .. 1 -> Held'] /\ num_frames \in 0 .. 1
  BY <1>1 DEF FencesInv
<1>3. CASE UNCHANGED <<last_fence, fence, kept, frame_fences, num_frames>>
  BY <1>2, <1>3 DEF FencesInv
<1>4. CASE QuietStep
  <2>1. \A s \in Streams : NullFence(s) \in Held'
    BY <1>1, NullFenceHeld
  <2>2. \A s \in Streams : fence'[s] \in Held'
    BY <1>2, <1>4, <2>1 DEF QuietStep
  <2>3. \A i \in 0 .. 1 : frame_fences'[i] \in Held'
    BY <1>2, <1>4 DEF QuietStep
  <2>4. fence' \in [Streams -> Held'] /\ frame_fences' \in [0 .. 1 -> Held']
    BY <1>4, <2>2, <2>3 DEF QuietStep
  <2>5. QED
    BY <1>2, <1>4, <2>4 DEF QuietStep, FencesInv
\* Until its buffer is submitted, the counter of a new fence is the next one.
<1>5. ASSUME NEW s \in Streams, NEW b \in Bufs, b \notin SubmittedBufs,
             retire_counter' = retire_counter, b \in SubmittedBufs' \/ b \in LatchedBufs',
             LastOf(cmds'[b]) = <<s, written'[s]>>
      PROVE  Fence(s, b, Inc(submit_counter[b]), written'[s]) \in Held'
  <2> DEFINE f == Fence(s, b, Inc(submit_counter[b]), written'[s])
  <2>1. submit_counter[b] = retire_counter[b] /\ Inc(submit_counter[b]) \in Counters
    BY <1>5, IncType DEF CounterInv
  <2>2. /\ f.stream = s /\ f.cmd_buf = b /\ f.counter = Inc(submit_counter[b])
        /\ f.upto = written'[s] /\ written'[s] \in Nat
    BY DEF Fence, CommandsInv
  <2>3. f \in Fences
    BY <2>1, <2>2 DEF Fence, Fences
  <2>4. f.upto <= LastOf(cmds'[b])[2] /\ LastOf(cmds'[b])[1] = f.stream
    BY <1>5, <2>2
  <2>5. f.counter = Inc(retire_counter'[b])
    BY <1>5, <2>1, <2>2
  <2> HIDE DEF f
  <2>6. /\ f.cmd_buf \in Bufs /\ (f.cmd_buf \in SubmittedBufs' \/ f.cmd_buf \in LatchedBufs')
        /\ f.counter = Inc(retire_counter'[f.cmd_buf])
        /\ LastOf(cmds'[f.cmd_buf])[1] = f.stream /\ f.upto <= LastOf(cmds'[f.cmd_buf])[2]
    BY <1>5, <2>2, <2>4, <2>5
  <2>7. f \in Held'
    BY <2>3, <2>6 DEF Held, Coming, Inc
  <2>8. QED
    BY <2>7 DEF f
<1>6. ASSUME NEW s \in Streams, SubmitStep(s) PROVE FencesInv'
  <2> DEFINE b == buf[s]
             f == Fence(s, b, Inc(submit_counter[b]), written[s])
  <2>1. /\ b \in Bufs /\ b # None
        /\ ordered_cmd_buf_que' = Append(ordered_cmd_buf_que, b)
        /\ last_fence' = [last_fence EXCEPT ![s] = f]
        /\ UNCHANGED <<cmds, retire_counter, written, rpc, running, kept, frame_fences, num_frames>>
    BY <1>6 DEF SubmitStep, Submit, Linked, ControlInv
  <2>2. b \notin SubmittedBufs
    BY <2>1 DEF PlacesInv, SubmittedBufs, LatchedBufs
  <2>3. LastOf(cmds[b]) = <<s, written[s]>>
    BY <2>1 DEF CommandsInv
  <2>4. b \in SubmittedBufs'
    <3>1. b \in QueuedBufs'
      BY <2>1, AppendOf DEF PlacesInv, QueuedBufs
    <3>2. QED
      BY <2>1, <3>1 DEF SubmittedBufs
  <2>5. f \in Held'
    BY <1>5, <2>1, <2>2, <2>3, <2>4
  <2>6. fence' = [fence EXCEPT ![s] = f] \/ fence' = fence
    <3>1. fence \in [Streams -> Held]
      BY DEF FencesInv
    <3>2. last_fence'[s] = f
      BY <2>1 DEF FencesInv
    <3>3. PICK place \in {"idle", "get", "test", "frame", "flush"} :
            fence' = [fence EXCEPT ![s] = IF place \in {"test", "frame"} THEN last_fence'[s] ELSE @]
      BY <1>6 DEF SubmitStep, Submit
    <3>4. QED
      BY <3>1, <3>2, <3>3
  <2> HIDE DEF f
  <2>7. last_fence' \in [Streams -> Held'] /\ fence' \in [Streams -> Held']
    BY <1>2, <2>1, <2>5, <2>6
  <2>8. QED
    BY <1>2, <2>1, <2>7 DEF FencesInv
<1>7. ASSUME NEW s \in Streams, WriteStep(s) \/ GetBuf(s) PROVE FencesInv'
  <2>1. PICK b \in Bufs :
          /\ Grow(s, b)
          /\ UNCHANGED kept \/ kept' = Fence(s, b, Inc(submit_counter[b]), written'[s])
    BY <1>7, WritesGrow
  <2>2. /\ Len(cmds[b]) \in Nat /\ Len(cmds'[b]) = Len(cmds[b]) + 1
        /\ cmds'[b][Len(cmds[b]) + 1] = <<s, written'[s]>>
    BY <2>1, Grown
  <2>3. LastOf(cmds'[b]) = <<s, written'[s]>>
    BY <2>2 DEF LastOf
  <2>4. b \notin SubmittedBufs /\ retire_counter' = retire_counter /\ b \in LatchedBufs'
    BY <2>1 DEF Grow, SubmittedBufs
  <2>5. Fence(s, b, Inc(submit_counter[b]), written'[s]) \in Held'
    BY <1>5, <2>3, <2>4
  <2>6. UNCHANGED <<last_fence, fence, frame_fences, num_frames>> /\ kept' \in Held'
    BY <1>2, <2>1, <2>5 DEF Grow
  <2>7. QED
    BY <1>2, <2>6 DEF FencesInv
<1>8. CASE Deque \/ Execute \/ Retire \/ FreeBuf
  BY <1>3, <1>8 DEF Deque, Execute, Retire, FreeBuf
<1>9. QED
  BY <1>4, <1>6, <1>7, <1>8 DEF CoreStep

-----------------------------------------------------------------------------
(* The invariant of the buffers and the fences. *)

IInv == ControlInv /\ PlacesInv /\ CounterInv /\ CommandsInv /\ OrderInv /\ FencesInv

\* The invariant holds at first.
LEMMA InitIInv == Init => IInv
BY InitControl, InitPlaces, InitCounter, InitCommands, InitFences DEF IInv

\* Every step keeps the invariant.
LEMMA NextIInv == IInv /\ [Next]_vars => IInv'
<1> SUFFICES ASSUME IInv, [Next]_vars PROVE IInv'
  OBVIOUS
<1>1. CoreStep
  BY FencesTyped, NextIsCoreStep DEF IInv
<1>2. ControlInv'
  BY NextControl DEF IInv, PlacesInv
<1>3. PlacesInv' /\ CounterInv' /\ CommandsInv' /\ OrderInv'
  BY <1>1, NextPlaces, NextCounter, NextCommands, NextOrder DEF IInv
<1>4. FencesInv'
  BY <1>1, <1>3, NextFences DEF IInv
<1>5. QED
  BY <1>2, <1>3, <1>4 DEF IInv

\* The invariant holds at all times.
LEMMA SpecIInv == Spec => []IInv
<1>1. Spec => Init /\ [][Next]_vars
  BY DEF Spec
<1>2. QED
  BY <1>1, InitIInv, NextIInv, PTL

\* Where the buffers are implies that none is lost or shared.
LEMMA ConservedFromIInv == IInv => CmdBufsConserved
<1> SUFFICES ASSUME IInv PROVE CmdBufsConserved
  OBVIOUS
<1> USE StreamsAssumption
<1>1. ControlInv /\ PlacesInv
  BY DEF IInv
<1> DEFINE latched == Range(buf) \ {None}
           places == <<Range(free_cmd_buf_chain), latched, Range(UnderWay)>>
<1>2. IsInjective(UnderWay) /\ Range(UnderWay) = QueuedBufs \cup ({running} \ {None})
  <2>1. CASE running = None
    <3>1. UnderWay = ordered_cmd_buf_que
      BY <1>1, <2>1 DEF UnderWay, PlacesInv
    <3>2. QED
      BY <1>1, <2>1, <3>1 DEF PlacesInv, QueuedBufs
  <2>2. CASE running # None
    <3>1. UnderWay = <<running>> \o ordered_cmd_buf_que /\ running \in Bufs
      BY <1>1, <2>2 DEF UnderWay, PlacesInv
    <3>2. running \notin Range(ordered_cmd_buf_que)
      BY <1>1, <3>1 DEF PlacesInv, QueuedBufs
    <3>3. QED
      BY <1>1, <2>2, <3>1, <3>2, PrependOf DEF PlacesInv, QueuedBufs
  <2>3. QED
    BY <2>1, <2>2
<1>3. latched = LatchedBufs
  BY <1>1 DEF ControlInv, LatchedBufs, Range
<1>4. /\ FreeBufs \subseteq Bufs /\ QueuedBufs \subseteq Bufs
      /\ FreeBufs = Range(free_cmd_buf_chain) /\ LatchedBufs \subseteq Bufs
  BY <1>1 DEF PlacesInv, FreeBufs, QueuedBufs, LatchedBufs, Range
<1> HIDE DEF latched
<1>5. /\ FreeBufs \cup LatchedBufs \cup QueuedBufs \cup ({running} \ {None}) = Bufs
      /\ FreeBufs \cap LatchedBufs = {}
      /\ FreeBufs \cap (QueuedBufs \cup ({running} \ {None})) = {}
      /\ LatchedBufs \cap (QueuedBufs \cup ({running} \ {None})) = {}
  BY <1>1, <1>4 DEF PlacesInv
<1>6. DOMAIN places = 1 .. 3 /\ places[1] = FreeBufs /\ places[2] = LatchedBufs
      /\ places[3] = QueuedBufs \cup ({running} \ {None})
  BY <1>2, <1>3, <1>4
<1> HIDE DEF places
<1>7. Range(places) = {places[1], places[2], places[3]}
  BY <1>6 DEF Range
<1>8. UNION Range(places) = Bufs
  BY <1>5, <1>6, <1>7
<1>9. \A i, j \in DOMAIN places : i # j => places[i] \cap places[j] = {}
  BY <1>5, <1>6
<1>10. QED
  BY <1>1, <1>2, <1>8, <1>9
     DEF CmdBufsConserved, ControlInv, PlacesInv, Places, latched, places

\* A buffer that is submitted is behind its fence, whatever the counter is.
LEMMA NotYetPassed ==
  ASSUME NEW r \in Counters
  PROVE  wrap_is_less(r, Inc(r))
<1> DEFINE R == Range32
<1>1. Half \in Nat \ {0} /\ R = 2 * Half /\ R \in Nat \ {0}
  BY SizesAssumption DEF Range32
<1> HIDE DEF R
<1>2. CASE r = R - 1
  <2>1. Inc(r) = 0
    BY <1>1, <1>2 DEF Inc, R
  <2>2. (r - Inc(r)) % R = R - 1
    BY <1>1, <1>2, <2>1
  <2>3. QED
    BY <1>1, <2>2 DEF wrap_is_less, R
<1>3. CASE r # R - 1
  <2>1. r + 1 \in 0 .. R - 1 /\ r \in Nat
    BY <1>1, <1>3 DEF Counters, R
  <2>2. Inc(r) = r + 1
    BY <1>1, <2>1 DEF Inc, R
  <2>3. r - Inc(r) = -1
    BY <2>1, <2>2
  <2>4. (-1) % R = R - 1
    BY <1>1
  <2>5. QED
    BY <1>1, <2>3, <2>4 DEF wrap_is_less, R
<1>4. QED
  BY <1>2, <1>3

\* The fences of the invariant promise what they should.
LEMMA ExecutedFromIInv == IInv => FenceMeansExecuted
<1> SUFFICES ASSUME IInv PROVE FenceMeansExecuted
  OBVIOUS
<1>1. ASSUME NEW f \in Held, Passed(f) PROVE ran[f.stream] >= f.upto
  <2>1. ~Coming(f)
    <3>1. SUFFICES ASSUME Coming(f) PROVE FALSE
      OBVIOUS
    <3>2. f.cmd_buf \in Bufs /\ f.cmd_buf # None /\ f.counter = Inc(retire_counter[f.cmd_buf])
      BY <3>1, StreamsAssumption DEF Coming
    <3>3. retire_counter[f.cmd_buf] \in Counters
      BY <3>2 DEF IInv, CounterInv
    <3>4. wrap_is_less(retire_counter[f.cmd_buf], f.counter)
      BY <3>2, <3>3, NotYetPassed
    <3>5. QED
      BY <1>1, <3>2, <3>4 DEF Passed
  <2>2. f.upto \in Nat /\ ran[f.stream] \in Nat
    BY DEF Held, Fences, IInv, CommandsInv
  <2>3. QED
    BY <2>1, <2>2 DEF Held
<1>2. ASSUME NEW f \in UNION {Range(last_fence), {kept}, Range(fence), Range(frame_fences)}
      PROVE  f \in Held
  <2>1. f \in Range(last_fence) \/ f = kept \/ f \in Range(fence) \/ f \in Range(frame_fences)
    BY <1>2
  <2>2. QED
    BY <2>1 DEF IInv, FencesInv, Range
<1>3. QED
  BY <1>1, <1>2 DEF FenceMeansExecuted

-----------------------------------------------------------------------------
(* No command is lost: each that a stream wrote and that is not executed   *)
(* is in one of the buffers on their way to be.                            *)

\* The buffers stream s may have commands in.
Reached(s) == {b \in Bufs : b \in QueuedBufs \/ b = running \/ b = buf[s]}

CompleteInv ==
  \A s \in Streams : \A k \in Nat : ran[s] < k /\ k <= written[s] =>
    \E b \in Reached(s) : \E i \in 1 .. Len(cmds[b]) :
      cmds[b][i] = <<s, k>> /\ (b = running => i > pos)

\* A step that writes and executes nothing, and takes no buffer from its stream
\* before it is queued, nor from the queue before it is executed.
LEMMA CompleteKept ==
  ASSUME CompleteInv, UNCHANGED <<cmds, ran, written>>,
         \A s \in Streams : Reached(s) \subseteq Reached(s)',
         \A b \in Bufs : b = running' => (b = running /\ pos' = pos) \/ pos' = 0
  PROVE  CompleteInv'
<1> SUFFICES ASSUME NEW s \in Streams, NEW k \in Nat, ran'[s] < k, k <= written'[s]
             PROVE  \E b \in Reached(s)' : \E i \in 1 .. Len(cmds'[b]) :
                      cmds'[b][i] = <<s, k>> /\ (b = running' => i > pos')
  BY DEF CompleteInv
<1>1. PICK b \in Reached(s) : \E i \in 1 .. Len(cmds[b]) :
        cmds[b][i] = <<s, k>> /\ (b = running => i > pos)
  BY DEF CompleteInv
<1>1a. PICK i \in 1 .. Len(cmds[b]) : cmds[b][i] = <<s, k>> /\ (b = running => i > pos)
  BY <1>1
<1>2. b \in Bufs /\ b \in Reached(s)'
  BY <1>1, <1>1a DEF Reached
<1>3. b = running' => i > pos'
  BY <1>1, <1>1a, <1>2
<1>4. QED
  BY <1>1, <1>1a, <1>2, <1>3

\* Every step leaves each such command in a buffer.
LEMMA NextComplete ==
  ASSUME ControlInv, PlacesInv, CommandsInv, OrderInv, CompleteInv, CoreStep
  PROVE  CompleteInv'
<1> USE StreamsAssumption
<1> USE DEF buffers, counts, frames, stream, thread, render, history
<1>1. CASE QuietStep \/ Retire
  <2>1. UNCHANGED <<cmds, ran, written, ordered_cmd_buf_que, running, pos, buf>>
    BY <1>1 DEF QuietStep, core, Retire
  <2>2. \A s \in Streams : Reached(s)' = Reached(s)
    BY <2>1 DEF Reached, QueuedBufs
  <2>3. QED
    BY <2>1, <2>2, CompleteKept
<1>2. ASSUME NEW s \in Streams, SubmitStep(s) PROVE CompleteInv'
  <2>1. /\ buf[s] \in Bufs /\ buf' = [buf EXCEPT ![s] = None]
        /\ ordered_cmd_buf_que' = Append(ordered_cmd_buf_que, buf[s])
        /\ UNCHANGED <<cmds, ran, written, running, pos>>
    BY <1>2 DEF SubmitStep, Submit, Unlatched, Linked, ControlInv
  <2>2. Range(ordered_cmd_buf_que') = Range(ordered_cmd_buf_que) \cup {buf[s]}
    BY <2>1, AppendOf DEF PlacesInv
  <2>3. \A t \in Streams : Reached(t) \subseteq Reached(t)'
    BY <2>1, <2>2 DEF Reached, QueuedBufs, ControlInv
  <2>4. QED
    BY <2>1, <2>3, CompleteKept
<1>3. ASSUME NEW s \in Streams, WriteStep(s) \/ GetBuf(s) PROVE CompleteInv'
  <2>1. PICK b \in Bufs : Grow(s, b)
    BY <1>3, WritesGrow
  <2>2. buf[s] \in {None, b}
    <3>1. CASE WriteStep(s)
      BY <2>1, <3>1 DEF WriteStep, Grow
    <3>2. CASE GetBuf(s)
      BY <3>2 DEF GetBuf, ControlInv
    <3>3. QED
      BY <1>3, <3>1, <3>2
  <2>3. /\ buf'[s] = b /\ b # running /\ \A u \in Streams \ {s} : buf'[u] = buf[u]
        /\ UNCHANGED <<ordered_cmd_buf_que, running, pos, ran>>
        /\ written' = [written EXCEPT ![s] = written[s] + 1]
    BY <2>1 DEF Grow
  <2>4. /\ \A c \in Bufs \ {b} : cmds'[c] = cmds[c]
        /\ Len(cmds[b]) \in Nat /\ Len(cmds'[b]) = Len(cmds[b]) + 1
        /\ cmds'[b][Len(cmds[b]) + 1] = <<s, written'[s]>> /\ written'[s] = written[s] + 1
        /\ \A i \in 1 .. Len(cmds[b]) : cmds'[b][i] = cmds[b][i]
    BY <2>1, Grown
  <2>5. \A u \in Streams : Reached(u) \subseteq Reached(u)'
    BY <2>2, <2>3 DEF Reached, QueuedBufs
  <2>6. SUFFICES ASSUME NEW u \in Streams, NEW k \in Nat, ran'[u] < k, k <= written'[u]
                 PROVE  \E c \in Reached(u)' : \E i \in 1 .. Len(cmds'[c]) :
                          cmds'[c][i] = <<u, k>> /\ (c = running' => i > pos')
    BY DEF CompleteInv
  <2>7. CASE k <= written[u]
    <3>1. PICK c \in Reached(u) : \E i \in 1 .. Len(cmds[c]) :
            cmds[c][i] = <<u, k>> /\ (c = running => i > pos)
      BY <2>3, <2>6, <2>7 DEF CompleteInv
    <3>1a. PICK i \in 1 .. Len(cmds[c]) : cmds[c][i] = <<u, k>> /\ (c = running => i > pos)
      BY <3>1
    <3>2. c \in Bufs /\ c \in Reached(u)'
      BY <2>5, <3>1, <3>1a DEF Reached
    <3>3. i \in 1 .. Len(cmds'[c]) /\ cmds'[c][i] = cmds[c][i]
      <4>1. CASE c = b
        BY <2>4, <4>1
      <4>2. CASE c # b
        BY <2>4, <3>2, <4>2
      <4>3. QED
        BY <4>1, <4>2
    <3>4. QED
      BY <2>3, <3>1, <3>1a, <3>2, <3>3
  <2>8. CASE ~(k <= written[u])
    <3>1. u = s /\ k = written'[s]
      <4>1. written \in [Streams -> Nat]
        BY DEF CommandsInv
      <4>2. u = s
        BY <2>3, <2>6, <2>8, <4>1
      <4>3. written[s] \in Nat /\ k <= written[s] + 1 /\ ~(k <= written[s])
        BY <2>4, <2>6, <2>8, <4>1, <4>2
      <4>4. QED
        BY <2>4, <4>2, <4>3
    <3>2. b \in Reached(s)' /\ Len(cmds[b]) + 1 \in 1 .. Len(cmds'[b])
      BY <2>3, <2>4 DEF Reached
    <3>3. QED
      BY <2>3, <2>4, <3>1, <3>2
  <2>9. QED
    BY <2>7, <2>8
<1>4. CASE Deque
  <2>1. /\ ordered_cmd_buf_que # <<>> /\ running' = Head(ordered_cmd_buf_que)
        /\ ordered_cmd_buf_que' = Tail(ordered_cmd_buf_que) /\ pos' = 0 /\ running = None
        /\ UNCHANGED <<cmds, ran, written, buf>>
    BY <1>4 DEF Deque, PlacesInv
  <2>2. Range(ordered_cmd_buf_que) = {running'} \cup Range(ordered_cmd_buf_que')
    BY <2>1, TailOf DEF PlacesInv
  <2>3. \A s \in Streams : Reached(s) \subseteq Reached(s)'
    BY <2>1, <2>2 DEF Reached, QueuedBufs
  <2>4. QED
    BY <2>1, <2>3, CompleteKept
<1>5. CASE Execute
  <2>1. /\ running \in Bufs /\ Left(running) # <<>> /\ pos' = pos + 1
        /\ ran' = [ran EXCEPT ![Head(Left(running))[1]] = Head(Left(running))[2]]
        /\ UNCHANGED <<cmds, running, ordered_cmd_buf_que, buf, written>>
    BY <1>5 DEF Execute, PlacesInv
  <2>2. /\ pos + 1 \in 1 .. Len(cmds[running]) /\ pos \in Nat
        /\ Head(Left(running)) = cmds[running][pos + 1]
        /\ cmds[running][pos + 1] \in Streams \X Nat
    BY <2>1, LeftOf DEF CommandsInv
  <2>3. PICK v \in Streams, n \in Nat : cmds[running][pos + 1] = <<v, n>>
    BY <2>2
  <2>4. ran'[v] = n
    BY <2>1, <2>2, <2>3 DEF CommandsInv
  <2>5. \A s \in Streams : ran[s] \in Nat /\ ran'[s] \in Nat /\ ran[s] <= ran'[s]
    <3>1. ran' \in [Streams -> Nat]
      BY <2>1, <2>2, <2>3 DEF CommandsInv
    <3>2. QED
      BY <1>5, <3>1, ExecuteOrder DEF CommandsInv
  <2>6. SUFFICES ASSUME NEW u \in Streams, NEW k \in Nat, ran'[u] < k, k <= written'[u]
                 PROVE  \E c \in Reached(u)' : \E i \in 1 .. Len(cmds'[c]) :
                          cmds'[c][i] = <<u, k>> /\ (c = running' => i > pos')
    BY DEF CompleteInv
  <2>7. ran[u] < k /\ k <= written[u]
    BY <2>1, <2>5, <2>6
  <2>8. PICK c \in Reached(u) : \E i \in 1 .. Len(cmds[c]) :
          cmds[c][i] = <<u, k>> /\ (c = running => i > pos)
    BY <2>7 DEF CompleteInv
  <2>8a. PICK i \in 1 .. Len(cmds[c]) : cmds[c][i] = <<u, k>> /\ (c = running => i > pos)
    BY <2>8
  <2>9. c \in Reached(u)'
    BY <2>1, <2>8, <2>8a DEF Reached, QueuedBufs
  <2>10. ASSUME c = running PROVE i > pos'
    <3>1. i # pos + 1
      <4>1. ASSUME i = pos + 1 PROVE FALSE
        <5>1. <<u, k>> = <<v, n>>
          BY <2>3, <2>8, <2>8a, <2>10, <4>1
        <5>2. QED
          BY <2>4, <2>6, <5>1
      <4>2. QED
        BY <4>1
    <3>2. QED
      BY <2>1, <2>2, <2>8, <2>8a, <2>10, <3>1
  <2>11. QED
    BY <2>1, <2>8, <2>8a, <2>9, <2>10
<1>6. CASE FreeBuf
  <2>1. /\ running \in Bufs /\ running' = None /\ rpc = "retired"
        /\ cmds' = [cmds EXCEPT ![running] = <<>>]
        /\ UNCHANGED <<ordered_cmd_buf_que, buf, ran, written>>
    BY <1>6 DEF FreeBuf, PlacesInv
  <2>2. pos = Len(cmds[running])
    BY <2>1 DEF OrderInv
  <2>3. SUFFICES ASSUME NEW u \in Streams, NEW k \in Nat, ran'[u] < k, k <= written'[u]
                 PROVE  \E c \in Reached(u)' : \E i \in 1 .. Len(cmds'[c]) :
                          cmds'[c][i] = <<u, k>> /\ (c = running' => i > pos')
    BY DEF CompleteInv
  <2>4. PICK c \in Reached(u) : \E i \in 1 .. Len(cmds[c]) :
          cmds[c][i] = <<u, k>> /\ (c = running => i > pos)
    BY <2>1, <2>3 DEF CompleteInv
  <2>4a. PICK i \in 1 .. Len(cmds[c]) : cmds[c][i] = <<u, k>> /\ (c = running => i > pos)
    BY <2>4
  <2>5. c # running /\ c \in Bufs
    BY <2>2, <2>4, <2>4a DEF Reached, CommandsInv
  <2>6. cmds'[c] = cmds[c] /\ c \in Reached(u)'
    BY <2>1, <2>4, <2>4a, <2>5 DEF CommandsInv, Reached, QueuedBufs
  <2>7. QED
    BY <2>1, <2>4, <2>4a, <2>5, <2>6
<1>7. QED
  BY <1>1, <1>2, <1>3, <1>4, <1>5, <1>6 DEF CoreStep

\* The buffers of a path: each is ahead of those after it.
LEMMA PathOf ==
  ASSUME ControlInv, PlacesInv, NEW s \in Streams
  PROVE  /\ Path(s) \in Seq(Bufs)
         /\ Range(Path(s)) = Reached(s)
         /\ \A i, j \in DOMAIN Path(s) : i < j => Ahead(Path(s)[i], Path(s)[j])
<1> USE StreamsAssumption
<1> DEFINE h == IF running = None THEN <<>> ELSE <<running>>
           q == ordered_cmd_buf_que
           l == IF buf[s] = None THEN <<>> ELSE <<buf[s]>>
<1>1. /\ h \in Seq(Bufs) /\ Len(h) \in Nat /\ \A i \in 1 .. Len(h) : i = 1 /\ h[i] = running
      /\ Range(h) = {b \in Bufs : b = running}
  <2>1. CASE running = None
    BY <2>1 DEF Range
  <2>2. CASE running # None
    <3>1. running \in Bufs
      BY <2>2 DEF PlacesInv
    <3>2. QED
      BY <2>2, <3>1 DEF Range
  <2>3. QED
    BY <2>1, <2>2
<1>2. q \in Seq(Bufs) /\ Len(q) \in Nat /\ Range(q) = QueuedBufs
  BY DEF PlacesInv, QueuedBufs
<1>3. /\ l \in Seq(Bufs) /\ Len(l) \in Nat /\ \A i \in 1 .. Len(l) : i = 1 /\ l[i] = buf[s]
      /\ Range(l) = {b \in Bufs : b = buf[s]}
  <2>1. CASE buf[s] = None
    BY <2>1 DEF Range
  <2>2. CASE buf[s] # None
    <3>1. buf[s] \in Bufs
      BY <2>2 DEF ControlInv
    <3>2. QED
      BY <2>2, <3>1 DEF Range
  <2>3. QED
    BY <2>1, <2>2
<1>4. Path(s) = (h \o q) \o l
  BY DEF Path, UnderWay
<1>5. \A b \in Range(q) : b \in QueuedBufs
  BY <1>2
<1>6. Range(l) \subseteq LatchedBufs
  BY <1>3 DEF LatchedBufs
<1> HIDE DEF h, q, l
<1> DEFINE m == h \o q
<1>7. /\ m \in Seq(Bufs) /\ Len(m) = Len(h) + Len(q) /\ Range(m) = Range(h) \cup Range(q)
      /\ \A i \in 1 .. Len(h) + Len(q) : m[i] = IF i <= Len(h) THEN h[i] ELSE q[i - Len(h)]
  BY <1>1, <1>2, ConcatProperties, ConcatOf
<1> HIDE DEF m
<1>8. /\ m \o l \in Seq(Bufs) /\ Len(m \o l) = Len(m) + Len(l)
      /\ Range(m \o l) = Range(m) \cup Range(l)
      /\ \A i \in 1 .. Len(m) + Len(l) : (m \o l)[i] = IF i <= Len(m) THEN m[i] ELSE l[i - Len(m)]
  BY <1>3, <1>7, ConcatProperties, ConcatOf
<1>9. Path(s) = m \o l
  BY <1>4 DEF m
\* Where each member of the path comes from.
<1>10. ASSUME NEW i \in DOMAIN Path(s)
       PROVE  \/ i \in 1 .. Len(h) /\ i = 1 /\ Path(s)[i] = running
              \/ /\ i - Len(h) \in 1 .. Len(q) /\ Path(s)[i] = q[i - Len(h)]
                 /\ Path(s)[i] \in QueuedBufs /\ i > Len(h) /\ i <= Len(m)
              \/ i = Len(m) + 1 /\ Path(s)[i] \in LatchedBufs
  <2>1. i \in 1 .. Len(m) + Len(l) /\ Path(s)[i] = IF i <= Len(m) THEN m[i] ELSE l[i - Len(m)]
    BY <1>3, <1>7, <1>8, <1>9
  <2>2. CASE i <= Len(h)
    BY <1>1, <1>2, <1>7, <2>1, <2>2
  <2>3. CASE i > Len(h) /\ i <= Len(m)
    <3>1. i - Len(h) \in 1 .. Len(q) /\ Path(s)[i] = q[i - Len(h)]
      BY <1>1, <1>2, <1>7, <2>1, <2>3
    <3>2. q[i - Len(h)] \in Range(q)
      BY <1>2, <3>1, MembersOf
    <3>3. QED
      BY <1>5, <2>3, <3>1, <3>2
  <2>4. CASE i > Len(m)
    <3>1. i - Len(m) \in 1 .. Len(l) /\ Path(s)[i] = l[i - Len(m)]
      BY <1>1, <1>2, <1>3, <1>7, <2>1, <2>4
    <3>2. l[i - Len(m)] \in Range(l) /\ i - Len(m) = 1
      BY <1>3, <3>1, MembersOf
    <3>3. i = Len(m) + 1
      BY <1>1, <1>2, <1>7, <2>1, <3>2
    <3>4. QED
      BY <1>6, <3>1, <3>2, <3>3
  <2>5. QED
    BY <1>1, <1>2, <1>7, <2>1, <2>2, <2>3, <2>4
<1>11. ASSUME NEW i \in DOMAIN Path(s), NEW j \in DOMAIN Path(s), i < j
       PROVE  Ahead(Path(s)[i], Path(s)[j])
  <2>1. i \in Nat /\ j \in Nat /\ Len(h) \in Nat /\ Len(m) \in Nat
    BY <1>1, <1>7, <1>8, <1>9
  <2>2. j > Len(h)
    <3>1. CASE j \in 1 .. Len(h)
      BY <1>1, <1>8, <1>9, <1>11, <2>1, <3>1
    <3>2. QED
      BY <1>8, <1>9, <2>1, <3>1
  <2>3. CASE Path(s)[i] = running /\ (Path(s)[j] \in QueuedBufs \/ Path(s)[j] \in LatchedBufs)
    BY <2>3 DEF Ahead
  <2>4. CASE /\ i - Len(h) \in 1 .. Len(q) /\ Path(s)[i] = q[i - Len(h)]
             /\ j - Len(h) \in 1 .. Len(q) /\ Path(s)[j] = q[j - Len(h)]
    <3>1. i - Len(h) < j - Len(h)
      BY <1>11, <2>1
    <3>2. i - Len(h) \in DOMAIN ordered_cmd_buf_que /\ j - Len(h) \in DOMAIN ordered_cmd_buf_que
      BY <1>2, <2>4 DEF q
    <3>3. QED
      BY <2>4, <3>1, <3>2 DEF Ahead, q
  <2>5. CASE Path(s)[i] \in QueuedBufs /\ Path(s)[j] \in LatchedBufs
    BY <2>5 DEF Ahead
  <2>6. ~(i = Len(m) + 1)
    <3>1. j <= Len(m) + 1
      BY <1>10, <2>1, <1>1, <1>7, <1>2
    <3>2. QED
      BY <1>11, <2>1, <3>1
  <2>7. QED
    BY <1>10, <2>1, <2>2, <2>3, <2>4, <2>5, <2>6
<1>12. Range(Path(s)) = Reached(s)
  <2>1. Range(Path(s)) = (Range(h) \cup Range(q)) \cup Range(l)
    BY <1>7, <1>8, <1>9
  <2>2. QueuedBufs \subseteq Bufs
    BY <1>2, MembersOf
  <2>3. QED
    BY <1>1, <1>2, <1>3, <2>1, <2>2 DEF Reached
<1>13. QED
  BY <1>8, <1>9, <1>11, <1>12

\* The commands that are not executed are those that were written since, in order.
LEMMA ConservedFromComplete ==
  ASSUME ControlInv, PlacesInv, CommandsInv, OrderInv, CompleteInv
  PROVE  CommandsConserved
<1> USE StreamsAssumption
<1> SUFFICES ASSUME NEW s \in Streams
             PROVE  /\ {Number(s, p) : p \in Unrun(s)} = ran[s] + 1 .. written[s]
                    /\ \A p, q \in Unrun(s) : Sooner(p, q) => Number(s, p) < Number(s, q)
  BY DEF CommandsConserved
<1> DEFINE path == Path(s)
<1>1. /\ path \in Seq(Bufs) /\ Range(path) = Reached(s)
      /\ \A i, j \in DOMAIN path : i < j => Ahead(path[i], path[j])
  BY PathOf
<1>2. \A i \in DOMAIN path : path[i] \in Bufs /\ path[i] \in Reached(s)
  BY <1>1 DEF Range
<1>3. ran[s] \in Nat /\ written[s] \in Nat
  BY DEF CommandsInv
<1>4. ASSUME NEW p \in Unrun(s)
      PROVE  \E i \in DOMAIN path : \E j \in 1 .. Len(cmds[path[i]]) :
               /\ p = <<i, j>> /\ cmds[path[i]][j] = <<s, Number(s, p)>> /\ Number(s, p) \in Nat
               /\ (path[i] = running => j > pos)
  <2>1. PICK i \in DOMAIN path :
          p \in {i} \X {j \in DOMAIN cmds[path[i]] :
                          cmds[path[i]][j][1] = s /\ (path[i] = running => j > pos)}
    BY <1>4 DEF Unrun
  <2>2. PICK j \in DOMAIN cmds[path[i]] :
          p = <<i, j>> /\ cmds[path[i]][j][1] = s /\ (path[i] = running => j > pos)
    BY <2>1
  <2>3. cmds[path[i]] \in Seq(Streams \X Nat)
    BY <1>2 DEF CommandsInv
  <2>4. j \in 1 .. Len(cmds[path[i]]) /\ cmds[path[i]][j] \in Streams \X Nat
    BY <2>2, <2>3
  <2>5. Number(s, p) = cmds[path[i]][j][2]
    BY <2>2 DEF Number
  <2>6. QED
    BY <2>2, <2>4, <2>5
<1>5. ASSUME NEW p \in Unrun(s) PROVE Number(s, p) \in ran[s] + 1 .. written[s]
  <2>1. PICK i \in DOMAIN path : \E j \in 1 .. Len(cmds[path[i]]) :
               /\ p = <<i, j>> /\ cmds[path[i]][j] = <<s, Number(s, p)>> /\ Number(s, p) \in Nat
               /\ (path[i] = running => j > pos)
    BY <1>4, <1>5
  <2>2. PICK j \in 1 .. Len(cmds[path[i]]) :
               /\ p = <<i, j>> /\ cmds[path[i]][j] = <<s, Number(s, p)>> /\ Number(s, p) \in Nat
               /\ (path[i] = running => j > pos)
    BY <2>1
  <2> DEFINE b == path[i]
             k == Number(s, p)
  <2>3. b \in Bufs /\ b \in Reached(s) /\ j \in 1 .. Len(cmds[b]) /\ cmds[b][j] = <<s, k>> /\ k \in Nat
        /\ (b = running => j > pos)
    BY <1>2, <2>2
  <2> HIDE DEF b, k, path
  <2>4. k <= written[s]
    <3>1. cmds[b][j][2] <= written[cmds[b][j][1]]
      BY <2>3 DEF CommandsInv
    <3>2. QED
      BY <2>3, <3>1
  <2>5. ran[s] < k
    <3>1. CASE b = running
      <4>1. pos \in Nat /\ Len(cmds[b]) \in Nat
        BY <2>3 DEF CommandsInv
      <4>2. j \in pos + 1 .. Len(cmds[running]) /\ running # None
        BY <2>3, <3>1, <4>1
      <4>3. ran[cmds[running][j][1]] < cmds[running][j][2]
        BY <4>2 DEF OrderInv
      <4>4. QED
        BY <2>3, <3>1, <4>3
    <3>2. CASE b # running
      <4>1. b \in QueuedBufs \/ b \in LatchedBufs
        BY <2>3, <3>2 DEF Reached, LatchedBufs
      <4>2. ran[cmds[b][j][1]] < cmds[b][j][2]
        BY <2>3, <4>1 DEF OrderInv
      <4>3. QED
        BY <2>3, <4>2
    <3>3. QED
      BY <3>1, <3>2
  <2>6. k \in ran[s] + 1 .. written[s]
    BY <1>3, <2>3, <2>4, <2>5
  <2>7. QED
    BY <2>6 DEF k
<1>6. ASSUME NEW k \in ran[s] + 1 .. written[s] PROVE \E p \in Unrun(s) : Number(s, p) = k
  <2>1. k \in Nat /\ ran[s] < k /\ k <= written[s]
    BY <1>3
  <2>2. PICK b \in Reached(s) : \E j \in 1 .. Len(cmds[b]) :
          cmds[b][j] = <<s, k>> /\ (b = running => j > pos)
    BY <2>1 DEF CompleteInv
  <2>3. PICK j \in 1 .. Len(cmds[b]) : cmds[b][j] = <<s, k>> /\ (b = running => j > pos)
    BY <2>2
  <2>4. PICK i \in DOMAIN path : path[i] = b
    BY <1>1, <2>2 DEF Range
  <2>5. DOMAIN cmds[b] = 1 .. Len(cmds[b])
    BY <2>2 DEF Reached, CommandsInv
  <2>6. <<i, j>> \in {i} \X {n \in DOMAIN cmds[path[i]] :
                              cmds[path[i]][n][1] = s /\ (path[i] = running => n > pos)}
    BY <2>3, <2>4, <2>5
  <2>7. <<i, j>> \in Unrun(s)
    BY <2>6 DEF Unrun
  <2>8. Number(s, <<i, j>>) = k
    BY <2>3, <2>4 DEF Number
  <2>9. QED
    BY <2>7, <2>8
<1>7. ASSUME NEW p \in Unrun(s), NEW q \in Unrun(s), Sooner(p, q)
      PROVE  Number(s, p) < Number(s, q)
  <2>1. PICK i \in DOMAIN path : \E j \in 1 .. Len(cmds[path[i]]) :
               p = <<i, j>> /\ cmds[path[i]][j] = <<s, Number(s, p)>>
    BY <1>4
  <2>2. PICK j \in 1 .. Len(cmds[path[i]]) : p = <<i, j>> /\ cmds[path[i]][j] = <<s, Number(s, p)>>
    BY <2>1
  <2>3. PICK x \in DOMAIN path : \E y \in 1 .. Len(cmds[path[x]]) :
               q = <<x, y>> /\ cmds[path[x]][y] = <<s, Number(s, q)>>
    BY <1>4
  <2>4. PICK y \in 1 .. Len(cmds[path[x]]) : q = <<x, y>> /\ cmds[path[x]][y] = <<s, Number(s, q)>>
    BY <2>3
  <2>5. i < x \/ (i = x /\ j < y)
    BY <1>7, <2>2, <2>4 DEF Sooner
  <2>6. path[i] \in Bufs /\ path[x] \in Bufs
    BY <1>2
  <2>7. Less(cmds[path[i]][j], cmds[path[x]][y])
    <3>1. CASE i < x
      <4>1. Ahead(path[i], path[x])
        BY <1>1, <3>1
      <4> HIDE DEF path
      <4>2. QED
        BY <2>6, <4>1 DEF OrderInv
    <3>2. CASE i = x /\ j < y
      <4> HIDE DEF path
      <4>1. QED
        BY <2>6, <3>2 DEF OrderInv
    <3>3. QED
      BY <2>5, <3>1, <3>2
  <2>8. QED
    BY <2>2, <2>4, <2>7 DEF Less
<1>8. QED
  BY <1>5, <1>6, <1>7

\* No command was written at first.
LEMMA InitComplete == Init => CompleteInv
BY DEF Init, CompleteInv

\* Every step keeps the commands in their buffers.
LEMMA NextIInvComplete == IInv /\ CompleteInv /\ [Next]_vars => (IInv /\ CompleteInv)'
<1> SUFFICES ASSUME IInv, CompleteInv, [Next]_vars PROVE IInv' /\ CompleteInv'
  OBVIOUS
<1>1. CoreStep
  BY FencesTyped, NextIsCoreStep DEF IInv
<1>2. CompleteInv'
  BY <1>1, NextComplete DEF IInv
<1>3. QED
  BY <1>2, NextIInv

-----------------------------------------------------------------------------
(* How many buffers were submitted: the counters start one below zero, so  *)
(* that Inc of one is how often it was incremented, while that is seldom   *)
(* enough.                                                                 *)

\* The threads that still have to count what they submitted, and that write.
Counting == {s \in Streams : pc[s] = "count"}
Latching == {s \in Streams : buf[s] # None}
Submitted == Inc(submit_count) + Cardinality(Counting)
Asking(s) == pc[s] = "get" \/ (pc[s] = "count" /\ then[s] = "get")

\* A buffer is submitted with a command in it at least.
AmountsInv ==
  /\ submit_count \in Counters /\ done_count \in Counters
  /\ Submitted = Inc(done_count) + Len(ordered_cmd_buf_que) + (IF running = None THEN 0 ELSE 1)
  /\ Submitted + Cardinality(Latching) <= Cardinality(Piles(Streams, written))
  /\ \A b \in Bufs : Inc(submit_counter[b]) <= Submitted

\* Who asks for a buffer has a command left to write.
WrittenInv ==
  \A s \in Streams : written[s] <= MaxCommands[s] /\ (Asking(s) => written[s] < MaxCommands[s])

\* The fences of buffers that were submitted less often than half the range.
Young == {f \in Fences : f.cmd_buf # None => Inc(f.counter) < Half}
YoungInv ==
  /\ last_fence \in [Streams -> Young] /\ fence \in [Streams -> Young]
  /\ kept \in Young /\ frame_fences \in [0 .. 1 -> Young]

\* Nobody else makes a call while the device is flushed.
FlushInv ==
  /\ Flushing => \A s \in Streams \ {Default} : pc[s] = "idle"
  /\ pc[Default] = "flushed" => ordered_cmd_buf_que = <<>> /\ running = None

RetiredInv == \A b \in Bufs : Inc(retire_counter[b]) < Half
FrameInv == Passed(frame_fences[NextSlot])

\* A counter that is not yet at the end of its range.
LEMMA IncSteps ==
  ASSUME NEW n \in Counters
  PROVE  /\ Inc(n) \in Nat /\ Inc(n) < Range32
         /\ Inc(n) + 1 < Range32 => Inc(Inc(n)) = Inc(n) + 1
<1> DEFINE R == Range32
<1>1. R \in Nat \ {0}
  BY SizesAssumption DEF Range32
<1> HIDE DEF R
<1>2. Inc(n) \in 0 .. R - 1
  BY IncType DEF Counters, R
<1>3. ASSUME NEW k \in Nat, k < R PROVE k % R = k
  BY <1>1, <1>3
<1>4. ASSUME Inc(n) + 1 < R PROVE Inc(Inc(n)) = Inc(n) + 1
  <2>1. (Inc(n) + 1) % R = Inc(n) + 1
    BY <1>2, <1>3, <1>4
  <2>2. QED
    BY <2>1 DEF Inc, R
<1>5. QED
  BY <1>1, <1>2, <1>4 DEF R

\* The comparison of counters that were incremented less often than half the
\* range is that of how often they were.
LEMMA LessMeans ==
  ASSUME NEW x \in Counters, NEW y \in Counters, Inc(x) < Half, Inc(y) < Half
  PROVE  wrap_is_less(x, y) <=> Inc(x) < Inc(y)
<1> DEFINE R == Range32
<1>1. Half \in Nat \ {0} /\ R = 2 * Half /\ R \in Nat \ {0}
  BY SizesAssumption DEF Range32
<1> HIDE DEF R
<1>2. \A n \in 0 .. R - 1 : Inc(n) = IF n = R - 1 THEN 0 ELSE n + 1
  <2>1. ASSUME NEW n \in 0 .. R - 1 PROVE (n + 1) % R = IF n = R - 1 THEN 0 ELSE n + 1
    BY <1>1, <2>1
  <2>2. QED
    BY <2>1 DEF Inc, R
<1>3. x \in 0 .. R - 1 /\ y \in 0 .. R - 1
  BY DEF Counters, R
<1>4. PICK d \in Int : d = Inc(x) - Inc(y)
  BY <1>1, <1>2, <1>3
<1>5. -Half < d /\ d < Half /\ (d < 0 <=> Inc(x) < Inc(y))
  BY <1>1, <1>2, <1>3, <1>4
<1>6. x - y = d \/ x - y = d + R \/ x - y = d - R
  BY <1>1, <1>2, <1>3, <1>4
<1>7. (x - y) % R = IF d < 0 THEN d + R ELSE d
  <2>1. -R < x - y /\ x - y < R /\ x - y \in Int
    BY <1>1, <1>3
  <2>2. ASSUME NEW e \in Int, -R < e, e < R PROVE e % R = IF e < 0 THEN e + R ELSE e
    BY <1>1, <2>2
  <2>3. (x - y) % R = IF x - y < 0 THEN x - y + R ELSE x - y
    BY <2>1, <2>2
  <2>4. QED
    BY <1>1, <1>5, <1>6, <2>1, <2>3
<1>8. Half - 1 < (x - y) % R <=> d < 0
  BY <1>1, <1>5, <1>7
<1>9. QED
  BY <1>5, <1>8 DEF wrap_is_less, R

\* One more and one less.
LEMMA OneMore ==
  ASSUME NEW S, IsFiniteSet(S), NEW T, NEW x, x \notin S, T = S \cup {x}
  PROVE  IsFiniteSet(T) /\ Cardinality(S) \in Nat /\ Cardinality(T) = Cardinality(S) + 1
BY FS_AddElement, FS_CardinalityType

\* The threads that count and that write.
LEMMA ThreadSets ==
  /\ IsFiniteSet(Counting) /\ Cardinality(Counting) \in Nat
  /\ IsFiniteSet(Latching) /\ Cardinality(Latching) \in Nat
<1>1. Counting \subseteq Streams /\ Latching \subseteq Streams
  BY DEF Counting, Latching
<1>2. QED
  BY <1>1, StreamsAssumption, FS_Subset, FS_CardinalityType

\* A thread that writes one command more.
LEMMA OneWritten ==
  ASSUME CommandsInv, NEW s \in Streams, written' = [written EXCEPT ![s] = @ + 1]
  PROVE  /\ Cardinality(Piles(Streams, written)) \in Nat
         /\ Cardinality(Piles(Streams, written))' = Cardinality(Piles(Streams, written)) + 1
<1>1. written \in [Streams -> Nat] /\ IsFiniteSet(Streams)
  BY StreamsAssumption DEF CommandsInv
<1>2. written' \in [Streams -> Nat] /\ written'[s] = written[s] + 1
      /\ \A t \in Streams \ {s} : written'[t] = written[t]
  BY <1>1
<1>3. Cardinality(Piles(Streams, written)) \in Nat
  BY <1>1, PilesFinite
<1> DEFINE n == written
           m == written'
<1> HIDE DEF n, m
<1>4. n \in [Streams -> Nat] /\ m \in [Streams -> Nat] /\ \A t \in Streams \ {s} : m[t] = n[t]
  BY <1>1, <1>2 DEF n, m
<1>5. Cardinality(Piles(Streams, m)) = Cardinality(Piles(Streams, n)) - n[s] + m[s]
  BY <1>1, <1>4, PileChanges
<1>6. Piles(Streams, written)' = Piles(Streams, written')
  BY DEF Piles
<1>7. QED
  BY <1>1, <1>2, <1>3, <1>5, <1>6 DEF n, m

\* The steps that submit, count or take nothing.
StillStep ==
  /\ UNCHANGED <<ordered_cmd_buf_que, running, submit_counter, counts, buf, written>>
  /\ Counting' = Counting

\* A thread that begins or ends no count leaves the threads that count.
LEMMA SameCounting ==
  ASSUME pc \in [Streams -> Places], NEW s \in Streams, pc[s] # "count",
         NEW place \in Places, place # "count", Goto(s, place)
  PROVE  Counting' = Counting
BY DEF Counting, Goto

\* Every step of the system is a still one or one of the six that change amounts.
LEMMA NextIsAmountStep ==
  ASSUME ControlInv, [Next]_vars
  PROVE  \/ StillStep \/ Deque \/ FreeBuf
         \/ \E s \in Streams : SubmitStep(s) \/ Count(s) \/ WriteStep(s) \/ GetBuf(s)
<1> USE StreamsAssumption
<1> USE DEF buffers, counts, frames, stream, thread, render, history
<1>1. ASSUME NEW s \in Streams, pc[s] # "count", NEW place \in Places, place # "count",
             SleepAt(s, place)
      PROVE  StillStep
  BY <1>1, SameCounting DEF SleepAt, StillStep, ControlInv
<1>2. ASSUME NEW s \in Streams, pc[s] \in Places \ {"count"}, Sleep(s) PROVE StillStep
  BY <1>1, <1>2 DEF Sleep
<1>3. ASSUME NEW s \in Streams, pc[s] # "count", NEW place \in Places, place # "count",
             Goto(s, place),
             UNCHANGED <<ordered_cmd_buf_que, running, submit_counter, counts, buf, written>>
      PROVE  StillStep
  BY <1>3, SameCounting DEF StillStep, ControlInv
<1>4. CASE UNCHANGED vars
  BY <1>4 DEF vars, StillStep, Counting
<1>5. CASE Render
  BY <1>5 DEF Render, WaitQueued, Execute, Retire, StillStep, Counting
<1>6. CASE MainCall
  <2>1. CASE Frame
    BY <1>3, <2>1 DEF Frame, Idle, SubmitStep, Places
  <2>2. CASE FlushDevice
    BY <1>3, <2>2 DEF FlushDevice, Idle, SubmitStep, Places
  <2>3. QED
    BY <1>6, <2>1, <2>2 DEF MainCall
<1>7. CASE MainContinues
  <2>1. CASE EndFrame
    <3>1. pc[Default] = "frame" /\ (Sleep(Default) \/ (Goto(Default, "idle")
            /\ UNCHANGED <<ordered_cmd_buf_que, running, submit_counter, counts, buf, written>>))
      BY <2>1 DEF EndFrame
    <3>2. QED
      BY <1>2, <1>3, <3>1 DEF Places
  <2>2. ASSUME NEW from \in Places \ {"count"}, NEW place \in Places \ {"count"}, MainAt(from, place)
        PROVE  StillStep
    BY <1>3, <2>2 DEF MainAt
  <2>3. CASE TestDevice \/ Flushed
    BY <2>2, <2>3 DEF TestDevice, Flushed, Places
  <2>4. CASE LockDevice
    BY <1>1, <2>4 DEF LockDevice, Places
  <2>5. CASE DrainDevice
    BY <1>2, <2>2, <2>5 DEF DrainDevice, Places
  <2>6. QED
    BY <1>7, <2>1, <2>3, <2>4, <2>5 DEF MainContinues
<1>8. ASSUME NEW s \in Streams, Call(s)
      PROVE  StillStep \/ SubmitStep(s) \/ WriteStep(s)
  <2>1. Idle(s) /\ pc[s] = "idle"
    BY <1>8 DEF Call, Write, Flush, WaitKept, Idle
  <2>2. ASSUME NEW place \in {"idle", "get", "test", "frame", "flush"}, Submit(s, place)
        PROVE  SubmitStep(s)
    BY <2>1, <2>2 DEF SubmitStep
  <2>3. CASE Write(s)
    BY <1>3, <2>1, <2>2, <2>3 DEF Write, WriteStep, Places
  <2>4. CASE Flush(s)
    BY <2>2, <2>4 DEF Flush
  <2>5. CASE WaitKept(s)
    BY <1>3, <2>1, <2>2, <2>5 DEF WaitKept, Places
  <2>6. QED
    BY <1>8, <2>3, <2>4, <2>5 DEF Call
<1>9. ASSUME NEW s \in Streams, Continue(s)
      PROVE  StillStep \/ Count(s) \/ GetBuf(s)
  <2>1. CASE WaitBuf(s)
    BY <1>2, <2>1 DEF WaitBuf, Places
  <2>2. CASE TestFence(s)
    <3>1. pc[s] = "test" /\ (Sleep(s) \/ (Goto(s, "idle")
            /\ UNCHANGED <<ordered_cmd_buf_que, running, submit_counter, counts, buf, written>>))
      BY <2>2 DEF TestFence
    <3>2. QED
      BY <1>2, <1>3, <3>1 DEF Places
  <2>3. QED
    BY <1>9, <2>1, <2>2 DEF Continue
<1>10. QED
  BY <1>4, <1>5, <1>6, <1>7, <1>8, <1>9 DEF Next, Render

\* Nothing is submitted at first.
LEMMA InitAmounts == Init => AmountsInv
<1> SUFFICES ASSUME Init PROVE AmountsInv
  OBVIOUS
<1> DEFINE start == Range32 - 1
<1>1. start \in Counters /\ Inc(start) = 0
  <2>1. Range32 \in Nat \ {0}
    BY SizesAssumption DEF Range32
  <2>2. QED
    BY <2>1 DEF Counters, Inc
<1>2. /\ submit_count = start /\ done_count = start /\ submit_counter = [b \in Bufs |-> start]
      /\ ordered_cmd_buf_que = <<>> /\ running = None /\ written = [s \in Streams |-> 0]
      /\ buf = [s \in Streams |-> None] /\ pc = [s \in Streams |-> "idle"]
  BY DEF Init
<1> HIDE DEF start
<1>3. Counting = {} /\ Latching = {}
  BY <1>2 DEF Counting, Latching
<1>4. Cardinality(Counting) = 0 /\ Cardinality(Latching) = 0
  BY <1>3, FS_EmptySet
<1>5. Cardinality(Piles(Streams, written)) = 0
  BY <1>2, PilesEmpty
<1>6. Submitted = 0
  BY <1>1, <1>2, <1>4 DEF Submitted
<1>7. Len(ordered_cmd_buf_que) = 0
  BY <1>2
<1>8. \A b \in Bufs : Inc(submit_counter[b]) = 0
  BY <1>1, <1>2
<1>9. QED
  BY <1>1, <1>2, <1>4, <1>5, <1>6, <1>7, <1>8 DEF AmountsInv

\* Less is submitted than half the range of a counter.
LEMMA FewCommands ==
  ASSUME CommandsInv, WrittenInv
  PROVE  /\ Cardinality(Piles(Streams, written)) \in Nat
         /\ Cardinality(Piles(Streams, written)) < Half
<1>1. /\ IsFiniteSet(Streams) /\ written \in [Streams -> Nat] /\ MaxCommands \in [Streams -> Nat]
      /\ \A s \in Streams : written[s] <= MaxCommands[s]
  BY StreamsAssumption, SizesAssumption DEF CommandsInv, WrittenInv
<1>2. Cardinality(Piles(Streams, written)) <= Cardinality(Piles(Streams, MaxCommands))
  BY <1>1, PilesOrdered
<1>3. /\ Cardinality(Piles(Streams, written)) \in Nat
      /\ Cardinality(Piles(Streams, MaxCommands)) \in Nat
  BY <1>1, PilesFinite
<1>4. Cardinality(Piles(Streams, MaxCommands)) < Half
  BY AgeAssumption, <1>3, SizesAssumption DEF Piles
<1>5. QED
  BY <1>2, <1>3, <1>4, SizesAssumption

\* What a step submits, counts and takes.
LEMMA NextAmounts ==
  ASSUME ControlInv, PlacesInv, CounterInv, CommandsInv, WrittenInv, AmountsInv, [Next]_vars
  PROVE  AmountsInv'
<1> USE StreamsAssumption
<1> USE DEF buffers, counts, frames, stream, thread, render, history
<1> DEFINE N == Cardinality(Piles(Streams, written))
           C == Cardinality(Counting)
           L == Cardinality(Latching)
           Q == Len(ordered_cmd_buf_que)
           E == IF running = None THEN 0 ELSE 1
<1>1. /\ N \in Nat /\ C \in Nat /\ L \in Nat /\ Q \in Nat /\ E \in Nat /\ Half \in Nat /\ N < Half
      /\ Half < Range32
  BY FewCommands, ThreadSets, SizesAssumption DEF PlacesInv, Range32
<1>2. /\ Inc(submit_count) \in Nat /\ Inc(done_count) \in Nat
      /\ \A b \in Bufs : submit_counter[b] \in Counters /\ Inc(submit_counter[b]) \in Nat
  BY IncSteps DEF AmountsInv, CounterInv
<1>3. /\ submit_count \in Counters /\ done_count \in Counters
      /\ Inc(submit_count) + C = Inc(done_count) + Q + E
      /\ Inc(submit_count) + C + L <= N
      /\ \A b \in Bufs : Inc(submit_counter[b]) <= Inc(submit_count) + C
  BY DEF AmountsInv, Submitted
<1>4. SUFFICES
        /\ submit_count' \in Counters /\ done_count' \in Counters
        /\ Inc(submit_count)' + C' = Inc(done_count)' + Q' + E'
        /\ Inc(submit_count)' + C' + L' <= N'
        /\ \A b \in Bufs : Inc(submit_counter[b])' <= Inc(submit_count)' + C'
  BY DEF AmountsInv, Submitted
<1>5. /\ Inc(submit_count)' = Inc(submit_count') /\ Inc(done_count)' = Inc(done_count')
      /\ \A b \in Bufs : Inc(submit_counter[b])' = Inc(submit_counter'[b])
  BY DEF Inc, Range32
<1> HIDE DEF N, C, L, Q, E
<1>6. CASE StillStep
  BY <1>2, <1>3, <1>5, <1>6 DEF StillStep, N, C, L, Q, E, Latching, Piles
<1>7. ASSUME NEW s \in Streams, SubmitStep(s)
      PROVE  /\ submit_count' \in Counters /\ done_count' \in Counters
             /\ Inc(submit_count)' + C' = Inc(done_count)' + Q' + E'
             /\ Inc(submit_count)' + C' + L' <= N'
             /\ \A b \in Bufs : Inc(submit_counter[b])' <= Inc(submit_count)' + C'
  <2> DEFINE b == buf[s]
  <2>1. /\ b \in Bufs /\ b # None /\ pc[s] = "idle" /\ pc' = [pc EXCEPT ![s] = "count"]
        /\ buf' = [buf EXCEPT ![s] = None]
        /\ submit_counter' = [submit_counter EXCEPT ![b] = Inc(submit_counter[b])]
        /\ ordered_cmd_buf_que' = Append(ordered_cmd_buf_que, b)
        /\ UNCHANGED <<submit_count, done_count, running, written>>
    BY <1>7 DEF SubmitStep, Submit, Idle, Goto, Unlatched, Linked, ControlInv
  <2>2. s \notin Counting /\ Counting' = Counting \cup {s}
    BY <2>1 DEF Counting, ControlInv
  <2>3. s \notin Latching' /\ Latching = Latching' \cup {s}
    BY <2>1 DEF Latching, ControlInv
  <2>4. C' = C + 1
    BY <2>2, OneMore, ThreadSets DEF C
  <2>5. L' \in Nat /\ L = L' + 1
    <3>1. IsFiniteSet(Latching')
      BY <2>3, ThreadSets, FS_Subset
    <3>2. QED
      BY <2>3, <3>1, OneMore DEF L
  <2>6. Q' = Q + 1
    BY <2>1, LengthOf DEF Q, PlacesInv
  <2>7. N' = N /\ E' = E
    BY <2>1 DEF N, E, Piles
  <2> HIDE DEF b
  <2>8. Inc(submit_counter[b]) + 1 <= N
    <3>1. Inc(submit_counter[b]) \in Nat /\ Inc(submit_counter[b]) <= Inc(submit_count) + C
      BY <1>2, <1>3, <2>1
    <3>2. Inc(submit_count) + C + L' + 1 <= N
      BY <1>1, <1>2, <1>3, <2>5
    <3>3. QED
      BY <1>1, <1>2, <2>5, <3>1, <3>2
  <2>9. Inc(Inc(submit_counter[b])) = Inc(submit_counter[b]) + 1
    <3>1. Inc(submit_counter[b]) + 1 < Range32 /\ submit_counter[b] \in Counters
      BY <1>1, <1>2, <2>1, <2>8, SizesAssumption DEF Range32
    <3>2. QED
      BY <3>1, IncSteps
  <2>10. Inc(submit_count)' = Inc(submit_count) /\ Inc(done_count)' = Inc(done_count)
    BY <1>5, <2>1
  <2>11. ASSUME NEW c \in Bufs PROVE Inc(submit_counter[c])' <= Inc(submit_count)' + C'
    <3>1. CASE c = b
      <4>1. Inc(submit_counter[c])' = Inc(submit_counter[b]) + 1
        BY <1>5, <2>1, <2>9, <3>1 DEF CounterInv
      <4>2. QED
        BY <1>1, <1>2, <1>3, <2>1, <2>4, <2>10, <4>1
    <3>2. CASE c # b
      <4>1. Inc(submit_counter[c])' = Inc(submit_counter[c])
        BY <1>5, <2>1, <3>2 DEF CounterInv
      <4>2. QED
        BY <1>1, <1>2, <1>3, <2>4, <2>10, <4>1
    <3>3. QED
      BY <3>1, <3>2
  <2>12. submit_count' \in Counters /\ done_count' \in Counters
    BY <1>3, <2>1
  <2>13. Inc(submit_count) + (C + 1) = Inc(done_count) + (Q + 1) + E
    BY <1>1, <1>2, <1>3
  <2>14. Inc(submit_count) + (C + 1) + L' <= N
    BY <1>1, <1>2, <1>3, <2>5
  <2>15. QED
    BY <2>4, <2>6, <2>7, <2>10, <2>11, <2>12, <2>13, <2>14
<1>8. ASSUME NEW s \in Streams, Count(s)
      PROVE  /\ submit_count' \in Counters /\ done_count' \in Counters
             /\ Inc(submit_count)' + C' = Inc(done_count)' + Q' + E'
             /\ Inc(submit_count)' + C' + L' <= N'
             /\ \A b \in Bufs : Inc(submit_counter[b])' <= Inc(submit_count)' + C'
  <2>1. /\ pc[s] = "count" /\ pc' = [pc EXCEPT ![s] = then[s]] /\ then[s] # "count"
        /\ submit_count' = Inc(submit_count)
        /\ UNCHANGED <<done_count, running, ordered_cmd_buf_que, submit_counter, buf, written>>
    BY <1>8 DEF Count, Goto, ControlInv
  <2>2. s \notin Counting' /\ Counting = Counting' \cup {s}
    BY <2>1 DEF Counting, ControlInv
  <2>3. C' \in Nat /\ C = C' + 1
    <3>1. IsFiniteSet(Counting')
      BY <2>2, ThreadSets, FS_Subset
    <3>2. QED
      BY <2>2, <3>1, OneMore DEF C
  <2>4. N' = N /\ E' = E /\ L' = L /\ Q' = Q
    BY <2>1 DEF N, E, L, Q, Piles, Latching
  <2>5. Inc(submit_count)' = Inc(submit_count) + 1
    <3>1. Inc(submit_count) + 1 < Range32
      BY <1>1, <1>2, <1>3, <2>3, SizesAssumption DEF Range32
    <3>2. QED
      BY <1>3, <1>5, <2>1, <3>1, IncSteps
  <2>6. Inc(done_count)' = Inc(done_count) /\ \A b \in Bufs : Inc(submit_counter[b])' = Inc(submit_counter[b])
    BY <1>5, <2>1
  <2>7. submit_count' \in Counters
    BY <1>3, <2>1, IncType
  <2>8. QED
    BY <1>1, <1>2, <1>3, <2>1, <2>3, <2>4, <2>5, <2>6, <2>7
<1>9. ASSUME NEW s \in Streams, WriteStep(s) \/ GetBuf(s)
      PROVE  /\ submit_count' \in Counters /\ done_count' \in Counters
             /\ Inc(submit_count)' + C' = Inc(done_count)' + Q' + E'
             /\ Inc(submit_count)' + C' + L' <= N'
             /\ \A b \in Bufs : Inc(submit_counter[b])' <= Inc(submit_count)' + C'
  <2>1. /\ written' = [written EXCEPT ![s] = @ + 1]
        /\ UNCHANGED <<submit_count, done_count, running, ordered_cmd_buf_que, submit_counter>>
        /\ \A t \in Streams \ {s} : buf'[t] = buf[t]
    BY <1>9 DEF WriteStep, GetBuf, WriteInto, ControlInv
  <2>2. N' = N + 1
    BY <2>1, OneWritten DEF N
  <2>3. Counting' = Counting
    <3>1. CASE WriteStep(s)
      BY <3>1 DEF WriteStep, Counting
    <3>2. CASE GetBuf(s)
      BY <3>2, SameCounting DEF GetBuf, ControlInv, Places
    <3>3. QED
      BY <1>9, <3>1, <3>2
  <2>4. L' <= L + 1
    <3>1. Latching' \subseteq Latching \cup {s}
      BY <2>1 DEF Latching
    <3>2. PICK M : M = Latching \cup {s}
      OBVIOUS
    <3>3. IsFiniteSet(M) /\ Cardinality(M) \in Nat /\ Cardinality(M) <= L + 1
      <4>1. CASE s \in Latching
        <5>1. M = Latching
          BY <3>2, <4>1
        <5>2. QED
          BY <1>1, <5>1, ThreadSets DEF L
      <4>2. CASE s \notin Latching
        <5>1. IsFiniteSet(M) /\ Cardinality(M) = L + 1
          BY <3>2, <4>2, ThreadSets, OneMore DEF L
        <5>2. QED
          BY <1>1, <5>1
      <4>3. QED
        BY <4>1, <4>2
    <3>4. Latching' \subseteq M
      BY <3>1, <3>2
    <3>5. Cardinality(Latching') <= Cardinality(M) /\ Cardinality(Latching') \in Nat
      BY <3>3, <3>4, FS_Subset, FS_CardinalityType
    <3>6. QED
      BY <1>1, <3>3, <3>5 DEF L
  <2>5. L' \in Nat
    BY <2>1, StreamsAssumption, FS_Subset, FS_CardinalityType DEF L, Latching
  <2>6. C' = C /\ E' = E /\ Q' = Q
    BY <2>1, <2>3 DEF C, E, Q
  <2>7. /\ Inc(submit_count)' = Inc(submit_count) /\ Inc(done_count)' = Inc(done_count)
        /\ \A b \in Bufs : Inc(submit_counter[b])' = Inc(submit_counter[b])
    BY <1>5, <2>1
  <2>8. QED
    BY <1>1, <1>2, <1>3, <2>1, <2>2, <2>4, <2>5, <2>6, <2>7
<1>10. CASE Deque
  <2>1. /\ ordered_cmd_buf_que # <<>> /\ ordered_cmd_buf_que' = Tail(ordered_cmd_buf_que)
        /\ running = None /\ running' \in Bufs
        /\ UNCHANGED <<submit_count, done_count, submit_counter, pc, buf, written>>
    BY <1>10, TailOf DEF Deque, PlacesInv
  <2>2. Q = Q' + 1 /\ Q' \in Nat
    BY <2>1, LengthOf DEF Q, PlacesInv
  <2>3. E = 0 /\ E' = 1
    BY <2>1 DEF E
  <2>4. N' = N /\ C' = C /\ L' = L
    BY <2>1 DEF N, C, L, Piles, Counting, Latching
  <2>5. /\ Inc(submit_count)' = Inc(submit_count) /\ Inc(done_count)' = Inc(done_count)
        /\ \A b \in Bufs : Inc(submit_counter[b])' = Inc(submit_counter[b])
    BY <1>5, <2>1
  <2>6. QED
    BY <1>1, <1>2, <1>3, <2>1, <2>2, <2>3, <2>4, <2>5
<1>11. CASE FreeBuf
  <2>1. /\ running # None /\ running' = None /\ done_count' = Inc(done_count)
        /\ UNCHANGED <<submit_count, submit_counter, pc, buf, written, ordered_cmd_buf_que>>
    BY <1>11 DEF FreeBuf, PlacesInv
  <2>2. E = 1 /\ E' = 0
    BY <2>1 DEF E
  <2>3. N' = N /\ C' = C /\ L' = L /\ Q' = Q
    BY <2>1 DEF N, C, L, Q, Piles, Counting, Latching
  <2>4. Inc(done_count)' = Inc(done_count) + 1
    <3>1. Inc(done_count) + 1 < Range32
      BY <1>1, <1>2, <1>3, <2>2, SizesAssumption DEF Range32
    <3>2. QED
      BY <1>3, <1>5, <2>1, <3>1, IncSteps
  <2>5. Inc(submit_count)' = Inc(submit_count) /\ \A b \in Bufs : Inc(submit_counter[b])' = Inc(submit_counter[b])
    BY <1>5, <2>1
  <2>6. done_count' \in Counters
    BY <1>3, <2>1, IncType
  <2>7. QED
    BY <1>1, <1>2, <1>3, <2>1, <2>2, <2>3, <2>4, <2>5, <2>6
<1>12. QED
  BY <1>6, <1>7, <1>8, <1>9, <1>10, <1>11, NextIsAmountStep

\* Who asks for a buffer is about to write a command that it may.
LEMMA NextWritten ==
  ASSUME ControlInv, CommandsInv, WrittenInv, [Next]_vars
  PROVE  WrittenInv'
<1> USE StreamsAssumption, SizesAssumption DEF Goto
<1> USE DEF buffers, counts, frames, stream, thread, render, history
<1>1. /\ pc \in [Streams -> Places] /\ then \in [Streams -> {"idle", "get", "test", "frame", "flush"}]
      /\ written \in [Streams -> Nat]
      /\ \A s \in Streams : MaxCommands[s] \in Nat
  BY DEF ControlInv, CommandsInv
<1>2. ASSUME NEW s \in Streams, \A t \in Streams \ {s} : pc'[t] = pc[t] /\ then'[t] = then[t],
             UNCHANGED written, Asking(s)' => Asking(s) \/ written[s] < MaxCommands[s]
      PROVE  WrittenInv'
  BY <1>1, <1>2 DEF WrittenInv, Asking
<1>3. ASSUME NEW s \in Streams, NEW place \in Places, place = "get" => pc[s] = "get",
             pc' = [pc EXCEPT ![s] = place], place # "count", UNCHANGED <<then, written>>
      PROVE  WrittenInv'
  BY <1>1, <1>2, <1>3 DEF Asking
<1>4. ASSUME NEW s \in Streams, NEW place \in {"idle", "get", "test", "frame", "flush"},
             Submit(s, place), place = "get" => written[s] < MaxCommands[s]
      PROVE  WrittenInv'
  BY <1>1, <1>2, <1>4 DEF Asking, Submit
<1>5. ASSUME NEW s \in Streams, NEW place \in Places, place # "count", SleepAt(s, place),
             place = "get" => pc[s] = "get"
      PROVE  WrittenInv'
  BY <1>3, <1>5 DEF SleepAt
<1>6. ASSUME NEW s \in Streams, written' = [written EXCEPT ![s] = @ + 1],
             written[s] < MaxCommands[s], UNCHANGED then,
             \/ UNCHANGED pc /\ ~Asking(s)
             \/ pc' = [pc EXCEPT ![s] = "idle"]
      PROVE  WrittenInv'
  <2>1. written'[s] = written[s] + 1 /\ \A t \in Streams \ {s} : written'[t] = written[t]
    BY <1>1, <1>6
  <2>2. ~Asking(s)' /\ \A t \in Streams \ {s} : Asking(t)' = Asking(t)
    BY <1>1, <1>6 DEF Asking
  <2>3. QED
    BY <1>1, <1>6, <2>1, <2>2 DEF WrittenInv
<1>7. CASE UNCHANGED vars \/ Render
  <2>1. UNCHANGED <<pc, then, written>>
    BY <1>7 DEF vars, Render, Deque, WaitQueued, Execute, Retire, FreeBuf
  <2>2. QED
    BY <2>1 DEF WrittenInv, Asking
<1>8. CASE MainCall
  <2>1. CASE Submit(Default, "frame") \/ Submit(Default, "flush")
    BY <1>4, <2>1
  <2>2. CASE ~(Submit(Default, "frame") \/ Submit(Default, "flush"))
    BY <1>3, <1>8, <2>2 DEF MainCall, Frame, FlushDevice, Places
  <2>3. QED
    BY <2>1, <2>2
<1>9. CASE MainContinues
  <2>1. CASE EndFrame
    <3>1. CASE Passed(frame_fences[TailSlot])
      BY <1>3, <2>1, <3>1 DEF EndFrame, Places
    <3>2. CASE ~Passed(frame_fences[TailSlot])
      BY <1>5, <2>1, <3>2 DEF EndFrame, Sleep, Places
    <3>3. QED
      BY <3>1, <3>2
  <2>2. CASE TestDevice \/ Flushed
    BY <1>3, <2>2 DEF TestDevice, Flushed, MainAt, Places
  <2>3. CASE LockDevice
    BY <1>5, <2>3 DEF LockDevice, Places
  <2>4. CASE DrainDevice
    <3>1. CASE Behind
      BY <1>5, <2>4, <3>1 DEF DrainDevice, Sleep, Places
    <3>2. CASE ~Behind
      BY <1>3, <2>4, <3>2 DEF DrainDevice, MainAt, Places
    <3>3. QED
      BY <3>1, <3>2
  <2>5. QED
    BY <1>9, <2>1, <2>2, <2>3, <2>4 DEF MainContinues
<1>10. ASSUME NEW s \in Streams, Call(s) PROVE WrittenInv'
  <2>1. pc[s] = "idle"
    BY <1>10 DEF Call, Write, Flush, WaitKept, Idle
  <2>2. CASE Write(s)
    <3>1. written[s] < MaxCommands[s]
      BY <2>2 DEF Write
    <3>2. CASE Submit(s, "get")
      BY <1>4, <3>1, <3>2
    <3>3. CASE buf[s] = None /\ ~Submit(s, "get")
      BY <1>2, <2>2, <3>1, <3>3, <1>1 DEF Write
    <3>4. CASE buf[s] # None /\ ~Submit(s, "get")
      <4>1. WriteInto(s, buf[s]) /\ UNCHANGED <<pc, then>>
        BY <2>2, <3>4 DEF Write
      <4>2. ~Asking(s)
        BY <2>1 DEF Asking
      <4>3. QED
        BY <1>6, <3>1, <4>1, <4>2 DEF WriteInto
    <3>5. QED
      BY <3>2, <3>3, <3>4
  <2>3. CASE Flush(s)
    BY <1>4, <2>3 DEF Flush
  <2>4. CASE WaitKept(s)
    <3>1. CASE Submit(s, "test")
      BY <1>4, <3>1
    <3>2. CASE ~Submit(s, "test")
      BY <1>3, <2>4, <3>2 DEF WaitKept, Places
    <3>3. QED
      BY <3>1, <3>2
  <2>5. QED
    BY <1>10, <2>2, <2>3, <2>4 DEF Call
<1>11. ASSUME NEW s \in Streams, Continue(s) PROVE WrittenInv'
  <2>1. CASE Count(s)
    <3>1. /\ pc[s] = "count" /\ pc' = [pc EXCEPT ![s] = then[s]]
          /\ then' = [then EXCEPT ![s] = "idle"] /\ UNCHANGED written
      BY <2>1 DEF Count
    <3>2. Asking(s)' => Asking(s)
      BY <1>1, <3>1 DEF Asking
    <3>3. QED
      BY <1>1, <1>2, <3>1, <3>2
  <2>2. CASE GetBuf(s)
    <3>1. pc[s] = "get" /\ written[s] < MaxCommands[s]
      BY <2>2 DEF GetBuf, WrittenInv, Asking
    <3>2. /\ written' = [written EXCEPT ![s] = @ + 1] /\ pc' = [pc EXCEPT ![s] = "idle"]
          /\ UNCHANGED then
      BY <2>2 DEF GetBuf, WriteInto
    <3>3. QED
      BY <1>6, <3>1, <3>2
  <2>3. CASE WaitBuf(s)
    BY <1>5, <2>3 DEF WaitBuf, Sleep, Places
  <2>4. CASE TestFence(s)
    <3>1. CASE Passed(fence[s])
      BY <1>3, <2>4, <3>1 DEF TestFence, Places
    <3>2. CASE ~Passed(fence[s])
      BY <1>5, <2>4, <3>2 DEF TestFence, Sleep, Places
    <3>3. QED
      BY <3>1, <3>2
  <2>5. QED
    BY <1>11, <2>1, <2>2, <2>3, <2>4 DEF Continue
<1>12. QED
  BY <1>7, <1>8, <1>9, <1>10, <1>11 DEF Next

\* No buffer is submitted half the range of a counter, nor is the one that is
\* submitted next.
LEMMA FewSubmitted ==
  CounterInv /\ CommandsInv /\ WrittenInv /\ AmountsInv =>
    /\ Inc(submit_count) < Half /\ Inc(done_count) < Half
    /\ \A b \in Bufs :
         /\ submit_counter[b] \in Counters /\ Inc(submit_counter[b]) < Half
         /\ Latching # {} => Inc(Inc(submit_counter[b])) < Half
<1> SUFFICES ASSUME CounterInv, CommandsInv, WrittenInv, AmountsInv
             PROVE  /\ Inc(submit_count) < Half /\ Inc(done_count) < Half
                    /\ \A b \in Bufs :
                         /\ submit_counter[b] \in Counters /\ Inc(submit_counter[b]) < Half
                         /\ Latching # {} => Inc(Inc(submit_counter[b])) < Half
  OBVIOUS
<1> DEFINE N == Cardinality(Piles(Streams, written))
           C == Cardinality(Counting)
           L == Cardinality(Latching)
<1>1. /\ N \in Nat /\ C \in Nat /\ L \in Nat /\ Half \in Nat /\ N < Half /\ Half < Range32
      /\ Range32 \in Nat
  BY FewCommands, ThreadSets, SizesAssumption DEF Range32
<1>2. Latching # {} => L > 0
  BY <1>1, ThreadSets, FS_EmptySet
<1>3. /\ Inc(submit_count) \in Nat /\ Inc(submit_count) + C + L <= N
      /\ \A b \in Bufs : Inc(submit_counter[b]) <= Inc(submit_count) + C
  BY IncSteps DEF AmountsInv, Submitted
<1>4. Inc(submit_count) < Half
  BY <1>1, <1>3
<1>5. Inc(done_count) < Half
  <2>1. Inc(done_count) \in Nat /\ Len(ordered_cmd_buf_que) \in Nat
        /\ Inc(submit_count) + C = Inc(done_count) + Len(ordered_cmd_buf_que)
                                   + (IF running = None THEN 0 ELSE 1)
    BY IncSteps DEF AmountsInv, Submitted
  <2>2. QED
    BY <1>1, <1>3, <2>1
<1> HIDE DEF N, C, L
<1>6. ASSUME NEW b \in Bufs
      PROVE  /\ submit_counter[b] \in Counters /\ Inc(submit_counter[b]) < Half
             /\ Latching # {} => Inc(Inc(submit_counter[b])) < Half
  <2>1. submit_counter[b] \in Counters /\ Inc(submit_counter[b]) \in Nat
    BY IncSteps DEF CounterInv
  <2>2. Inc(submit_counter[b]) + L <= N
    BY <1>1, <1>3, <2>1
  <2>3. Inc(submit_counter[b]) < Half
    BY <1>1, <2>1, <2>2
  <2>4. ASSUME Latching # {} PROVE Inc(Inc(submit_counter[b])) < Half
    <3>1. Inc(submit_counter[b]) + 1 < Half
      BY <1>1, <1>2, <2>1, <2>2, <2>4
    <3>2. Inc(submit_counter[b]) + 1 < Range32
      BY <1>1, <2>1, <3>1
    <3>3. QED
      BY <2>1, <3>1, <3>2, IncSteps
  <2>5. QED
    BY <2>1, <2>3, <2>4
<1>7. QED
  BY <1>4, <1>5, <1>6

\* The same of the state after a step.
LEMMA FewSubmittedNext ==
  (CounterInv /\ CommandsInv /\ WrittenInv /\ AmountsInv)' =>
    (/\ Inc(submit_count) < Half /\ Inc(done_count) < Half
     /\ \A b \in Bufs :
          /\ submit_counter[b] \in Counters /\ Inc(submit_counter[b]) < Half
          /\ Latching # {} => Inc(Inc(submit_counter[b])) < Half)'
BY FewSubmitted, PTL

\* A null fence is young.
LEMMA NullFenceYoung == ASSUME NEW s \in Streams PROVE NullFence(s) \in Young
BY NullFenceType DEF NullFence, Fence, Young

\* A fence of a buffer that is not submitted half the range of a counter.
LEMMA FenceYoung ==
  ASSUME NEW s \in Streams, NEW b \in Bufs, NEW n \in Counters, NEW upto \in Nat, Inc(n) < Half
  PROVE  Fence(s, b, n, upto) \in Young
BY DEF Fence, Fences, Young

\* Every fence that is kept stays young, and new ones are.
LEMMA NextYoung ==
  ASSUME ControlInv, PlacesInv, CounterInv, CounterInv', CommandsInv, CommandsInv', WrittenInv,
         WrittenInv', AmountsInv, AmountsInv', FencesInv, YoungInv, CoreStep
  PROVE  YoungInv'
<1> USE StreamsAssumption
<1> USE DEF buffers, counts, frames, stream, thread, render, history
<1>1. /\ last_fence \in [Streams -> Young] /\ fence \in [Streams -> Young]
      /\ kept \in Young /\ frame_fences \in [0 .. 1 -> Young] /\ num_frames \in 0 .. 1
  BY DEF YoungInv, FencesInv
<1>2. Young' = Young
  BY DEF Young, Fences, Counters, Range32, Inc
<1>3. CASE UNCHANGED <<last_fence, fence, kept, frame_fences>>
  BY <1>1, <1>2, <1>3 DEF YoungInv
<1>4. CASE QuietStep
  <2>1. \A s \in Streams : fence'[s] \in Young
    BY <1>1, <1>4, NullFenceYoung DEF QuietStep
  <2>2. \A i \in 0 .. 1 : frame_fences'[i] \in Young
    BY <1>1, <1>4 DEF QuietStep
  <2>3. fence' \in [Streams -> Young] /\ frame_fences' \in [0 .. 1 -> Young]
    BY <1>4, <2>1, <2>2 DEF QuietStep
  <2>4. QED
    BY <1>1, <1>2, <1>4, <2>3 DEF QuietStep, YoungInv
<1>5. ASSUME NEW s \in Streams, SubmitStep(s) PROVE YoungInv'
  <2> DEFINE b == buf[s]
             f == Fence(s, b, Inc(submit_counter[b]), written[s])
  <2>1. /\ b \in Bufs /\ b # None
        /\ last_fence' = [last_fence EXCEPT ![s] = f]
        /\ UNCHANGED <<kept, frame_fences>>
    BY <1>5 DEF SubmitStep, Submit, ControlInv
  <2>2. s \in Latching
    BY <2>1 DEF Latching
  <2>3. submit_counter[b] \in Counters /\ Inc(Inc(submit_counter[b])) < Half
    BY <2>1, <2>2, FewSubmitted
  <2>4. f \in Young
    BY <2>1, <2>3, IncType, FenceYoung DEF CommandsInv
  <2>5. fence' = [fence EXCEPT ![s] = f] \/ fence' = fence
    <3>1. last_fence'[s] = f
      BY <1>1, <2>1
    <3>2. PICK place \in {"idle", "get", "test", "frame", "flush"} :
            fence' = [fence EXCEPT ![s] = IF place \in {"test", "frame"} THEN last_fence'[s] ELSE @]
      BY <1>5 DEF SubmitStep, Submit
    <3>3. QED
      BY <1>1, <3>1, <3>2
  <2> HIDE DEF f
  <2>6. last_fence' \in [Streams -> Young] /\ fence' \in [Streams -> Young]
    BY <1>1, <2>1, <2>4, <2>5
  <2>7. QED
    BY <1>1, <1>2, <2>1, <2>6 DEF YoungInv
<1>6. ASSUME NEW s \in Streams, WriteStep(s) \/ GetBuf(s) PROVE YoungInv'
  <2>1. PICK b \in Bufs :
          /\ Grow(s, b)
          /\ UNCHANGED kept \/ kept' = Fence(s, b, Inc(submit_counter[b]), written'[s])
    BY <1>6, WritesGrow
  <2>2. buf'[s] # None /\ UNCHANGED <<last_fence, fence, frame_fences, submit_counter>>
    BY <2>1 DEF Grow
  <2>3. Latching' # {}
    BY <2>2 DEF Latching
  <2>4. submit_counter'[b] \in Counters /\ Inc(Inc(submit_counter[b]))' < Half
    BY <2>1, <2>3, FewSubmittedNext
  <2>5. Inc(Inc(submit_counter[b])) < Half
    BY <2>2, <2>4 DEF Inc, Range32
  <2>6. Fence(s, b, Inc(submit_counter[b]), written'[s]) \in Young
    BY <2>1, <2>2, <2>4, <2>5, IncType, FenceYoung DEF CommandsInv
  <2>7. kept' \in Young
    BY <1>1, <2>1, <2>6
  <2>8. QED
    BY <1>1, <1>2, <2>2, <2>7 DEF YoungInv
<1>7. CASE Deque \/ Execute \/ Retire \/ FreeBuf
  BY <1>3, <1>7 DEF Deque, Execute, Retire, FreeBuf
<1>8. QED
  BY <1>4, <1>5, <1>6, <1>7 DEF CoreStep

\* When nobody has a count to make and done_count is not behind, nothing is under
\* way.
LEMMA NothingLeft ==
  ASSUME PlacesInv, CounterInv, CommandsInv, WrittenInv, AmountsInv, Counting = {}, ~Behind
  PROVE  ordered_cmd_buf_que = <<>> /\ running = None
<1>1. Cardinality(Counting) = 0
  BY FS_EmptySet
<1>2. /\ submit_count \in Counters /\ done_count \in Counters
      /\ Inc(submit_count) \in Nat /\ Inc(done_count) \in Nat
      /\ Inc(submit_count) < Half /\ Inc(done_count) < Half
  BY FewSubmitted, IncSteps DEF AmountsInv
<1>3. ~(Inc(done_count) < Inc(submit_count))
  BY <1>2, LessMeans DEF Behind
<1>4. Inc(submit_count) + 0
        = Inc(done_count) + Len(ordered_cmd_buf_que) + (IF running = None THEN 0 ELSE 1)
  BY <1>1 DEF AmountsInv, Submitted
<1>5. Len(ordered_cmd_buf_que) \in Nat /\ (ordered_cmd_buf_que # <<>> => Len(ordered_cmd_buf_que) > 0)
  BY LengthOf DEF PlacesInv
<1>6. QED
  BY <1>2, <1>3, <1>4, <1>5

\* While the device is flushed nobody else goes on, and it is flushed only when
\* nothing was left of what is submitted.
LEMMA NextFlush ==
  ASSUME ControlInv, PlacesInv, CounterInv, CommandsInv, WrittenInv, AmountsInv, FlushInv, [Next]_vars
  PROVE  FlushInv'
<1> USE StreamsAssumption DEF Goto
<1> USE DEF buffers, counts, frames, stream, thread, render, history
<1>1. /\ pc \in [Streams -> Places] /\ then \in [Streams -> {"idle", "get", "test", "frame", "flush"}]
      /\ Flushing => \A s \in Streams \ {Default} : pc[s] = "idle"
      /\ pc[Default] = "flushed" => ordered_cmd_buf_que = <<>> /\ running = None
  BY DEF ControlInv, FlushInv
\* The render thread moves no thread, and finds nothing once the device is flushed.
<1>2. CASE UNCHANGED vars \/ Render
  <2>1. UNCHANGED <<pc, then>>
    BY <1>2 DEF vars, Render, Deque, WaitQueued, Execute, Retire, FreeBuf
  <2>2. ordered_cmd_buf_que = <<>> /\ running = None => UNCHANGED <<ordered_cmd_buf_que, running>>
    BY <1>2 DEF vars, Render, Deque, WaitQueued, Execute, Retire, FreeBuf, PlacesInv
  <2>3. QED
    BY <1>1, <2>1, <2>2 DEF FlushInv, Flushing
\* A thread moves, to no place of a flush.
<1>3. ASSUME NEW s \in Streams, s # Default => ~Flushing,
             \A t \in Streams \ {s} : pc'[t] = pc[t] /\ then'[t] = then[t],
             s = Default => ~Flushing' /\ pc'[Default] # "flushed",
             s # Default => pc[Default] # "flushed"
      PROVE  FlushInv'
  BY <1>1, <1>3 DEF FlushInv, Flushing
<1>4. ASSUME NEW s \in Streams, Idle(s), NEW place \in {"idle", "get", "test", "frame"},
             Submit(s, place)
      PROVE  FlushInv'
  BY <1>1, <1>3, <1>4 DEF Submit, Idle, Flushing
<1>5. ASSUME NEW s \in Streams, s # Default => ~Flushing, NEW place \in {"idle", "get", "test", "frame"},
             pc' = [pc EXCEPT ![s] = place], UNCHANGED then
      PROVE  FlushInv'
  <2>1. CASE s = Default
    <3>1. pc'[Default] = place /\ \A t \in Streams \ {Default} : pc'[t] = pc[t]
      BY <1>1, <1>5, <2>1
    <3>2. Flushing' => Flushing
      BY <1>5, <3>1 DEF Flushing
    <3>3. QED
      BY <1>1, <3>1, <3>2, <1>5 DEF FlushInv
  <2>2. CASE s # Default
    BY <1>1, <1>3, <1>5, <2>2 DEF Flushing
  <2>3. QED
    BY <2>1, <2>2
\* The main thread moves on in its flush.
<1>6. ASSUME Flushing \/ \A s \in Streams \ {Default} : pc[s] = "idle",
             \A t \in Streams \ {Default} : pc'[t] = pc[t],
             pc'[Default] = "flushed" => ordered_cmd_buf_que' = <<>> /\ running' = None
      PROVE  FlushInv'
  BY <1>1, <1>6 DEF FlushInv
<1>7. ASSUME Flushing, pc[Default] # "count", ~Behind
      PROVE  ordered_cmd_buf_que = <<>> /\ running = None
  <2>1. Counting = {}
    BY <1>1, <1>7 DEF Counting
  <2>2. QED
    BY <1>7, <2>1, NothingLeft
<1>8. CASE MainCall
  <2>1. CASE Frame
    <3>1. CASE Submit(Default, "frame")
      BY <1>4, <2>1, <3>1 DEF Frame
    <3>2. CASE ~Submit(Default, "frame")
      BY <1>5, <2>1, <3>2 DEF Frame
    <3>3. QED
      BY <3>1, <3>2
  <2>2. CASE FlushDevice
    <3>1. /\ \A s \in Streams \ {Default} : pc[s] = "idle"
          /\ pc' = [pc EXCEPT ![Default] = "count"] \/ pc' = [pc EXCEPT ![Default] = "flush"]
      BY <2>2 DEF FlushDevice, Submit
    <3>2. QED
      BY <1>1, <1>6, <3>1
  <2>3. QED
    BY <1>8, <2>1, <2>2 DEF MainCall
<1>9. CASE MainContinues
  <2>1. CASE EndFrame
    <3>1. CASE Passed(frame_fences[TailSlot])
      BY <1>5, <2>1, <3>1 DEF EndFrame
    <3>2. CASE ~Passed(frame_fences[TailSlot])
      BY <1>5, <2>1, <3>2 DEF EndFrame, Sleep, SleepAt
    <3>3. QED
      BY <3>1, <3>2
  <2>2. CASE TestDevice
    <3>1. /\ pc[Default] = "flush" /\ UNCHANGED <<ordered_cmd_buf_que, running>>
          /\ pc' = [pc EXCEPT ![Default] = IF Behind THEN "lock" ELSE "flushed"]
      BY <2>2 DEF TestDevice, MainAt
    <3>2. Flushing
      BY <3>1 DEF Flushing
    <3>3. pc'[Default] = "flushed" => ~Behind
      BY <1>1, <3>1
    <3>4. QED
      BY <1>1, <1>6, <1>7, <3>1, <3>2, <3>3
  <2>3. CASE LockDevice
    <3>1. pc[Default] = "lock" /\ pc' = [pc EXCEPT ![Default] = "drain"]
      BY <2>3 DEF LockDevice, SleepAt
    <3>2. Flushing
      BY <3>1 DEF Flushing
    <3>3. QED
      BY <1>1, <1>6, <3>1, <3>2
  <2>4. CASE DrainDevice
    <3>1. /\ pc[Default] = "drain" /\ UNCHANGED <<ordered_cmd_buf_que, running>>
          /\ pc' = [pc EXCEPT ![Default] = IF Behind THEN "drain" ELSE "flushed"]
      <4>1. CASE Behind
        BY <2>4, <4>1 DEF DrainDevice, Sleep, SleepAt
      <4>2. CASE ~Behind
        BY <2>4, <4>2 DEF DrainDevice, MainAt
      <4>3. QED
        BY <4>1, <4>2
    <3>2. Flushing
      BY <3>1 DEF Flushing
    <3>3. pc'[Default] = "flushed" => ~Behind
      BY <1>1, <3>1
    <3>4. QED
      BY <1>1, <1>6, <1>7, <3>1, <3>2, <3>3
  <2>5. CASE Flushed
    <3>1. pc[Default] = "flushed" /\ pc' = [pc EXCEPT ![Default] = "idle"]
      BY <2>5 DEF Flushed, MainAt
    <3>2. Flushing
      BY <3>1 DEF Flushing
    <3>3. QED
      BY <1>1, <1>6, <3>1, <3>2
  <2>6. QED
    BY <1>9, <2>1, <2>2, <2>3, <2>4, <2>5 DEF MainContinues
<1>10. ASSUME NEW s \in Streams, Call(s) PROVE FlushInv'
  <2>1. Idle(s) /\ pc[s] = "idle" /\ (s # Default => ~Flushing)
    BY <1>10 DEF Call, Write, Flush, WaitKept, Idle
  <2>2. CASE \E place \in {"idle", "get", "test", "frame"} : Submit(s, place)
    BY <1>4, <2>1, <2>2
  <2>3. CASE ~ \E place \in {"idle", "get", "test", "frame"} : Submit(s, place)
    <3>1. CASE Write(s)
      <4>1. CASE buf[s] = None
        BY <1>5, <2>1, <2>3, <3>1, <4>1 DEF Write
      <4>2. CASE buf[s] # None
        <5>1. UNCHANGED <<pc, then, ordered_cmd_buf_que, running>>
          BY <2>3, <3>1, <4>2 DEF Write
        <5>2. QED
          BY <1>1, <5>1 DEF FlushInv, Flushing
      <4>3. QED
        BY <4>1, <4>2
    <3>2. CASE Flush(s)
      BY <2>3, <3>2 DEF Flush
    <3>3. CASE WaitKept(s)
      BY <1>5, <2>1, <2>3, <3>3 DEF WaitKept
    <3>4. QED
      BY <1>10, <3>1, <3>2, <3>3 DEF Call
  <2>4. QED
    BY <2>2, <2>3
<1>11. ASSUME NEW s \in Streams, Continue(s) PROVE FlushInv'
  <2>1. pc[s] \in {"count", "get", "test"} /\ (s # Default => ~Flushing)
    BY <1>1, <1>11 DEF Continue, Count, GetBuf, WaitBuf, TestFence
  <2>2. CASE Count(s)
    <3>1. /\ pc[s] = "count" /\ pc' = [pc EXCEPT ![s] = then[s]]
          /\ then' = [then EXCEPT ![s] = "idle"]
      BY <2>2 DEF Count
    <3>2. CASE s = Default /\ then[Default] = "flush"
      <4>1. Flushing
        BY <3>2 DEF Flushing
      <4>2. QED
        BY <1>1, <1>6, <3>1, <3>2, <4>1
    <3>3. CASE s = Default /\ then[Default] # "flush"
      <4>1. pc'[Default] = then[Default] /\ then'[Default] = "idle"
        BY <1>1, <3>1, <3>3
      <4>2. ~Flushing' /\ pc'[Default] # "flushed"
        BY <1>1, <3>3, <4>1 DEF Flushing
      <4>3. QED
        BY <1>1, <1>3, <3>1, <3>3, <4>2
    <3>4. CASE s # Default
      <4>1. pc[Default] # "flushed"
        BY <2>1, <3>4 DEF Flushing
      <4>2. QED
        BY <1>1, <1>3, <2>1, <3>1, <3>4, <4>1
    <3>5. QED
      BY <3>2, <3>3, <3>4
  <2>3. CASE GetBuf(s)
    BY <1>5, <2>1, <2>3 DEF GetBuf
  <2>4. CASE WaitBuf(s)
    BY <1>5, <2>1, <2>4 DEF WaitBuf, Sleep, SleepAt
  <2>5. CASE TestFence(s)
    <3>1. CASE Passed(fence[s])
      BY <1>5, <2>1, <2>5, <3>1 DEF TestFence
    <3>2. CASE ~Passed(fence[s])
      BY <1>5, <2>1, <2>5, <3>2 DEF TestFence, Sleep, SleepAt
    <3>3. QED
      BY <3>1, <3>2
  <2>6. QED
    BY <1>11, <2>2, <2>3, <2>4, <2>5 DEF Continue
<1>12. QED
  BY <1>2, <1>8, <1>9, <1>10, <1>11 DEF Next

\* Only a buffer that is executed is retired, and no further than it was submitted.
LEMMA NextRetireCounter ==
  ASSUME PlacesInv, CounterInv, CoreStep
  PROVE  \/ UNCHANGED retire_counter
         \/ /\ running \in Bufs /\ submit_counter[running] = Inc(retire_counter[running])
            /\ retire_counter' = [retire_counter EXCEPT ![running] = Inc(retire_counter[running])]
<1> USE StreamsAssumption
<1> USE DEF buffers, counts, frames, stream, thread, render, history
<1>1. CASE Retire
  <2>1. /\ rpc = "execute" /\ running \in Bufs
        /\ retire_counter' = [retire_counter EXCEPT ![running] = Inc(retire_counter[running])]
    BY <1>1 DEF Retire, PlacesInv
  <2>2. QED
    BY <2>1 DEF CounterInv, SubmittedBufs
<1>2. CASE ~Retire
  BY <1>2 DEF CoreStep, QuietStep, core, SubmitStep, Submit, WriteStep, GetBuf, Deque, Execute, FreeBuf
<1>3. QED
  BY <1>1, <1>2

\* No buffer is retired half the range of a counter.
LEMMA NextRetired ==
  ASSUME PlacesInv, CounterInv, CommandsInv, WrittenInv, AmountsInv, RetiredInv, CoreStep
  PROVE  RetiredInv'
<1>1. CASE UNCHANGED retire_counter
  BY <1>1 DEF RetiredInv, Inc, Range32
<1>2. CASE /\ running \in Bufs /\ submit_counter[running] = Inc(retire_counter[running])
           /\ retire_counter' = [retire_counter EXCEPT ![running] = Inc(retire_counter[running])]
  <2>1. Inc(submit_counter[running]) < Half
    BY <1>2, FewSubmitted
  <2>2. \A b \in Bufs : Inc(retire_counter'[b]) < Half
    BY <1>2, <2>1 DEF RetiredInv, CounterInv
  <2>3. QED
    BY <2>2 DEF RetiredInv, Inc, Range32
<1>3. QED
  BY <1>1, <1>2, NextRetireCounter

\* A fence that is passed stays passed.
LEMMA PassedStays ==
  ASSUME PlacesInv, CounterInv, CommandsInv, WrittenInv, AmountsInv, RetiredInv,
         CoreStep, NEW f \in Young, Passed(f)
  PROVE  Passed(f)'
<1> DEFINE b == f.cmd_buf
           r == retire_counter[b]
           x == f.counter
<1>1. CASE b = None
  BY <1>1 DEF Passed
<1>2. CASE retire_counter'[b] = r
  BY <1>2 DEF Passed, wrap_is_less, Range32
<1>3. CASE b # None /\ retire_counter'[b] # r
  <2>1. b \in Bufs /\ x \in Counters /\ Inc(x) < Half
    BY <1>3 DEF Young, Fences
  <2>2. submit_counter[b] = Inc(r) /\ retire_counter'[b] = Inc(r)
    BY <1>3, <2>1, NextRetireCounter DEF CounterInv
  <2>3. Inc(Inc(r)) < Half
    BY <2>1, <2>2, FewSubmitted
  <2>4. r \in Counters /\ Inc(r) \in Counters /\ Inc(r) < Half
    BY <2>1, IncType DEF CounterInv, RetiredInv
  <2>5. ~wrap_is_less(r, x)
    BY <1>3 DEF Passed
  <2> HIDE DEF r, x
  <2>6. Inc(r) \in Nat /\ Inc(x) \in Nat /\ Inc(Inc(r)) = Inc(r) + 1
    <3>1. Half \in Nat \ {0} /\ Range32 = 2 * Half
      BY SizesAssumption DEF Range32
    <3>2. Inc(r) \in Nat /\ Inc(x) \in Nat
      BY <2>1, <2>4, IncSteps
    <3>3. Inc(r) + 1 < Range32
      BY <2>4, <3>1, <3>2
    <3>4. QED
      BY <2>4, <3>2, <3>3, IncSteps
  <2>7. ~(Inc(r) < Inc(x))
    BY <2>1, <2>4, <2>5, LessMeans
  <2>8. ~wrap_is_less(Inc(r), x)
    <3>1. ~(Inc(Inc(r)) < Inc(x))
      BY <2>6, <2>7
    <3>2. QED
      BY <2>1, <2>3, <2>4, <3>1, LessMeans
  <2>9. QED
    BY <2>2, <2>8 DEF Passed, wrap_is_less, Range32, x
<1>4. QED
  BY <1>1, <1>2, <1>3

\* The frame before the one that is replaced was waited for.
LEMMA NextFrame ==
  ASSUME ControlInv, PlacesInv, CounterInv, CommandsInv, WrittenInv, AmountsInv, RetiredInv,
         FencesInv, YoungInv, FrameInv, CoreStep, [Next]_vars
  PROVE  FrameInv'
<1> USE StreamsAssumption
<1> USE DEF buffers, counts, frames, stream, thread, render, history
<1>1. num_frames \in 0 .. 1 /\ frame_fences \in [0 .. 1 -> Young]
  BY DEF FencesInv, YoungInv
<1>2. NextSlot = 1 - num_frames /\ TailSlot = num_frames
  BY <1>1 DEF NextSlot, TailSlot, Slot
<1>3. CASE EndFrame /\ Passed(frame_fences[TailSlot])
  <2>1. /\ frame_fences' = [frame_fences EXCEPT ![NextSlot] = fence[Default]]
        /\ num_frames' = NextSlot /\ UNCHANGED retire_counter
    BY <1>3 DEF EndFrame
  <2>2. NextSlot' = num_frames
    <3>1. NextSlot' = 1 - num_frames'
      BY <1>1, <1>2, <2>1 DEF NextSlot, Slot
    <3>2. QED
      BY <1>1, <1>2, <2>1, <3>1
  <2>3. frame_fences'[NextSlot'] = frame_fences[TailSlot]
    BY <1>1, <1>2, <2>1, <2>2
  <2>4. Passed(frame_fences[NextSlot])' <=> Passed(frame_fences[TailSlot])
    BY <2>1, <2>3 DEF Passed, wrap_is_less, Range32
  <2>5. QED
    BY <1>3, <2>4 DEF FrameInv
<1>4. CASE ~(EndFrame /\ Passed(frame_fences[TailSlot]))
  <2>1. UNCHANGED <<frame_fences, num_frames>>
    <3>1. CASE EndFrame
      BY <1>4, <3>1 DEF EndFrame, Sleep, SleepAt
    <3>2. CASE UNCHANGED vars \/ Render
      BY <3>2 DEF vars, Render, Deque, WaitQueued, Execute, Retire, FreeBuf
    <3>3. CASE MainCall
      BY <3>3 DEF MainCall, Frame, FlushDevice, Submit
    <3>4. CASE TestDevice \/ LockDevice \/ DrainDevice \/ Flushed
      BY <3>4 DEF TestDevice, LockDevice, DrainDevice, Flushed, MainAt, Sleep, SleepAt
    <3>5. ASSUME NEW s \in Streams, Call(s) \/ Continue(s) PROVE UNCHANGED <<frame_fences, num_frames>>
      BY <3>5 DEF Call, Continue, Write, Flush, WaitKept, Submit, Count, GetBuf, WaitBuf, TestFence,
                  Sleep, SleepAt
    <3>6. QED
      BY <3>1, <3>2, <3>3, <3>4, <3>5 DEF Next, MainContinues
  <2>2. PICK f \in Young : f = frame_fences[NextSlot]
    BY <1>1, <1>2
  <2>3. Passed(f)
    BY <2>2 DEF FrameInv
  <2>4. Passed(f)'
    BY <2>3, PassedStays
  <2>5. frame_fences'[NextSlot'] = f
    BY <2>1, <2>2 DEF NextSlot, Slot
  <2>6. QED
    BY <2>4, <2>5 DEF FrameInv, Passed, wrap_is_less
<1>5. QED
  BY <1>3, <1>4

BoundInv ==
  /\ IInv
  /\ WrittenInv /\ AmountsInv /\ RetiredInv /\ YoungInv /\ FlushInv /\ FrameInv

\* The invariant holds at first.
LEMMA InitBoundInv == Init => BoundInv
<1> SUFFICES ASSUME Init PROVE BoundInv
  OBVIOUS
<1> USE StreamsAssumption, SizesAssumption
<1>1. IInv /\ AmountsInv
  BY InitIInv, InitAmounts
<1>2. WrittenInv
  BY DEF Init, WrittenInv, Asking
<1>3. RetiredInv
  <2>1. submit_counter = [b \in Bufs |-> Range32 - 1] /\ retire_counter = submit_counter
    BY DEF Init
  <2>2. \A b \in Bufs : Inc(retire_counter[b]) = 0
    <3>1. Range32 \in Nat \ {0}
      BY DEF Range32
    <3>2. QED
      BY <2>1, <3>1 DEF Inc
  <2>3. QED
    BY <2>2 DEF RetiredInv
<1>4. YoungInv
  <2>1. /\ last_fence = [s \in Streams |-> NullFence(s)] /\ fence = last_fence
        /\ kept = NullFence(Default) /\ frame_fences = [i \in 0 .. 1 |-> NullFence(Default)]
    BY DEF Init
  <2>2. QED
    BY <2>1, NullFenceYoung DEF YoungInv
<1>5. FlushInv
  BY DEF Init, FlushInv
<1>6. FrameInv
  <2>1. NextSlot \in 0 .. 1 /\ frame_fences = [i \in 0 .. 1 |-> NullFence(Default)]
    BY DEF Init, NextSlot, Slot
  <2>2. QED
    BY <2>1 DEF FrameInv, Passed, NullFence, Fence
<1>7. QED
  BY <1>1, <1>2, <1>3, <1>4, <1>5, <1>6 DEF BoundInv

\* Every step keeps it.
LEMMA NextBoundInv == BoundInv /\ [Next]_vars => BoundInv'
<1> SUFFICES ASSUME BoundInv, [Next]_vars PROVE BoundInv'
  OBVIOUS
<1>1. /\ ControlInv /\ PlacesInv /\ CounterInv /\ CommandsInv /\ FencesInv
      /\ WrittenInv /\ AmountsInv /\ RetiredInv /\ YoungInv /\ FlushInv /\ FrameInv
  BY DEF BoundInv, IInv
<1>2. CoreStep
  BY <1>1, FencesTyped, NextIsCoreStep
<1>3. IInv'
  BY NextIInv DEF BoundInv
<1>4. WrittenInv' /\ AmountsInv' /\ RetiredInv'
  BY <1>1, <1>2, NextWritten, NextAmounts, NextRetired
<1>5. YoungInv'
  BY <1>1, <1>2, <1>3, <1>4, NextYoung DEF IInv
<1>6. FlushInv' /\ FrameInv'
  BY <1>1, <1>2, NextFlush, NextFrame
<1>7. QED
  BY <1>3, <1>4, <1>5, <1>6 DEF BoundInv

\* Nothing is under way when the device is flushed.
LEMMA BoundedFromInv == BoundInv => FramesBounded
BY DEF BoundInv, FrameInv, FlushInv, FramesBounded, UnderWay

-----------------------------------------------------------------------------
(* The theorems. *)

\* No command buffer is ever lost or in two places: nobody writes into a buffer
\* that the renderer executes (rmain.c).
THEOREM BuffersAreConserved == Spec => []CmdBufsConserved
BY SpecIInv, ConservedFromIInv, PTL

\* Whenever render_check_fence passes a fence that anybody still has, however
\* often the counters of its buffer have wrapped, the commands before it are
\* executed.
THEOREM PassedMeansExecuted == Spec => []FenceMeansExecuted
BY SpecIInv, ExecutedFromIInv, PTL

\* A stream's commands are executed in the order it wrote them, each once, and
\* none is lost, over whichever buffers they are spread and however the streams'
\* submissions mix.
THEOREM CommandsAreConserved == Spec => []CommandsConserved
<1>1. Spec => Init /\ [][Next]_vars
  BY DEF Spec
<1>2. IInv /\ CompleteInv => CommandsConserved
  BY ConservedFromComplete DEF IInv
<1>3. QED
  BY <1>1, <1>2, InitIInv, InitComplete, NextIInvComplete, PTL

\* At most one frame is on its way while the next is submitted, and whoever
\* flushes the device goes on when nothing is left to execute: as long as the
\* streams write fewer commands than half the range of a counter.
THEOREM FramesAreBounded == Spec => []FramesBounded
<1>1. Spec => Init /\ [][Next]_vars
  BY DEF Spec
<1>2. QED
  BY <1>1, InitBoundInv, NextBoundInv, BoundedFromInv, PTL
=============================================================================
