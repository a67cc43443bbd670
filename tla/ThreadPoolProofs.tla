-------------------------- MODULE ThreadPoolProofs --------------------------
(***************************************************************************)
(* Theorems about ThreadPool for any set of workers and any number of      *)
(* slots.                                                                  *)
(***************************************************************************)
EXTENDS ThreadPool, ListLemmas

USE DEF MutexIsFree

\* The list the init loop links is one of slots.
LEMMA InitialFreeType == InitialFree \in Seq(Slots)
BY SizesAssumption DEF InitialFree, Slots

\* The types hold at the start.
LEMMA InitType == Init => TypeOK
<1> SUFFICES ASSUME Init PROVE TypeOK
  OBVIOUS
<1>1. ListsType
  BY InitialFreeType DEF Init, ListsType
<1>2. job \in [Slots -> JobRecord]
  BY DEF Init, JobRecord, Zeroed, CompletionCalls
<1>3. 1 \in Slots
  BY SizesAssumption DEF Slots
<1>4. /\ pc \in [Workers -> {"acquire", "loop", "pick", "waiting", "run_std", "run_ext",
                             "ext_posted", "exited"}]
      /\ cur \in [Workers -> Slots] /\ arg \in [Workers -> Nat]
  BY <1>3 DEF Init
<1>5. /\ mutex \in Workers \cup {NoThread}
      /\ job_id_counter \in Nat /\ busy_counter \in Int /\ called \in Nat
      /\ signalling \subseteq Threads
      /\ mpc \in {"idle", "calls", "status", "drain_again", "drained", "wake_all", "join", "down"}
  BY DEF Init
<1>6. FlagsType
  BY DEF Init, FlagsType
<1>7. QED BY <1>1, <1>2, <1>4, <1>5, <1>6 DEF TypeOK

\* Every step keeps the types of flags, counters and places.
LEMMA FlagsStep == FlagsType /\ [Next]_vars => FlagsType'
<1> SUFFICES ASSUME FlagsType, [Next]_vars PROVE FlagsType'
  OBVIOUS
<1> USE DEF FlagsType, mainVars
<1>1. ASSUME NEW t \in Threads, NEW user, Enqueue(t, user) PROVE FlagsType'
  BY <1>1 DEF Enqueue, EnqueueImpl, EnqueueExhausted
<1>2. ASSUME NEW w \in Workers, WorkerStep(w) \/ SpuriousWake(w) PROVE FlagsType'
  BY <1>2 DEF WorkerStep, Acquire, TestQuit, Dequeue, Wait, PostCompletion, FreeJob,
              EnqueueCompletion, ExtReturn, BackToLoop, SpuriousWake
<1>3. ASSUME NEW t \in Threads, WakeOne(t) PROVE FlagsType'
  BY <1>3 DEF WakeOne
<1>4. CASE MainStep \/ Resume \/ Shutdown
  BY <1>4 DEF MainStep, RunCompletionCallbacks, CallCompletion, ReturnBatch, StatusOfTick,
              StatusOfDrain, DrainAgain, WakeAll, JoinAll, Resume, Shutdown
<1>5. CASE UNCHANGED vars
  BY <1>5 DEF vars
<1>6. QED
  BY <1>1, <1>2, <1>3, <1>4, <1>5 DEF Next, JobEnqueues, MainEnqueues, Threads

\* An enqueue keeps the types.
LEMMA EnqueueType ==
  ASSUME TypeOK, FlagsType', NEW t \in Threads, NEW user \in Nat \cup {NoId}, Enqueue(t, user)
  PROVE  TypeOK'
<1>1. ASSUME NEW front \in BOOLEAN, NEW c \in CompletionCalls, EnqueueImpl(t, front, c, user)
      PROVE  TypeOK'
  <2>1. Head(free) \in Slots /\ free' \in Seq(Slots) /\ queued \in Seq(Slots)
    BY <1>1 DEF EnqueueImpl, TypeOK, ListsType
  <2>2. queued' \in Seq(Slots)
    BY <1>1, <2>1 DEF EnqueueImpl, Insert
  <2>3. ListsType'
    BY <1>1, <2>1, <2>2 DEF EnqueueImpl, TypeOK, ListsType, mainVars
  <2>4. job' \in [Slots -> JobRecord] /\ job_id_counter' \in Nat
    BY <1>1, <2>1 DEF EnqueueImpl, TypeOK, JobRecord
  <2>5. QED BY <1>1, <2>3, <2>4 DEF EnqueueImpl, TypeOK, workerVars, mainVars
<1>2. CASE EnqueueExhausted(t)
  BY <1>2 DEF EnqueueExhausted, TypeOK, ListsType, lists, workerVars, mainVars
<1>3. QED BY <1>1, <1>2 DEF Enqueue, CompletionCalls

\* Every other step keeps the types of the lists.
LEMMA ListsStep ==
  ASSUME TypeOK, [Next]_vars,
         ~ \E t \in Threads, user \in Nat \cup {NoId} : Enqueue(t, user)
  PROVE  ListsType'
<1>1. /\ free \in Seq(Slots) /\ queued \in Seq(Slots)
      /\ completion \in Seq(Slots) /\ batch \in Seq(Slots)
      /\ \A w \in Workers : cur[w] \in Slots
  BY DEF TypeOK, ListsType
<1>2. ASSUME NEW w \in Workers,
             Acquire(w) \/ TestQuit(w) \/ Wait(w) \/ SpuriousWake(w) \/ ExtReturn(w)
      PROVE  ListsType'
  BY <1>1, <1>2 DEF Acquire, TestQuit, Wait, SpuriousWake, ExtReturn, BackToLoop,
                    lists, mainVars, ListsType
<1>3. ASSUME NEW w \in Workers, Dequeue(w) PROVE ListsType'
  BY <1>1, <1>3 DEF Dequeue, mainVars, ListsType
<1>4. ASSUME NEW w \in Workers, PostCompletion(w) \/ EnqueueCompletion(w) PROVE ListsType'
  <2>1. completion' = Append(completion, cur[w])
    BY <1>4 DEF PostCompletion, EnqueueCompletion, Posted
  <2>2. completion' \in Seq(Slots)
    BY <1>1, <2>1
  <2>3. QED
    BY <1>1, <1>4, <2>2 DEF PostCompletion, EnqueueCompletion, BackToLoop, mainVars, ListsType
<1>5. ASSUME NEW w \in Workers, FreeJob(w) PROVE ListsType'
  <2>1. free' \in Seq(Slots)
    BY <1>1, <1>5 DEF FreeJob
  <2>2. QED BY <1>1, <1>5, <2>1 DEF FreeJob, BackToLoop, mainVars, ListsType
<1>6. ASSUME NEW t \in Threads, WakeOne(t) PROVE ListsType'
  BY <1>1, <1>6 DEF WakeOne, lists, mainVars, ListsType
<1>7. CASE RunCompletionCallbacks \/ DrainAgain
  <2>1. batch' = completion /\ completion' = <<>>
    BY <1>7 DEF RunCompletionCallbacks, DrainAgain, DetachCompletions
  <2>2. QED BY <1>1, <1>7, <2>1 DEF RunCompletionCallbacks, DrainAgain, ListsType
<1>8. CASE ReturnBatch
  <2>1. free \o batch \in Seq(Slots)
    BY <1>1
  <2>2. QED BY <1>1, <1>8, <2>1 DEF ReturnBatch, ListsType
<1>9. CASE \/ CallCompletion \/ StatusOfTick \/ StatusOfDrain \/ Resume
           \/ Shutdown \/ WakeAll \/ JoinAll \/ UNCHANGED vars
  BY <1>1, <1>9 DEF CallCompletion, StatusOfTick, StatusOfDrain, Resume, Shutdown, WakeAll,
                    JoinAll, vars, lists, mainVars, ListsType
<1>10. ASSUME NEW w \in Workers, JobEnqueues(w) PROVE FALSE
  BY <1>10 DEF TypeOK, JobEnqueues, Threads
<1>11. ~ MainEnqueues
  BY DEF MainEnqueues, Threads
<1>12. QED
  BY <1>2, <1>3, <1>4, <1>5, <1>6, <1>7, <1>8, <1>9, <1>10, <1>11
     DEF Next, WorkerStep, MainStep

\* Every step keeps the types.
LEMMA StepType == TypeOK /\ [Next]_vars => TypeOK'
<1> SUFFICES ASSUME TypeOK, [Next]_vars PROVE TypeOK'
  OBVIOUS
<1> FlagsType'
  BY FlagsStep DEF TypeOK
<1>1. CASE \E t \in Threads, user \in Nat \cup {NoId} : Enqueue(t, user)
  BY <1>1, EnqueueType
<1>2. CASE ~ \E t \in Threads, user \in Nat \cup {NoId} : Enqueue(t, user)
  <2>1. ListsType'
    BY <1>2, ListsStep
  <2> USE <2>1 DEF TypeOK, workerVars, mainVars
  <2>2. ASSUME NEW w \in Workers,
               \/ Acquire(w) \/ TestQuit(w) \/ Wait(w) \/ SpuriousWake(w)
               \/ ExtReturn(w) \/ PostCompletion(w)
        PROVE  TypeOK'
    BY <2>2 DEF Acquire, TestQuit, Wait, SpuriousWake, ExtReturn, PostCompletion, BackToLoop, LeaveBusy
  <2>3. ASSUME NEW w \in Workers, Dequeue(w) PROVE TypeOK'
    <3> DEFINE s == Head(queued)
               started == [job[s] EXCEPT !.completion_call = "null"]
    <3>1. s \in Slots
      BY <2>3 DEF Dequeue, ListsType
    <3>2. job[s] \in JobRecord /\ started \in JobRecord
      BY <3>1 DEF JobRecord, CompletionCalls
    <3>3. job' = [job EXCEPT ![s] = started] \/ job' = job
      BY <2>3 DEF Dequeue
    <3>4. job' \in [Slots -> JobRecord]
      BY <3>2, <3>3
    <3>5. cur' \in [Workers -> Slots] /\ arg' \in [Workers -> Nat]
      BY <2>3, <3>1, <3>2 DEF Dequeue, JobRecord
    <3>6. QED BY <2>3, <3>4, <3>5 DEF Dequeue
  <2>4. ASSUME NEW w \in Workers, FreeJob(w) PROVE TypeOK'
    <3>1. job' \in [Slots -> JobRecord]
      <4>1. Zeroed \in JobRecord
        BY DEF JobRecord, Zeroed, CompletionCalls
      <4>2. QED BY <2>4, <4>1 DEF FreeJob
    <3>2. QED BY <2>4, <3>1 DEF FreeJob, BackToLoop, LeaveBusy
  <2>5. ASSUME NEW w \in Workers, EnqueueCompletion(w) PROVE TypeOK'
    <3>1. [job[cur[w]] EXCEPT !.completion_call = "callback"] \in JobRecord
      BY DEF JobRecord, CompletionCalls
    <3>2. job' \in [Slots -> JobRecord]
      BY <2>5, <3>1 DEF EnqueueCompletion
    <3>3. QED BY <2>5, <3>2 DEF EnqueueCompletion
  <2>6. ASSUME NEW t \in Threads, WakeOne(t) PROVE TypeOK'
    BY <2>6 DEF WakeOne, Waiting
  <2>7. CASE RunCompletionCallbacks \/ DrainAgain
    BY <2>7 DEF RunCompletionCallbacks, DrainAgain, DetachCompletions
  <2>8. CASE \/ ReturnBatch \/ CallCompletion \/ StatusOfTick \/ StatusOfDrain \/ Resume
             \/ Shutdown \/ WakeAll \/ JoinAll
    BY <2>8 DEF ReturnBatch, CallCompletion, StatusOfTick, StatusOfDrain, Resume, Shutdown,
                WakeAll, JoinAll
  <2>9. CASE UNCHANGED vars
    BY <2>9 DEF vars
  <2>10. ASSUME NEW w \in Workers, JobEnqueues(w) PROVE FALSE
    BY <1>2, <2>10 DEF JobEnqueues, Threads
  <2>11. ~ MainEnqueues
    BY <1>2 DEF MainEnqueues, Threads
  <2>12. QED
    BY <2>2, <2>3, <2>4, <2>5, <2>6, <2>7, <2>8, <2>9, <2>10, <2>11
       DEF Next, WorkerStep, MainStep
<1>3. QED BY <1>1, <1>2

\* The state of the pool keeps its shape, whatever the workers, the slots and the jobs.
THEOREM TypeCorrect == Spec => []TypeOK
BY InitType, StepType, PTL DEF Spec
-----------------------------------------------------------------------------
(***************************************************************************)
(* The drain.  busy_counter is the number of workers inside a job body; a  *)
(* drain that saw it zero with an empty queue, in one critical section,    *)
(* stays quiescent, because only a job body or the main thread enqueues.   *)
(***************************************************************************)
DrainInv == BusyCountsWorkers /\ (PastDrain => queued = <<>> /\ busy_counter = 0)

\* The workers inside a body are finitely many.
LEMMA WorkingSetFinite == IsFiniteSet(WorkingSet) /\ Cardinality(WorkingSet) \in Nat
BY ThreadsAssumption, FS_Subset, FS_CardinalityType DEF WorkingSet

\* A counter of zero means that nobody is inside a body.
LEMMA DrainInvIsQuiescent == DrainInv => DrainedQuiescent
<1> SUFFICES ASSUME DrainInv, PastDrain PROVE queued = <<>> /\ WorkingSet = {}
  BY DEF DrainedQuiescent, WorkingSet
<1> QED
  BY WorkingSetFinite, FS_EmptySet DEF DrainInv, BusyCountsWorkers

\* At the start nobody is inside a body.
LEMMA InitDrainInv == Init => DrainInv
<1> SUFFICES ASSUME Init PROVE DrainInv
  OBVIOUS
<1>1. WorkingSet = {}
  BY DEF Init, WorkingSet, Working, Owns
<1>2. QED BY <1>1, FS_EmptySet DEF Init, DrainInv, BusyCountsWorkers, PastDrain

\* Steps that leave the set of working workers, the counter and the queue alone.
LEMMA QuietStep ==
  ASSUME DrainInv, WorkingSet' = WorkingSet, UNCHANGED <<busy_counter, queued>>,
         PastDrain' => PastDrain
  PROVE  DrainInv'
BY DEF DrainInv, BusyCountsWorkers

\* Nobody enqueues once the drain is past its test.
LEMMA EnqueueDrainInv ==
  ASSUME DrainInv, ~PastDrain, NEW t, NEW user, Enqueue(t, user)
  PROVE  DrainInv'
BY DEF DrainInv, BusyCountsWorkers, PastDrain, WorkingSet, Working, Owns, Enqueue, EnqueueImpl,
       EnqueueExhausted, workerVars, mainVars

\* Every step keeps the counter right and the drained pool quiet.
LEMMA StepDrainInv == TypeOK /\ DrainInv /\ [Next]_vars => DrainInv'
<1> SUFFICES ASSUME TypeOK, DrainInv, [Next]_vars PROVE DrainInv'
  OBVIOUS
<1> USE DEF workerVars, mainVars
<1>1. pc \in [Workers -> {"acquire", "loop", "pick", "waiting", "run_std", "run_ext",
                         "ext_posted", "exited"}] /\ busy_counter \in Int
  BY DEF TypeOK
<1>2. ASSUME NEW w \in Workers, Dequeue(w) PROVE DrainInv'
  <2>1. w \notin WorkingSet /\ WorkingSet' = WorkingSet \cup {w}
    BY <1>1, <1>2 DEF Dequeue, WorkingSet, Working, Owns
  <2>2. Cardinality(WorkingSet') = Cardinality(WorkingSet) + 1
    BY <2>1, WorkingSetFinite, FS_AddElement
  <2>3. ~PastDrain'
    BY <1>2 DEF Dequeue, DrainInv, PastDrain
  <2>4. QED BY <1>2, <2>2, <2>3 DEF Dequeue, DrainInv, BusyCountsWorkers
<1>3. ASSUME NEW w \in Workers, PostCompletion(w) \/ FreeJob(w) \/ ExtReturn(w) PROVE DrainInv'
  <2>1. /\ pc[w] \in {"run_std", "run_ext", "ext_posted"}
        /\ pc' = [pc EXCEPT ![w] = "loop"] /\ busy_counter' = busy_counter - 1
        /\ UNCHANGED <<queued, mpc>>
    BY <1>3 DEF PostCompletion, FreeJob, ExtReturn, BackToLoop, LeaveBusy
  <2>2. w \in WorkingSet /\ WorkingSet' = WorkingSet \ {w}
    BY <1>1, <2>1 DEF WorkingSet, Working, Owns
  <2>3. Cardinality(WorkingSet') = Cardinality(WorkingSet) - 1 /\ Cardinality(WorkingSet) # 0
    BY <2>2, WorkingSetFinite, FS_RemoveElement, FS_EmptySet
  <2>4. QED BY <2>1, <2>3 DEF DrainInv, BusyCountsWorkers, PastDrain
<1>4. ASSUME NEW w \in Workers,
             Acquire(w) \/ TestQuit(w) \/ Wait(w) \/ SpuriousWake(w) \/ EnqueueCompletion(w)
      PROVE  DrainInv'
  <2>1. UNCHANGED <<busy_counter, queued, mpc>>
    BY <1>4 DEF Acquire, TestQuit, Wait, SpuriousWake, EnqueueCompletion, lists
  <2>2. WorkingSet' = WorkingSet
    BY <1>1, <1>4 DEF Acquire, TestQuit, Wait, SpuriousWake, EnqueueCompletion,
                      WorkingSet, Working, Owns
  <2>3. QED BY <2>1, <2>2, QuietStep DEF PastDrain
<1>5. ASSUME NEW w \in Workers, JobEnqueues(w) PROVE DrainInv'
  <2>1. w \in WorkingSet
    BY <1>5 DEF JobEnqueues, WorkingSet, Working, Owns
  <2>2. ~PastDrain
    BY <2>1, WorkingSetFinite, FS_EmptySet DEF DrainInv, BusyCountsWorkers
  <2>3. QED BY <1>5, <2>2, EnqueueDrainInv DEF JobEnqueues
<1>6. ASSUME NEW t \in Threads, WakeOne(t) PROVE DrainInv'
  <2>1. UNCHANGED <<busy_counter, queued, mpc>>
    BY <1>6 DEF WakeOne, lists
  <2>2. WorkingSet' = WorkingSet
    BY <1>1, <1>6 DEF WakeOne, Waiting, WorkingSet, Working, Owns
  <2>3. QED BY <2>1, <2>2, QuietStep DEF PastDrain
<1>7. CASE MainEnqueues
  BY <1>7, EnqueueDrainInv DEF MainEnqueues, PastDrain
<1>8. CASE StatusOfDrain
  <2>1. /\ UNCHANGED <<busy_counter, queued, pc>>
        /\ PastDrain' => queued = <<>> /\ busy_counter = 0
    BY <1>8 DEF StatusOfDrain, lists, Busy, PastDrain
  <2>2. QED BY <2>1 DEF DrainInv, BusyCountsWorkers, WorkingSet, Working, Owns
<1>9. CASE \/ RunCompletionCallbacks \/ CallCompletion \/ ReturnBatch \/ StatusOfTick
           \/ DrainAgain \/ Resume \/ Shutdown \/ JoinAll \/ UNCHANGED vars
  <2>1. UNCHANGED <<busy_counter, queued, pc>> /\ (PastDrain' => PastDrain)
    BY <1>9 DEF RunCompletionCallbacks, CallCompletion, ReturnBatch, StatusOfTick, DrainAgain,
                DetachCompletions, Resume, Shutdown, JoinAll, vars, lists, PastDrain
  <2>2. QED BY <2>1, QuietStep DEF WorkingSet, Working, Owns
<1>10. CASE WakeAll
  <2>1. UNCHANGED <<busy_counter, queued>> /\ (PastDrain' => PastDrain)
    BY <1>10 DEF WakeAll, lists, PastDrain
  <2>2. WorkingSet' = WorkingSet
    BY <1>1, <1>10 DEF WakeAll, WorkingSet, Working, Owns
  <2>3. QED BY <2>1, <2>2, QuietStep
<1>11. QED
  BY <1>2, <1>3, <1>4, <1>5, <1>6, <1>7, <1>8, <1>9, <1>10 DEF Next, WorkerStep, MainStep

\* busy_counter is exact, for any number of workers, slots and jobs.
THEOREM BusyCorrect == Spec => []BusyCountsWorkers
<1>1. DrainInv => BusyCountsWorkers
  BY DEF DrainInv
<1>2. QED BY <1>1, InitDrainInv, StepDrainInv, TypeCorrect, PTL DEF Spec

(***************************************************************************)
(* When thread_pool_drain returns, and from there to the end of            *)
(* thread_pool_shutdown, no job is queued and no job body runs.            *)
(***************************************************************************)
THEOREM DrainCorrect == Spec => []DrainedQuiescent
BY DrainInvIsQuiescent, InitDrainInv, StepDrainInv, TypeCorrect, PTL DEF Spec

\* The assertion of thread_pool_shutdown holds: nothing is left in its queue.
THEOREM ShutdownAssertion == Spec => []NoJobQueuedAtShutdown
<1>1. DrainedQuiescent => NoJobQueuedAtShutdown
  BY DEF DrainedQuiescent, PastDrain, NoJobQueuedAtShutdown
<1>2. QED BY <1>1, DrainCorrect, PTL
-----------------------------------------------------------------------------
(* The slots: in one list, once, or with one worker. *)

Owners == {w \in Workers : Owns(w)}

\* Where the slots are, list by list; the batch is the main thread's between
\* the detachment and the return of the batch only.
SlotsInv ==
  /\ IsInjective(free) /\ IsInjective(queued) /\ IsInjective(completion) /\ IsInjective(batch)
  /\ Range(free) \cap Range(queued) = {} /\ Range(free) \cap Range(completion) = {}
  /\ Range(free) \cap Range(batch) = {} /\ Range(queued) \cap Range(completion) = {}
  /\ Range(queued) \cap Range(batch) = {} /\ Range(completion) \cap Range(batch) = {}
  /\ \A w \in Owners :
       /\ cur[w] \notin Range(free) \cup Range(queued) \cup Range(completion) \cup Range(batch)
       /\ job[cur[w]].id = arg[w]
  /\ \A v, w \in Owners : cur[v] = cur[w] => v = w
  /\ Len(free) + Len(queued) + Len(completion) + Len(batch) + Cardinality(Owners)
       = Len(InitialFree)
  /\ called <= Len(batch) /\ (mpc # "calls" => batch = <<>> /\ called = 0)

\* Slots whose job is not over, and those and the slots whose callback is to be called.
Active == Range(queued) \cup {cur[w] : w \in Owners}
Live == Active \cup Range(Pending)

(***************************************************************************)
(* A job whose continuation was enqueued is not active any more: it posted *)
(* its completion before.  That is why the continuation's completion comes *)
(* behind it, or after it was called.                                      *)
(***************************************************************************)
LineageInv ==
  /\ job_id_counter <= MaxEnqueues
  /\ \A s \in Live : job[s].id < job_id_counter /\ job[s].user < job_id_counter
  /\ \A s, t \in Live : job[s].id = job[t].id => s = t
  /\ \A s \in Live, t \in Active : job[s].user # job[t].id
  /\ \A w \in Workers : pc[w] = "ext_posted" =>
       arg[w] < job_id_counter /\ \A t \in Active : job[t].id # arg[w]
  /\ CompletionsInJobOrder

\* The workers that have a slot are finitely many.
LEMMA OwnersFinite == IsFiniteSet(Owners) /\ Cardinality(Owners) \in Nat
BY ThreadsAssumption, FS_Subset, FS_CardinalityType DEF Owners

\* What a worker that starts or ends a job does to their number.
LEMMA OwnersMove ==
  ASSUME TypeOK, NEW w \in Workers, NEW l, pc' = [pc EXCEPT ![w] = l]
  PROVE  /\ l \in {"run_std", "run_ext"} /\ ~Owns(w) =>
              Owners' = Owners \cup {w} /\ Cardinality(Owners') = Cardinality(Owners) + 1
         /\ l \notin {"run_std", "run_ext"} /\ Owns(w) =>
              Owners' = Owners \ {w} /\ Cardinality(Owners') = Cardinality(Owners) - 1
         /\ l \notin {"run_std", "run_ext"} /\ ~Owns(w) => Owners' = Owners
<1>1. pc \in [Workers -> {"acquire", "loop", "pick", "waiting", "run_std", "run_ext",
                         "ext_posted", "exited"}]
  BY DEF TypeOK
<1>2. /\ l \in {"run_std", "run_ext"} /\ ~Owns(w) => Owners' = Owners \cup {w}
      /\ l \notin {"run_std", "run_ext"} /\ Owns(w) => Owners' = Owners \ {w}
      /\ l \notin {"run_std", "run_ext"} /\ ~Owns(w) => Owners' = Owners
  BY <1>1 DEF Owners, Owns
<1>3. /\ w \notin Owners => Cardinality(Owners \cup {w}) = Cardinality(Owners) + 1
      /\ w \in Owners => Cardinality(Owners \ {w}) = Cardinality(Owners) - 1
  BY OwnersFinite, FS_AddElement, FS_RemoveElement
<1>4. w \in Owners <=> Owns(w)
  BY DEF Owners
<1>5. QED
  BY <1>2, <1>3, <1>4

\* The slots before the first job.
LEMMA InitSlots == Init => SlotsInv
<1> SUFFICES ASSUME Init PROVE SlotsInv
  OBVIOUS
<1>1. Owners = {} /\ Cardinality(Owners) = 0
  BY FS_EmptySet DEF Init, Owners, Owns
<1>2. IsInjective(InitialFree)
  BY SizesAssumption DEF InitialFree, IsInjective
<1>3. Len(<<>>) = 0 /\ Len(InitialFree) \in Nat
  BY InitialFreeType
<1>4. QED
  BY <1>1, <1>2, <1>3, EmptyList DEF Init, SlotsInv

\* A step that touches no list and no slot.
LEMMA SlotsStay ==
  ASSUME SlotsInv, UNCHANGED <<free, queued, completion, batch, job, cur, arg>>,
         Owners' = Owners, called' <= Len(batch),
         mpc' # "calls" => batch = <<>> /\ called' = 0
  PROVE  SlotsInv'
BY DEF SlotsInv

\* The lists are sequences of slots.
LEMMA ListTypes ==
  ASSUME TypeOK
  PROVE  /\ free \in Seq(Slots) /\ queued \in Seq(Slots)
         /\ completion \in Seq(Slots) /\ batch \in Seq(Slots)
         /\ {Len(free), Len(queued), Len(completion), Len(batch), Len(InitialFree),
             Cardinality(Owners), called} \subseteq Nat
         /\ Range(free) \subseteq Slots /\ Range(queued) \subseteq Slots
         /\ Range(completion) \subseteq Slots /\ Range(batch) \subseteq Slots
         /\ \A w \in Workers : cur[w] \in Slots
BY OwnersFinite, InitialFreeType, MembersOf DEF TypeOK, ListsType

\* The first free slot enters the queue.
LEMMA EnqueueSlots ==
  ASSUME TypeOK, SlotsInv, NEW t, NEW front \in BOOLEAN, NEW c, NEW user,
         EnqueueImpl(t, front, c, user)
  PROVE  /\ SlotsInv'
         /\ Head(free) \in Slots /\ Head(free) \notin Active /\ Head(free) \notin Range(batch)
         /\ Head(free) \notin Range(completion)
         /\ Range(queued') = Range(queued) \cup {Head(free)}
<1> DEFINE s == Head(free)
<1>1. /\ free # <<>> /\ free' = Tail(free) /\ queued' = Insert(queued, s, front)
      /\ job' = [job EXCEPT ![s] = [id |-> job_id_counter, completion_call |-> c, user |-> user]]
      /\ UNCHANGED <<completion, batch, called, mpc, pc, cur, arg>>
  BY DEF EnqueueImpl, workerVars, mainVars
<1>2. /\ s \in Slots /\ Tail(free) \in Seq(Slots) /\ IsInjective(Tail(free))
      /\ Range(free) = {s} \cup Range(Tail(free)) /\ s \notin Range(Tail(free))
      /\ Len(Tail(free)) = Len(free) - 1
  BY <1>1, ListTypes, TailOf, LengthOf DEF SlotsInv
<1>3. s \notin Range(queued) /\ s \notin Range(completion) /\ s \notin Range(batch)
      /\ \A w \in Owners : cur[w] # s
  BY <1>2 DEF SlotsInv
<1>4. /\ IsInjective(queued') /\ Range(queued') = Range(queued) \cup {s}
      /\ Len(queued') = Len(queued) + 1
  <2>1. CASE front
    BY <1>1, <1>2, <1>3, <2>1, ListTypes, PrependOf, LengthOf DEF Insert, SlotsInv
  <2>2. CASE ~front
    BY <1>1, <1>2, <1>3, <2>2, ListTypes, AppendOf, LengthOf DEF Insert, SlotsInv
  <2>3. QED
    BY <2>1, <2>2
<1>5. Owners' = Owners
  BY <1>1 DEF Owners, Owns
<1>6. \A w \in Owners : job'[cur[w]] = job[cur[w]]
  <2>1. \A x \in Slots : x # s => job'[x] = job[x]
    BY <1>1 DEF TypeOK
  <2>2. QED
    BY <2>1, <1>3, ListTypes DEF Owners
<1> HIDE DEF s
<1>7. SlotsInv'
  BY <1>1, <1>2, <1>3, <1>4, <1>5, <1>6, ListTypes DEF SlotsInv
<1>8. QED
  BY <1>2, <1>3, <1>4, <1>7 DEF Active, s

\* The mark of a completion is no part of what identifies a job.
LEMMA MarkKeepsIds ==
  ASSUME TypeOK, NEW s \in Slots, NEW c,
         job' = [job EXCEPT ![s].completion_call = c] \/ job' = job
  PROVE  \A x \in Slots : job'[x].id = job[x].id /\ job'[x].user = job[x].user
<1>1. job \in [Slots -> JobRecord]
  BY DEF TypeOK
<1>2. ASSUME NEW x \in Slots
      PROVE  job'[x] = job[x] \/ job'[x] = [job[x] EXCEPT !.completion_call = c]
  BY <1>1
<1>3. QED
  BY <1>1, <1>2 DEF JobRecord

\* The first job of the queue starts.
LEMMA DequeueSlots ==
  ASSUME TypeOK, SlotsInv, NEW w \in Workers, Dequeue(w)
  PROVE  SlotsInv' /\ Active' = Active
<1> DEFINE s == Head(queued)
<1>1. /\ pc[w] = "pick" /\ queued # <<>> /\ queued' = Tail(queued)
      /\ cur' = [cur EXCEPT ![w] = s] /\ arg' = [arg EXCEPT ![w] = job[s].id]
      /\ \E l \in {"run_std", "run_ext"} : pc' = [pc EXCEPT ![w] = l]
      /\ job' = [job EXCEPT ![s].completion_call = "null"] \/ job' = job
      /\ UNCHANGED <<free, completion, batch, called, mpc>>
  BY DEF Dequeue, mainVars
<1>2. /\ s \in Slots /\ Tail(queued) \in Seq(Slots) /\ IsInjective(Tail(queued))
      /\ Range(queued) = {s} \cup Range(Tail(queued)) /\ s \notin Range(Tail(queued))
      /\ Len(Tail(queued)) = Len(queued) - 1
  BY <1>1, ListTypes, TailOf, LengthOf DEF SlotsInv
<1>3. s \notin Range(free) /\ s \notin Range(completion) /\ s \notin Range(batch)
      /\ \A v \in Owners : cur[v] # s
  BY <1>2 DEF SlotsInv
<1>4. Owners' = Owners \cup {w} /\ Cardinality(Owners') = Cardinality(Owners) + 1 /\ w \notin Owners
  BY <1>1, OwnersMove DEF Owns, Owners
<1>5. \A x \in Slots : job'[x].id = job[x].id
  BY <1>1, <1>2, MarkKeepsIds
<1>6. cur'[w] = s /\ arg'[w] = job[s].id
      /\ \A v \in Owners : cur'[v] = cur[v] /\ arg'[v] = arg[v]
  BY <1>1, <1>4 DEF TypeOK, Owners
<1> HIDE DEF s
<1>7. \A v \in Owners' : job'[cur'[v]].id = arg'[v]
  BY <1>2, <1>4, <1>5, <1>6, ListTypes, SMTT(30) DEF SlotsInv, Owners
<1>8. SlotsInv'
  BY <1>1, <1>2, <1>3, <1>4, <1>6, <1>7, ListTypes, SMTT(30) DEF SlotsInv
<1>9. Active' = Active
  BY <1>1, <1>2, <1>4, <1>6 DEF Active
<1>10. QED
  BY <1>8, <1>9

\* The completion of a job is posted.
LEMMA PostSlots ==
  ASSUME TypeOK, SlotsInv, NEW w \in Workers, PostCompletion(w) \/ EnqueueCompletion(w)
  PROVE  SlotsInv' /\ w \in Owners /\ Owners' = Owners \ {w} /\ Active' = Active \ {cur[w]}
<1>1. /\ Owns(w) /\ completion' = Append(completion, cur[w])
      /\ \E l \in {"loop", "ext_posted"} : pc' = [pc EXCEPT ![w] = l]
      /\ job' = [job EXCEPT ![cur[w]].completion_call = "callback"] \/ job' = job
      /\ UNCHANGED <<free, queued, batch, called, mpc, cur, arg>>
  BY DEF PostCompletion, EnqueueCompletion, BackToLoop, Posted, Owns, mainVars
<1>2. /\ w \in Owners /\ Owners' = Owners \ {w} /\ Cardinality(Owners') = Cardinality(Owners) - 1
  BY <1>1, OwnersMove DEF Owners
<1>3. cur[w] \in Slots /\ cur[w] \notin Range(free) /\ cur[w] \notin Range(queued)
      /\ cur[w] \notin Range(completion) /\ cur[w] \notin Range(batch)
  BY <1>2, ListTypes DEF SlotsInv
<1>4. /\ IsInjective(completion') /\ Range(completion') = Range(completion) \cup {cur[w]}
      /\ Len(completion') = Len(completion) + 1
  BY <1>1, <1>3, ListTypes, AppendOf, LengthOf DEF SlotsInv
<1>5. \A x \in Slots : job'[x].id = job[x].id
  BY <1>1, <1>3, MarkKeepsIds
<1>6. \A v \in Owners' : v \in Owners /\ cur[v] # cur[w] /\ job'[cur[v]].id = arg[v]
  BY <1>2, <1>5, ListTypes DEF SlotsInv, Owners
<1>7. SlotsInv'
  BY <1>1, <1>2, <1>3, <1>4, <1>6, ListTypes, SMTT(30) DEF SlotsInv
<1>8. Active' = Active \ {cur[w]}
  BY <1>1, <1>2, <1>3, <1>6 DEF Active
<1>9. QED
  BY <1>2, <1>7, <1>8

\* A job without completion is over.
LEMMA FreeSlots ==
  ASSUME TypeOK, SlotsInv, NEW w \in Workers, FreeJob(w)
  PROVE  SlotsInv' /\ w \in Owners /\ Owners' = Owners \ {w} /\ Active' = Active \ {cur[w]}
<1>1. /\ Owns(w) /\ free' = Append(free, cur[w]) 
      /\ \E l \in {"loop"} : pc' = [pc EXCEPT ![w] = l]
      /\ job' = [job EXCEPT ![cur[w]] = Zeroed]
      /\ UNCHANGED <<completion, queued, batch, called, mpc, cur, arg>>
  BY DEF FreeJob, BackToLoop, Owns, mainVars
<1>2. /\ w \in Owners /\ Owners' = Owners \ {w} /\ Cardinality(Owners') = Cardinality(Owners) - 1
  BY <1>1, OwnersMove DEF Owners
<1>3. cur[w] \in Slots /\ cur[w] \notin Range(free) /\ cur[w] \notin Range(queued)
      /\ cur[w] \notin Range(completion) /\ cur[w] \notin Range(batch)
  BY <1>2, ListTypes DEF SlotsInv
<1>4. /\ IsInjective(free') /\ Range(free') = Range(free) \cup {cur[w]}
      /\ Len(free') = Len(free) + 1
  BY <1>1, <1>3, ListTypes, AppendOf, LengthOf DEF SlotsInv
<1>5. \A x \in Slots : x # cur[w] => job'[x] = job[x]
  BY <1>1 DEF TypeOK
<1>6. \A v \in Owners' : v \in Owners /\ cur[v] # cur[w] /\ job'[cur[v]].id = arg[v]
  BY <1>2, <1>5, ListTypes DEF SlotsInv, Owners
<1>7. SlotsInv'
  BY <1>1, <1>2, <1>3, <1>4, <1>6, ListTypes, SMTT(30) DEF SlotsInv
<1>8. Active' = Active \ {cur[w]}
  BY <1>1, <1>2, <1>3, <1>6 DEF Active
<1>9. QED
  BY <1>2, <1>7, <1>8

\* The completion list is detached: nothing of an earlier batch is left.
LEMMA DetachSlots ==
  ASSUME TypeOK, SlotsInv, RunCompletionCallbacks \/ DrainAgain
  PROVE  SlotsInv' /\ Active' = Active
<1>1. /\ mpc # "calls" /\ batch' = completion /\ completion' = <<>> /\ called' = 0
      /\ mpc' = (IF completion = <<>> THEN "status" ELSE "calls")
      /\ UNCHANGED <<free, queued, job, pc, cur, arg>>
  BY DEF RunCompletionCallbacks, DrainAgain, DetachCompletions, workerVars
<1>2. Owners' = Owners /\ batch = <<>> /\ Len(<<>>) = 0
  BY <1>1 DEF Owners, Owns, SlotsInv
<1>3. SlotsInv'
  BY <1>1, <1>2, ListTypes, EmptyList DEF SlotsInv
<1>4. QED
  BY <1>1, <1>2, <1>3 DEF Active

\* The batch goes back to the free list.
LEMMA ReturnSlots ==
  ASSUME TypeOK, SlotsInv, ReturnBatch
  PROVE  SlotsInv' /\ Active' = Active
<1>1. /\ free' = free \o batch /\ batch' = <<>> /\ called' = 0 /\ mpc' # "calls"
      /\ UNCHANGED <<queued, completion, job, pc, cur, arg>>
  BY DEF ReturnBatch, workerVars
<1>2. /\ IsInjective(free') /\ Range(free') = Range(free) \cup Range(batch)
      /\ Len(free') = Len(free) + Len(batch)
  BY <1>1, ListTypes, ConcatOf DEF SlotsInv
<1>3. Owners' = Owners /\ Len(<<>>) = 0
  BY <1>1 DEF Owners, Owns
<1>4. SlotsInv'
  BY <1>1, <1>2, <1>3, ListTypes, EmptyList DEF SlotsInv
<1>5. QED
  BY <1>1, <1>3, <1>4 DEF Active
\* What a step does that moves no slot.
LEMMA QuietSlots ==
  ASSUME TypeOK, SlotsInv, UNCHANGED <<lists, job, cur, arg, batch>>,
         Owners' = Owners, called' <= Len(batch),
         mpc' # "calls" => batch = <<>> /\ called' = 0
  PROVE  SlotsInv' /\ Active' = Active
BY SlotsStay DEF lists, Active

\* A step moves slots in one of the seven ways above, or none.
LEMMA StepKinds ==
  ASSUME TypeOK, SlotsInv, [Next]_vars
  PROVE  \/ \E t \in Threads, user \in Nat \cup {NoId}, front \in BOOLEAN, c \in CompletionCalls :
              /\ EnqueueImpl(t, front, c, user)
              /\ user = NoId \/ (t \in Workers /\ pc[t] = "ext_posted" /\ user = arg[t])
         \/ \E w \in Workers : \/ Dequeue(w) \/ PostCompletion(w) \/ EnqueueCompletion(w)
                               \/ FreeJob(w)
         \/ RunCompletionCallbacks \/ DrainAgain \/ ReturnBatch \/ CallCompletion
         \/ /\ UNCHANGED <<lists, job, job_id_counter, cur, arg, batch, called>>
            /\ Owners' = Owners /\ (mpc' = "calls" <=> mpc = "calls")
            /\ \A w \in Workers : pc'[w] = "ext_posted" => pc[w] = "ext_posted"
<1> DEFINE Quiet == /\ UNCHANGED <<lists, job, job_id_counter, cur, arg, batch, called>>
                    /\ Owners' = Owners /\ (mpc' = "calls" <=> mpc = "calls")
                    /\ \A w \in Workers : pc'[w] = "ext_posted" => pc[w] = "ext_posted"
           Enter == \E t \in Threads, user \in Nat \cup {NoId}, front \in BOOLEAN,
                       c \in CompletionCalls :
                      /\ EnqueueImpl(t, front, c, user)
                      /\ user = NoId \/ (t \in Workers /\ pc[t] = "ext_posted" /\ user = arg[t])
<1>1. \A w \in Workers : arg[w] \in Nat
  BY DEF TypeOK
<1>2. ASSUME NEW t \in Threads, NEW user \in Nat \cup {NoId}, Enqueue(t, user),
             user = NoId \/ (t \in Workers /\ pc[t] = "ext_posted" /\ user = arg[t])
      PROVE  Enter \/ Quiet
  <2>1. CASE \E front \in BOOLEAN, c \in {"null", "callback"} : EnqueueImpl(t, front, c, user)
    BY <1>2, <2>1 DEF CompletionCalls
  <2>2. CASE EnqueueImpl(t, FALSE, "ext_placeholder", user)
    BY <1>2, <2>2 DEF CompletionCalls
  <2>3. CASE EnqueueExhausted(t)
    BY <2>3 DEF EnqueueExhausted, workerVars, mainVars, Owners, Owns
  <2>4. QED
    BY <1>2, <2>1, <2>2, <2>3 DEF Enqueue
<1>3. CASE MainEnqueues
  BY <1>2, <1>3 DEF MainEnqueues, Threads
<1>4. ASSUME NEW w \in Workers, JobEnqueues(w) PROVE Enter \/ Quiet
  <2>1. PICK user \in {NoId} \cup (IF pc[w] = "ext_posted" THEN {arg[w]} ELSE {}) :
          Enqueue(w, user)
    BY <1>4 DEF JobEnqueues
  <2>2. user \in Nat \cup {NoId} /\ (user = NoId \/ (pc[w] = "ext_posted" /\ user = arg[w]))
    BY <1>1, <2>1
  <2>3. QED
    BY <1>2, <2>1, <2>2 DEF Threads
<1>5. ASSUME NEW w \in Workers, Acquire(w) \/ TestQuit(w) \/ Wait(w) \/ SpuriousWake(w) \/ ExtReturn(w)
      PROVE  Quiet
  <2>1. /\ UNCHANGED <<lists, job, job_id_counter, cur, arg, batch, called, mpc>>
        /\ \E l \in {"loop", "exited", "pick", "waiting", "acquire"} : pc' = [pc EXCEPT ![w] = l]
        /\ ~Owns(w)
    BY <1>5 DEF Acquire, TestQuit, Wait, SpuriousWake, ExtReturn, BackToLoop, mainVars, lists, Owns
  <2>2. QED
    BY <2>1, OwnersMove DEF TypeOK
<1>6. ASSUME NEW t \in Threads, WakeOne(t) PROVE Quiet
  <2>1. /\ UNCHANGED <<lists, job, job_id_counter, cur, arg, batch, called, mpc>>
        /\ UNCHANGED pc \/ \E w \in Workers : pc[w] = "waiting" /\ pc' = [pc EXCEPT ![w] = "acquire"]
    BY <1>6 DEF WakeOne, Waiting, mainVars
  <2>2. QED
    BY <2>1 DEF TypeOK, Owners, Owns
<1>7. CASE StatusOfTick \/ StatusOfDrain \/ Resume \/ Shutdown \/ JoinAll
  BY <1>7 DEF StatusOfTick, StatusOfDrain, Resume, Shutdown, JoinAll, workerVars, Owners, Owns
<1>8. CASE WakeAll
  BY <1>8 DEF WakeAll, Owners, Owns, TypeOK
<1>9. CASE UNCHANGED vars
  BY <1>9 DEF vars, workerVars, mainVars, Owners, Owns
<1>10. QED
  BY <1>3, <1>4, <1>5, <1>6, <1>7, <1>8, <1>9 DEF Next, WorkerStep, MainStep

\* A callback of the batch is called.
LEMMA CallSlots ==
  ASSUME TypeOK, SlotsInv, CallCompletion
  PROVE  SlotsInv' /\ Active' = Active
<1>1. /\ UNCHANGED <<lists, job, cur, arg, batch, mpc>> /\ Owners' = Owners
      /\ mpc = "calls" /\ called < Len(batch) /\ called' = called + 1
  BY DEF CallCompletion, workerVars, Owners, Owns
<1>2. called' <= Len(batch)
  BY <1>1, ListTypes
<1>3. QED
  BY <1>1, <1>2, QuietSlots

\* Every step keeps the slots where SlotsInv says.
LEMMA NextSlots == TypeOK /\ SlotsInv /\ [Next]_vars => SlotsInv'
<1> SUFFICES ASSUME TypeOK, SlotsInv, [Next]_vars PROVE SlotsInv'
  OBVIOUS
<1>1. ASSUME UNCHANGED <<lists, job, job_id_counter, cur, arg, batch, called>>, Owners' = Owners,
             mpc' = "calls" <=> mpc = "calls"
      PROVE  SlotsInv'
  BY <1>1, QuietSlots DEF SlotsInv
<1>2. QED
  BY <1>1, StepKinds, EnqueueSlots, DequeueSlots, PostSlots, FreeSlots, DetachSlots, ReturnSlots,
     CallSlots

\* The types and the invariant of the slots hold for ever.
LEMMA SlotsAlways == Spec => [](TypeOK /\ SlotsInv)
BY TypeCorrect, InitSlots, NextSlots, PTL DEF Spec

(***************************************************************************)
(* No slot of the pool is lost, linked twice or rewritten under a worker,  *)
(* however many workers, extended jobs, continuations, drains and callbacks*)
(* interleave.                                                             *)
(***************************************************************************)
THEOREM SlotsConserved == Spec => []SlotConservation
<1>1. ASSUME TypeOK, SlotsInv PROVE SlotConservation
  <2> DEFINE fq == free \o queued
             fqc == fq \o completion
  <2>1. /\ fq \in Seq(Slots) /\ IsInjective(fq) /\ Range(fq) = Range(free) \cup Range(queued)
        /\ Len(fq) = Len(free) + Len(queued)
    BY <1>1, ListTypes, ConcatOf DEF SlotsInv
  <2> HIDE DEF fq
  <2>2. Range(fq) \cap Range(completion) = {}
    BY <1>1, <2>1 DEF SlotsInv
  <2>3. /\ fqc \in Seq(Slots) /\ IsInjective(fqc)
        /\ Range(fqc) = Range(fq) \cup Range(completion)
        /\ Len(fqc) = Len(fq) + Len(completion)
    BY <1>1, <2>1, <2>2, ListTypes, ConcatOf, SMTT(30) DEF SlotsInv
  <2> HIDE DEF fqc
  <2>4. Range(fqc) \cap Range(batch) = {}
    BY <1>1, <2>1, <2>3 DEF SlotsInv
  <2>5. /\ IsInjective(fqc \o batch)
        /\ Range(fqc \o batch) = Range(fqc) \cup Range(batch)
        /\ Len(fqc \o batch) = Len(fqc) + Len(batch)
    <3>1. batch \in Seq(Slots) /\ IsInjective(batch)
      BY <1>1, ListTypes DEF SlotsInv
    <3>2. QED
      BY <2>3, <2>4, <3>1, ConcatOf
  <2>6. Range(fqc \o batch) = Range(free) \cup Range(queued) \cup Range(completion) \cup Range(batch)
    BY <2>1, <2>3, <2>5
  <2>7. Len(fqc \o batch) + Cardinality(Owners) = Len(InitialFree)
    BY <1>1, <2>1, <2>3, <2>5, ListTypes DEF SlotsInv
  <2>8. fqc \o batch = free \o queued \o completion \o batch
    BY DEF fq, fqc
  <2>9. QED
    BY <1>1, <2>5, <2>6, <2>7, <2>8 DEF SlotConservation, SlotsInv, Owners
<1>2. QED
  BY <1>1, SlotsAlways, PTL
-----------------------------------------------------------------------------
(* The completions of jobs and their continuations. *)

\* The callbacks to be called are slots of the batch and of the completion list.
LEMMA PendingOf ==
  ASSUME TypeOK, SlotsInv
  PROVE  /\ Pending \in Seq(Slots) /\ IsInjective(Pending)
         /\ Range(Pending) \subseteq Range(batch) \cup Range(completion)
         /\ Live \subseteq Slots /\ Active \subseteq Live
<1> DEFINE r == SubSeq(batch, called + 1, Len(batch))
<1>1. called \in 0 .. Len(batch) /\ batch \in Seq(Slots) /\ IsInjective(batch)
      /\ completion \in Seq(Slots) /\ IsInjective(completion)
  BY ListTypes DEF SlotsInv
<1>2. r \in Seq(Slots) /\ IsInjective(r) /\ Range(r) \subseteq Range(batch)
  <2>1. /\ r \in Seq(Slots) /\ IsInjective(r)
        /\ Range(batch) = Range(SubSeq(batch, 1, called)) \cup Range(r)
    BY <1>1, CutOf, Zenon
  <2>2. QED
    BY <2>1
<1>3. Range(r) \cap Range(completion) = {}
  BY <1>2 DEF SlotsInv
<1> HIDE DEF r
<1>4. /\ r \o completion \in Seq(Slots) /\ IsInjective(r \o completion)
      /\ Range(r \o completion) = Range(r) \cup Range(completion)
  BY <1>1, <1>2, <1>3, ConcatOf
<1>5. Pending = r \o completion
  BY DEF Pending, r
<1>6. Range(Pending) \subseteq Slots
  BY <1>4, <1>5, MembersOf
<1>7. QED
  BY <1>2, <1>4, <1>5, <1>6, ListTypes DEF Live, Active, Owners

\* What an empty or wholly called batch leaves to be called.
LEMMA PendingIsCompletion ==
  ASSUME TypeOK, SlotsInv, called = Len(batch)
  PROVE  Pending = completion
<1>1. SubSeq(batch, called + 1, Len(batch)) = <<>>
  BY ListTypes, SubSeqEmpty
<1>2. QED
  BY <1>1, ListTypes, ConcatEmptySeq DEF Pending

\* A posted completion is called last.
LEMMA PostPending ==
  ASSUME TypeOK, SlotsInv, NEW s \in Slots, completion' = Append(completion, s),
         UNCHANGED <<batch, called>>
  PROVE  Pending' = Append(Pending, s)
<1> DEFINE r == SubSeq(batch, called + 1, Len(batch))
<1>1. r \in Seq(Slots) /\ completion \in Seq(Slots)
  BY ListTypes, CutOf, SMTT(30) DEF SlotsInv
<1> HIDE DEF r
<1>2. r \o Append(completion, s) = Append(r \o completion, s)
  BY <1>1
<1>3. QED
  BY <1>2 DEF Pending, r

\* A call takes the first callback.
LEMMA CallPending ==
  ASSUME TypeOK, SlotsInv, CallCompletion
  PROVE  Pending # <<>> /\ Pending' = Tail(Pending)
<1> DEFINE r == SubSeq(batch, called + 1, Len(batch))
           q == SubSeq(batch, called + 2, Len(batch))
<1>1. /\ UNCHANGED <<batch, completion>> /\ called' = called + 1
      /\ called + 1 \in 1 .. Len(batch) /\ batch \in Seq(Slots) /\ completion \in Seq(Slots)
      /\ called \in Nat /\ Len(batch) \in Nat
  BY ListTypes DEF CallCompletion, lists
<1>2. r = <<batch[called + 1]>> \o q
  BY <1>1, SubSeqRecursiveFirst
<1>3. q \in Seq(Slots) /\ batch[called + 1] \in Slots
  <2>1. called + 1 \in 0 .. Len(batch)
    BY <1>1
  <2>2. SubSeq(batch, called + 1 + 1, Len(batch)) \in Seq(Slots)
    BY <1>1, <2>1, CutOf DEF SlotsInv
  <2>3. QED
    BY <1>1, <2>2
<1>4. Pending = r \o completion
  BY DEF Pending
<1>5. Pending' = q \o completion
  <2>1. called' + 1 = called + 2
    BY <1>1
  <2>2. QED
    BY <1>1, <2>1 DEF Pending
<1> HIDE DEF r, q
<1>6. (<<batch[called + 1]>> \o q) \o completion = <<batch[called + 1]>> \o (q \o completion)
  BY <1>1, <1>3, ConcatAssociative, SMTT(30)
<1>7. q \o completion \in Seq(Slots)
  BY <1>1, <1>3
<1>8. ASSUME NEW x \in Slots, NEW z \in Seq(Slots)
      PROVE  <<x>> \o z # <<>> /\ Tail(<<x>> \o z) = z
  OBVIOUS
<1>9. QED
  BY <1>2, <1>3, <1>4, <1>5, <1>6, <1>7, <1>8

\* What the other steps leave to be called.
LEMMA PendingStays ==
  ASSUME TypeOK, SlotsInv, RunCompletionCallbacks \/ DrainAgain \/ ReturnBatch
  PROVE  Pending' = Pending
<1>1. CASE RunCompletionCallbacks \/ DrainAgain
  <2>1. /\ mpc # "calls" /\ batch' = completion /\ completion' = <<>> /\ called' = 0
    BY <1>1 DEF RunCompletionCallbacks, DrainAgain, DetachCompletions
  <2>2. called = Len(batch)
    BY <2>1 DEF SlotsInv
  <2>3. SubSeq(completion, 0 + 1, Len(completion)) = completion
    BY ListTypes, SubSeqFull
  <2>4. Pending' = completion
    BY <2>1, <2>3, ListTypes, ConcatEmptySeq DEF Pending
  <2>5. QED
    BY <2>2, <2>4, PendingIsCompletion
<1>2. CASE ReturnBatch
  <2>1. called = Len(batch) /\ batch' = <<>> /\ called' = 0 /\ UNCHANGED completion
    BY <1>2 DEF ReturnBatch
  <2>2. SubSeq(<<>>, 0 + 1, Len(<<>>)) = <<>>
    BY SubSeqEmpty
  <2>3. Pending' = completion
    BY <2>1, <2>2, ListTypes, ConcatEmptySeq DEF Pending
  <2>4. QED
    BY <2>1, <2>3, PendingIsCompletion
<1>3. QED
  BY <1>1, <1>2

\* A step after which no job is live or active that was not.
LEMMA LineageShrinks ==
  ASSUME LineageInv, Live' \subseteq Live, Active' \subseteq Active, UNCHANGED job_id_counter,
         \A s \in Live' \cup Active' : job'[s].id = job[s].id /\ job'[s].user = job[s].user,
         \A w \in Workers : pc'[w] = "ext_posted" =>
           \/ pc[w] = "ext_posted" /\ arg'[w] = arg[w]
           \/ arg'[w] < job_id_counter /\ \A t \in Active' : job[t].id # arg'[w],
         CompletionsInJobOrder'
  PROVE  LineageInv'
<1>1. /\ job_id_counter' <= MaxEnqueues
      /\ \A s \in Live' : job'[s].id < job_id_counter' /\ job'[s].user < job_id_counter'
      /\ \A s, t \in Live' : job'[s].id = job'[t].id => s = t
      /\ \A s \in Live', t \in Active' : job'[s].user # job'[t].id
  BY DEF LineageInv
<1>2. ASSUME NEW w \in Workers, pc'[w] = "ext_posted"
      PROVE  arg'[w] < job_id_counter' /\ \A t \in Active' : job'[t].id # arg'[w]
  BY <1>2 DEF LineageInv
<1>3. QED
  BY <1>1, <1>2 DEF LineageInv

\* The order of the same callbacks for the same jobs.
LEMMA OrderStays ==
  ASSUME TypeOK, SlotsInv, CompletionsInJobOrder, Pending' = Pending,
         \A s \in Range(Pending) : job'[s].id = job[s].id /\ job'[s].user = job[s].user
  PROVE  CompletionsInJobOrder'
<1>1. \A i \in DOMAIN Pending : Pending[i] \in Range(Pending)
  BY PendingOf, MembersOf
<1>2. QED
  BY <1>1 DEF CompletionsInJobOrder

\* A job enters the queue: its number is new, and its parent posted before.
LEMMA EnqueueLineage ==
  ASSUME TypeOK, SlotsInv, LineageInv, NEW t \in Threads, NEW user \in Nat \cup {NoId},
         NEW front \in BOOLEAN, NEW c, EnqueueImpl(t, front, c, user),
         user = NoId \/ (t \in Workers /\ pc[t] = "ext_posted" /\ user = arg[t])
  PROVE  LineageInv'
<1> DEFINE s == Head(free)
<1>1. /\ job_id_counter < MaxEnqueues /\ job_id_counter' = job_id_counter + 1
      /\ job' = [job EXCEPT ![s] = [id |-> job_id_counter, completion_call |-> c, user |-> user]]
      /\ UNCHANGED <<completion, batch, called, pc, cur, arg>>
  BY DEF EnqueueImpl, workerVars, mainVars
<1>2. /\ s \in Slots /\ s \notin Active /\ s \notin Range(batch) /\ s \notin Range(completion)
      /\ Range(queued') = Range(queued) \cup {s}
  BY EnqueueSlots
<1>3. Pending' = Pending /\ Owners' = Owners
  BY <1>1 DEF Pending, Owners, Owns
<1>4. Active' = Active \cup {s} /\ Live' = Live \cup {s} /\ s \notin Live
  BY <1>1, <1>2, <1>3, PendingOf DEF Active, Live
<1>5. /\ \A x \in Live : job'[x] = job[x] /\ job[x].id \in Int /\ job[x].user \in Int
      /\ job'[s].id = job_id_counter /\ job'[s].user = user
      /\ job_id_counter \in Nat /\ user < job_id_counter
  <2>1. Live \subseteq Slots
    BY PendingOf
  <2>2. \A x \in Slots : job[x] \in JobRecord
    BY DEF TypeOK
  <2>3. \A x \in Slots : job[x].id \in Int /\ job[x].user \in Int
    BY <2>2 DEF JobRecord, NoId
  <2>4. user < job_id_counter /\ job_id_counter \in Nat
    BY DEF NoId, TypeOK, LineageInv
  <2>5. QED
    BY <1>1, <1>2, <1>4, <2>1, <2>3, <2>4 DEF TypeOK
<1> HIDE DEF s
<1>6. job_id_counter' <= MaxEnqueues /\ MaxEnqueues \in Nat
  BY <1>1, <1>5, SizesAssumption
<1>7. \A x \in Live' : job'[x].id < job_id_counter' /\ job'[x].user < job_id_counter'
  <2>1. user \in Int
    BY DEF NoId
  <2>2. QED
    BY <1>1, <1>4, <1>5, <2>1 DEF LineageInv
<1>8. \A x, y \in Live' : job'[x].id = job'[y].id => x = y
  BY <1>4, <1>5 DEF LineageInv
<1>9. \A x \in Live', y \in Active' : job'[x].user # job'[y].id
  <2>1. \A y \in Active : y \in Live /\ job[y].id # user
    <3>1. CASE user = NoId
      <4>1. \A y \in Live : job[y].id # NoId
        BY PendingOf DEF TypeOK, JobRecord, NoId
      <4>2. QED
        BY <3>1, <4>1, PendingOf
    <3>2. CASE t \in Workers /\ pc[t] = "ext_posted" /\ user = arg[t]
      BY <3>2, PendingOf DEF LineageInv
    <3>3. QED
      BY <3>1, <3>2
  <2>2. QED
    BY <1>4, <1>5, <2>1 DEF LineageInv
<1>10. ASSUME NEW w \in Workers, pc'[w] = "ext_posted"
       PROVE  arg'[w] < job_id_counter' /\ \A y \in Active' : job'[y].id # arg'[w]
  <2>1. /\ arg[w] \in Nat /\ arg[w] < job_id_counter /\ arg'[w] = arg[w]
        /\ \A y \in Active : job[y].id # arg[w]
    BY <1>1, <1>10 DEF TypeOK, LineageInv
  <2>2. \A y \in Active : y \in Live
    BY PendingOf
  <2>3. QED
    BY <1>1, <1>4, <1>5, <2>1, <2>2
<1>11. CompletionsInJobOrder'
  <2>1. \A x \in Range(Pending) : x \in Live
    BY DEF Live
  <2>2. QED
    BY <1>3, <1>5, <2>1, OrderStays DEF LineageInv
<1>12. QED
  BY <1>6, <1>7, <1>8, <1>9, <1>10, <1>11 DEF LineageInv

\* A completion is posted behind those of its parents.
LEMMA PostLineage ==
  ASSUME TypeOK, SlotsInv, LineageInv, NEW w \in Workers,
         PostCompletion(w) \/ EnqueueCompletion(w)
  PROVE  LineageInv'
<1> DEFINE s == cur[w]
<1>1. /\ completion' = Append(completion, s)
      /\ \E l \in {"loop", "ext_posted"} : pc' = [pc EXCEPT ![w] = l]
      /\ job' = [job EXCEPT ![s].completion_call = "callback"] \/ job' = job
      /\ UNCHANGED <<queued, batch, called, cur, arg, job_id_counter>>
  BY DEF PostCompletion, EnqueueCompletion, BackToLoop, Posted, mainVars
<1>2. /\ w \in Owners /\ Active' = Active \ {s} /\ s \in Active /\ s \in Slots
      /\ job[s].id = arg[w]
  BY PostSlots, ListTypes DEF Active, SlotsInv
<1>3. Pending' = Append(Pending, s)
  BY <1>1, <1>2, PostPending
<1>4. /\ Pending \in Seq(Slots) /\ Range(Pending') = Range(Pending) \cup {s}
      /\ Len(Pending) \in Nat /\ DOMAIN Pending' = 1 .. Len(Pending) + 1
      /\ \A i \in 1 .. Len(Pending) : Pending'[i] = Pending[i] /\ Pending[i] \in Range(Pending)
      /\ Pending'[Len(Pending) + 1] = s
  <2>1. Pending \in Seq(Slots) /\ \A i \in 1 .. Len(Pending) : Pending[i] \in Range(Pending)
    BY PendingOf, MembersOf
  <2>2. Range(Append(Pending, s)) = Range(Pending) \cup {s}
    BY <1>2, <2>1, AppendOf
  <2>3. QED
    BY <1>2, <1>3, <2>1, <2>2
<1>5. \A x \in Slots : job'[x].id = job[x].id /\ job'[x].user = job[x].user
  BY <1>1, <1>2, MarkKeepsIds
<1>6. Live' = Live
  BY <1>2, <1>4 DEF Live
<1>7. CompletionsInJobOrder'
  <2>1. \A i \in DOMAIN Pending' : Pending'[i] \in Live
    BY <1>2, <1>4, PendingOf DEF Live
  <2>2. \A x \in Live : job[x].user # job[s].id
    BY <1>2 DEF LineageInv
  <2>3. ASSUME NEW i \in DOMAIN Pending', NEW j \in DOMAIN Pending',
               job'[Pending'[j]].user = job'[Pending'[i]].id
        PROVE  i < j
    <3>1. job[Pending'[j]].user = job[Pending'[i]].id
      BY <1>5, <2>1, <2>3, PendingOf
    <3>2. i \in 1 .. Len(Pending)
      BY <1>4, <2>1, <2>2, <3>1
    <3>3. CASE j = Len(Pending) + 1
      BY <1>4, <3>2, <3>3
    <3>4. CASE j # Len(Pending) + 1
      <4>1. j \in 1 .. Len(Pending) /\ job[Pending[j]].user = job[Pending[i]].id
        BY <1>4, <2>3, <3>1, <3>2, <3>4
      <4>2. i \in DOMAIN Pending /\ j \in DOMAIN Pending
        BY <1>4, <3>2, <4>1
      <4>3. QED
        BY <4>1, <4>2 DEF LineageInv, CompletionsInJobOrder
    <3>5. QED
      BY <3>3, <3>4
  <2>4. QED
    BY <2>3 DEF CompletionsInJobOrder
<1>8. ASSUME NEW v \in Workers, pc'[v] = "ext_posted"
      PROVE  \/ pc[v] = "ext_posted" /\ arg'[v] = arg[v]
             \/ arg'[v] < job_id_counter /\ \A t \in Active' : job[t].id # arg'[v]
  <2>1. CASE v = w
    <3>1. arg[w] < job_id_counter
      BY <1>2, PendingOf DEF LineageInv
    <3>2. \A t \in Active' : job[t].id # arg[w]
      BY <1>2, PendingOf DEF LineageInv
    <3>3. QED
      BY <1>1, <2>1, <3>1, <3>2
  <2>2. CASE v # w
    BY <1>1, <1>8, <2>2 DEF TypeOK
  <2>3. QED
    BY <2>1, <2>2
<1>9. \A x \in Live' \cup Active' : job'[x].id = job[x].id /\ job'[x].user = job[x].user
  BY <1>2, <1>5, <1>6, PendingOf
<1>10. Active' \subseteq Active /\ Live' \subseteq Live /\ UNCHANGED job_id_counter
  BY <1>1, <1>2, <1>6
<1>11. QED
  BY <1>7, <1>8, <1>9, <1>10, LineageShrinks
\* A job without completion leaves.
LEMMA FreeLineage ==
  ASSUME TypeOK, SlotsInv, LineageInv, NEW w \in Workers, FreeJob(w)
  PROVE  LineageInv' /\ UNCHANGED Pending
<1>1. /\ pc' = [pc EXCEPT ![w] = "loop"] /\ job' = [job EXCEPT ![cur[w]] = Zeroed]
      /\ UNCHANGED <<queued, completion, batch, called, cur, arg, job_id_counter>>
  BY DEF FreeJob, BackToLoop, mainVars
<1>2. w \in Owners /\ Active' = Active \ {cur[w]}
  BY FreeSlots
<1>3. Pending' = Pending /\ cur[w] \notin Range(Pending)
  BY <1>1, <1>2, PendingOf DEF Pending, SlotsInv
<1>4. Live' \subseteq Live /\ cur[w] \notin Live'
  BY <1>2, <1>3 DEF Live
<1>5. \A x \in Live' \cup Active' : job'[x].id = job[x].id /\ job'[x].user = job[x].user
  BY <1>1, <1>2, <1>4, PendingOf DEF TypeOK
<1>6. CompletionsInJobOrder'
  <2>1. \A x \in Range(Pending) : job'[x].id = job[x].id /\ job'[x].user = job[x].user
    BY <1>3, <1>5 DEF Live
  <2>2. QED
    BY <1>3, <2>1, OrderStays DEF LineageInv
<1>7. \A v \in Workers : pc'[v] = "ext_posted" => pc[v] = "ext_posted" /\ arg'[v] = arg[v]
  BY <1>1 DEF TypeOK
<1>8. Active' \subseteq Active /\ UNCHANGED job_id_counter
  BY <1>1, <1>2
<1>9. QED
  BY <1>3, <1>4, <1>5, <1>6, <1>7, <1>8, LineageShrinks

\* A job starts.
LEMMA DequeueLineage ==
  ASSUME TypeOK, SlotsInv, LineageInv, NEW w \in Workers, Dequeue(w)
  PROVE  LineageInv' /\ UNCHANGED Pending
<1>1. /\ Head(queued) \in Slots
      /\ \E l \in {"run_std", "run_ext"} : pc' = [pc EXCEPT ![w] = l]
      /\ job' = [job EXCEPT ![Head(queued)].completion_call = "null"] \/ job' = job
      /\ \E n : arg' = [arg EXCEPT ![w] = n]
      /\ UNCHANGED <<completion, batch, called, job_id_counter>>
  BY ListTypes, TailOf DEF Dequeue, mainVars, SlotsInv
<1>2. \A x \in Slots : job'[x].id = job[x].id /\ job'[x].user = job[x].user
  BY <1>1, MarkKeepsIds
<1>3. Active' = Active /\ Pending' = Pending
  BY <1>1, DequeueSlots DEF Pending
<1>4. Live' = Live /\ Live \subseteq Slots /\ Active \subseteq Live /\ Range(Pending) \subseteq Live
  BY <1>3, PendingOf DEF Live
<1>5. CompletionsInJobOrder'
  BY <1>2, <1>3, <1>4, OrderStays DEF LineageInv
<1>6. \A v \in Workers : pc'[v] = "ext_posted" => pc[v] = "ext_posted" /\ arg'[v] = arg[v]
  BY <1>1 DEF TypeOK
<1>7. \A x \in Live' \cup Active' : job'[x].id = job[x].id /\ job'[x].user = job[x].user
  BY <1>2, <1>3, <1>4
<1>8. Active' \subseteq Active /\ Live' \subseteq Live /\ UNCHANGED job_id_counter
  BY <1>1, <1>3, <1>4
<1>9. QED
  BY <1>3, <1>5, <1>6, <1>7, <1>8, LineageShrinks

\* A callback is called, and is no longer live.
LEMMA CallLineage ==
  ASSUME TypeOK, SlotsInv, LineageInv, CallCompletion
  PROVE  LineageInv'
<1>1. UNCHANGED <<job, job_id_counter, pc, arg>>
  BY DEF CallCompletion, workerVars
<1>2. /\ Pending \in Seq(Slots) /\ Pending # <<>> /\ Pending' = Tail(Pending)
      /\ Active' = Active /\ IsInjective(Pending)
  BY CallPending, CallSlots, PendingOf
<1>3. Live' \subseteq Live
  BY <1>2, TailOf DEF Live
<1>4. CompletionsInJobOrder'
  <2>1. /\ Len(Pending) \in Nat /\ DOMAIN Pending' = 1 .. Len(Pending) - 1
        /\ \A i \in 1 .. Len(Pending) - 1 : i + 1 \in DOMAIN Pending /\ Pending'[i] = Pending[i + 1]
    BY <1>2
  <2>2. ASSUME NEW i \in DOMAIN Pending', NEW j \in DOMAIN Pending',
               job'[Pending'[j]].user = job'[Pending'[i]].id
        PROVE  i < j
    <3>1. job[Pending[j + 1]].user = job[Pending[i + 1]].id
      BY <1>1, <2>1, <2>2
    <3>2. i + 1 < j + 1
      BY <2>1, <3>1 DEF LineageInv, CompletionsInJobOrder
    <3>3. QED
      BY <2>1, <3>2
  <2>3. QED
    BY <2>2 DEF CompletionsInJobOrder
<1>5. Active' \subseteq Active
  BY <1>2
<1>6. QED
  BY <1>1, <1>3, <1>4, <1>5, LineageShrinks

\* What a step does that neither starts, ends, posts nor calls a job.
LEMMA QuietLineage ==
  ASSUME TypeOK, SlotsInv, LineageInv, UNCHANGED <<job, job_id_counter, arg>>,
         Active' = Active, Pending' = Pending,
         \A w \in Workers : pc'[w] = "ext_posted" => pc[w] = "ext_posted"
  PROVE  LineageInv'
<1>1. Live' = Live /\ CompletionsInJobOrder'
  BY OrderStays DEF Live, LineageInv
<1>2. QED
  BY <1>1, LineageShrinks

\* At first there is no job.
LEMMA InitLineage == Init => LineageInv
<1> SUFFICES ASSUME Init PROVE LineageInv
  OBVIOUS
<1>1. Pending = <<>>
  <2>1. SubSeq(<<>>, 0 + 1, Len(<<>>)) = <<>>
    BY SubSeqEmpty
  <2>2. QED
    BY <2>1 DEF Init, Pending
<1>2. Active = {} /\ Live = {}
  BY <1>1, EmptyList DEF Init, Active, Live, Owners, Owns
<1>3. QED
  BY <1>1, <1>2, SizesAssumption DEF Init, LineageInv, CompletionsInJobOrder

\* Every step keeps the order of jobs and continuations.
LEMMA NextLineage == TypeOK /\ SlotsInv /\ LineageInv /\ [Next]_vars => LineageInv'
<1> SUFFICES ASSUME TypeOK, SlotsInv, LineageInv, [Next]_vars PROVE LineageInv'
  OBVIOUS
<1>1. CASE RunCompletionCallbacks \/ DrainAgain \/ ReturnBatch
  <2>1. UNCHANGED <<job, job_id_counter, pc, arg>>
    BY <1>1 DEF RunCompletionCallbacks, DrainAgain, ReturnBatch, workerVars
  <2>2. Active' = Active /\ Pending' = Pending
    BY <1>1, DetachSlots, ReturnSlots, PendingStays
  <2>3. QED
    BY <2>1, <2>2, QuietLineage
<1>2. ASSUME UNCHANGED <<lists, job, job_id_counter, cur, arg, batch, called>>, Owners' = Owners,
             \A w \in Workers : pc'[w] = "ext_posted" => pc[w] = "ext_posted"
      PROVE  LineageInv'
  <2>1. Active' = Active /\ Pending' = Pending
    BY <1>2 DEF Active, Pending, lists
  <2>2. QED
    BY <1>2, <2>1, QuietLineage
<1>3. QED
  BY <1>1, <1>2, StepKinds, EnqueueLineage, DequeueLineage, PostLineage, FreeLineage, CallLineage

\* And so does that of the jobs' lineage.
LEMMA JobsAlways == Spec => [](TypeOK /\ SlotsInv /\ LineageInv)
BY SlotsAlways, InitLineage, NextLineage, PTL DEF Spec

(***************************************************************************)
(* The completion of an extended job is called before that of its          *)
(* continuation, however the list is detached, called and posted to in     *)
(* between.                                                                *)
(***************************************************************************)
THEOREM CompletionsOrdered == Spec => []CompletionsInJobOrder
<1>1. LineageInv => CompletionsInJobOrder
  BY DEF LineageInv
<1>2. QED
  BY <1>1, JobsAlways, PTL
-----------------------------------------------------------------------------
(* The pool implements JobService, step by step. *)

\* The ids of slots whose contents are j.
IdsUnder(j, q) == [i \in DOMAIN q |-> j[q[i]].id]

\* The ids of a list move with its slots.
LEMMA IdsMove ==
  ASSUME NEW j, \A s \in Slots : j[s].id \in Nat, NEW q \in Seq(Slots)
  PROVE  /\ IdsUnder(j, q) \in Seq(Nat)
         /\ \A x \in Slots : IdsUnder(j, Append(q, x)) = Append(IdsUnder(j, q), j[x].id)
         /\ \A x \in Slots : IdsUnder(j, <<x>> \o q) = <<j[x].id>> \o IdsUnder(j, q)
         /\ q # <<>> => /\ IdsUnder(j, q) # <<>> /\ Head(IdsUnder(j, q)) = j[Head(q)].id
                        /\ IdsUnder(j, Tail(q)) = Tail(IdsUnder(j, q))
<1> DEFINE d == IdsUnder(j, q)
<1>1. /\ d \in Seq(Nat) /\ Len(d) = Len(q) /\ Len(q) \in Nat
      /\ \A i \in 1 .. Len(q) : d[i] = j[q[i]].id /\ q[i] \in Slots
  BY DEF IdsUnder
<1>2. ASSUME NEW x \in Slots PROVE IdsUnder(j, Append(q, x)) = Append(d, j[x].id)
  <2> DEFINE a == IdsUnder(j, Append(q, x))
             b == Append(d, j[x].id)
  <2>1. /\ a \in Seq(Nat) /\ Len(a) = Len(q) + 1 /\ a[Len(q) + 1] = j[x].id
        /\ \A i \in 1 .. Len(q) : a[i] = j[q[i]].id
    BY DEF IdsUnder
  <2>2. /\ b \in Seq(Nat) /\ Len(b) = Len(q) + 1 /\ b[Len(q) + 1] = j[x].id
        /\ \A i \in 1 .. Len(q) : b[i] = d[i]
    BY <1>1
  <2>3. \A i \in 1 .. Len(a) : a[i] = b[i]
    BY <1>1, <2>1, <2>2
  <2>4. QED
    BY <2>1, <2>2, <2>3, SeqEqual
<1>3. ASSUME NEW x \in Slots PROVE IdsUnder(j, <<x>> \o q) = <<j[x].id>> \o d
  <2> DEFINE p == <<x>> \o q
             a == IdsUnder(j, p)
             b == <<j[x].id>> \o d
  <2>1. /\ p \in Seq(Slots) /\ Len(p) = Len(q) + 1 /\ p[1] = x
        /\ \A i \in 1 .. Len(p) : i # 1 => p[i] = q[i - 1]
    BY <1>1
  <2>2. /\ a \in Seq(Nat) /\ Len(a) = Len(q) + 1 /\ a[1] = j[x].id
        /\ \A i \in 1 .. Len(p) : i # 1 => a[i] = j[q[i - 1]].id
    <3> HIDE DEF p
    <3>1. DOMAIN p = 1 .. Len(q) + 1 /\ 1 \in 1 .. Len(p)
      BY <1>1, <2>1
    <3>2. \A i \in 1 .. Len(p) : j[p[i]].id \in Nat
      BY <2>1
    <3>3. a \in [1 .. Len(p) -> Nat] /\ \A i \in 1 .. Len(p) : a[i] = j[p[i]].id
      BY <2>1, <3>1, <3>2 DEF IdsUnder
    <3>4. \A n \in Nat : \A f \in [1 .. n -> Nat] : f \in Seq(Nat) /\ Len(f) = n
      OBVIOUS
    <3> HIDE DEF a
    <3>5. a \in Seq(Nat) /\ Len(a) = Len(p)
      <4>1. Len(p) \in Nat
        BY <2>1
      <4>2. QED
        BY <3>3, <3>4, <4>1, Zenon
    <3>6. QED
      BY <2>1, <3>1, <3>3, <3>5
  <2>3. /\ b \in Seq(Nat) /\ Len(b) = Len(q) + 1 /\ b[1] = j[x].id
        /\ \A i \in 1 .. Len(p) : i # 1 => b[i] = d[i - 1]
    BY <1>1, <2>1
  <2> HIDE DEF a, b, p
  <2>4. ASSUME NEW i \in 1 .. Len(a) PROVE a[i] = b[i]
    <3>1. i \in 1 .. Len(p)
      BY <2>1, <2>2, Zenon
    <3>2. CASE i = 1
      BY <2>2, <2>3, <3>2, Zenon
    <3>3. CASE i # 1
      <4>1. i - 1 \in 1 .. Len(q)
        BY <1>1, <2>1, <3>1, <3>3
      <4>2. d[i - 1] = j[q[i - 1]].id
        BY <1>1, <4>1, Zenon
      <4>3. QED
        BY <2>2, <2>3, <3>1, <3>3, <4>2, Zenon
    <3>4. QED
      BY <3>2, <3>3
  <2>5. a = b
    BY <2>2, <2>3, <2>4, SeqEqual
  <2>6. QED
    BY <2>5 DEF a, b, p
<1>4. ASSUME q # <<>>
      PROVE  /\ d # <<>> /\ Head(d) = j[Head(q)].id /\ IdsUnder(j, Tail(q)) = Tail(d)
  <2> DEFINE a == IdsUnder(j, Tail(q))
  <2>1. /\ Tail(q) \in Seq(Slots) /\ Len(Tail(q)) = Len(q) - 1 /\ Len(q) > 0
        /\ \A i \in 1 .. Len(q) - 1 : Tail(q)[i] = q[i + 1]
    BY <1>4
  <2>2. /\ a \in Seq(Nat) /\ Len(a) = Len(q) - 1
        /\ \A i \in 1 .. Len(q) - 1 : a[i] = j[q[i + 1]].id
    BY <2>1 DEF IdsUnder
  <2>3. /\ d # <<>> /\ Tail(d) \in Seq(Nat) /\ Len(Tail(d)) = Len(q) - 1
        /\ \A i \in 1 .. Len(q) - 1 : Tail(d)[i] = d[i + 1]
        /\ Head(d) = d[1] /\ Head(q) = q[1]
    BY <1>1, <1>4, <2>1
  <2>4. ASSUME NEW i \in 1 .. Len(q) - 1 PROVE a[i] = Tail(d)[i]
    <3>1. i + 1 \in 1 .. Len(q)
      BY <1>1
    <3>2. QED
      BY <1>1, <2>2, <2>3, <3>1
  <2>5. a = Tail(d)
    BY <2>2, <2>3, <2>4, SeqEqual
  <2>6. QED
    BY <1>1, <2>1, <2>3, <2>5
<1>5. QED
  BY <1>1, <1>2, <1>3, <1>4

\* The ids of a list whose slots keep theirs.
LEMMA IdsKept ==
  ASSUME NEW q \in Seq(Slots), \A s \in Range(q) : job'[s].id = job[s].id
  PROVE  IdsUnder(job', q) = IdsUnder(job, q)
BY MembersOf DEF IdsUnder

\* The state of JobService the pool stands for.
accepted == job_id_counter
pending == IdsUnder(job, queued)
running == {arg[w] : w \in Owners}
posted == IdsUnder(job, Pending)

\* The service's variables, and what they are after a step.
LEMMA Mapping ==
  /\ pending = IdsOf(queued) /\ running = {arg[w] : w \in {v \in Workers : Owns(v)}}
  /\ posted = IdsOf(Pending)
  /\ pending' = IdsOf(queued)' /\ running' = {arg[w] : w \in {v \in Workers : Owns(v)}}'
  /\ posted' = IdsOf(Pending)'
BY DEF pending, running, posted, IdsUnder, IdsOf, Owners

\* Every slot has a job record with a number, before and after a step.
LEMMA IdsAreNumbers ==
  TypeOK => \A s \in Slots : job[s].id \in Nat
BY DEF TypeOK, JobRecord

\* A job is accepted.
LEMMA EnqueueAccepts ==
  ASSUME TypeOK, TypeOK', SlotsInv, LineageInv, NEW t \in Threads, NEW user \in Nat \cup {NoId},
         NEW front \in BOOLEAN, NEW c, EnqueueImpl(t, front, c, user)
  PROVE  Service!Accept
<1> DEFINE s == Head(free)
<1>1. /\ job_id_counter < MaxEnqueues /\ job_id_counter' = job_id_counter + 1
      /\ job' = [job EXCEPT ![s] = [id |-> job_id_counter, completion_call |-> c, user |-> user]]
      /\ queued' = Insert(queued, s, front)
      /\ UNCHANGED <<completion, batch, called, pc, cur, arg>>
  BY DEF EnqueueImpl, workerVars, mainVars
<1>2. s \in Slots /\ s \notin Active /\ s \notin Range(Pending)
  BY EnqueueSlots, PendingOf
<1>3. Pending' = Pending /\ Owners' = Owners
  BY <1>1 DEF Pending, Owners, Owns
<1>4. /\ job'[s].id = job_id_counter /\ \A x \in Slots : x # s => job'[x] = job[x]
  BY <1>1, <1>2 DEF TypeOK
<1>5. running' = running
  BY <1>1, <1>3 DEF running
<1>6. posted' = posted
  BY <1>2, <1>3, <1>4, IdsKept, PendingOf, MembersOf DEF posted
<1>7. pending' \in {Append(pending, accepted), <<accepted>> \o pending}
  <2>1. IdsUnder(job', queued) = pending
    BY <1>2, <1>4, IdsKept, ListTypes DEF pending, Active
  <2>2. /\ pending' = IdsUnder(job', Insert(queued, s, front))
        /\ \A x \in Slots : job'[x].id \in Nat
    BY <1>1 DEF pending, TypeOK, JobRecord
  <2>3. CASE front
    BY <1>2, <1>4, <2>1, <2>2, <2>3, IdsMove, ListTypes DEF Insert, accepted
  <2>4. CASE ~front
    BY <1>2, <1>4, <2>1, <2>2, <2>4, IdsMove, ListTypes DEF Insert, accepted
  <2>5. QED
    BY <2>3, <2>4
<1>8. accepted \in Ids
  BY <1>1, SizesAssumption DEF accepted, Ids, TypeOK
<1>9. QED
  BY <1>1, <1>5, <1>6, <1>7, <1>8, Mapping DEF Service!Accept, accepted

\* The first job of the queue starts.
LEMMA DequeueStarts ==
  ASSUME TypeOK, SlotsInv, LineageInv, NEW w \in Workers, Dequeue(w)
  PROVE  Service!Start
<1> DEFINE s == Head(queued)
<1>1. /\ pc[w] = "pick" /\ queued # <<>> /\ queued' = Tail(queued) /\ s \in Slots
      /\ arg' = [arg EXCEPT ![w] = job[s].id]
      /\ \E l \in {"run_std", "run_ext"} : pc' = [pc EXCEPT ![w] = l]
      /\ job' = [job EXCEPT ![s].completion_call = "null"] \/ job' = job
      /\ UNCHANGED <<completion, batch, called, job_id_counter>>
  BY ListTypes, TailOf DEF Dequeue, mainVars, SlotsInv
<1>2. \A x \in Slots : job'[x].id = job[x].id
  BY <1>1, MarkKeepsIds
<1>3. Pending' = Pending
  BY <1>1 DEF Pending
<1>4. posted' = posted
  BY <1>2, <1>3, IdsKept, PendingOf, MembersOf DEF posted
<1>5. pending # <<>> /\ Head(pending) = job[s].id /\ pending' = Tail(pending)
  <2>1. /\ pending # <<>> /\ Head(pending) = job[s].id
        /\ IdsUnder(job, Tail(queued)) = Tail(pending) /\ Tail(queued) \in Seq(Slots)
    <3>1. queued \in Seq(Slots) /\ \A x \in Slots : job[x].id \in Nat
      BY IdsAreNumbers, ListTypes
    <3>2. QED
      BY <1>1, <3>1, IdsMove DEF pending
  <2>2. IdsUnder(job', Tail(queued)) = IdsUnder(job, Tail(queued))
    BY <1>2, <2>1, IdsKept, MembersOf
  <2>3. QED
    BY <1>1, <2>1, <2>2 DEF pending
<1>6. running' = running \cup {Head(pending)}
  <2>1. Owners' = Owners \cup {w} /\ w \notin Owners
    BY <1>1, OwnersMove DEF Owns, Owners
  <2>2. arg'[w] = Head(pending) /\ \A v \in Owners : arg'[v] = arg[v]
    BY <1>1, <1>5, <2>1 DEF TypeOK, Owners
  <2>3. QED
    BY <2>1, <2>2 DEF running
<1>7. QED
  BY <1>1, <1>4, <1>5, <1>6, Mapping DEF Service!Start

\* A worker's job is its own.
LEMMA OneRuns ==
  ASSUME TypeOK, SlotsInv, LineageInv, NEW w \in Owners, Owners' = Owners \ {w}, UNCHANGED arg
  PROVE  arg[w] \in running /\ running' = running \ {arg[w]} /\ arg[w] \in Ids
<1>1. ASSUME NEW v \in Owners, arg[v] = arg[w] PROVE v = w
  <2>1. cur[v] \in Live /\ cur[w] \in Live /\ job[cur[v]].id = job[cur[w]].id
    BY <1>1 DEF SlotsInv, Live, Active
  <2>2. QED
    BY <2>1 DEF LineageInv, SlotsInv
<1>2. arg[w] \in Nat /\ arg[w] < job_id_counter /\ job_id_counter <= MaxEnqueues
  BY DEF TypeOK, Owners, SlotsInv, LineageInv, Live, Active
<1>3. arg[w] \in Ids
  BY <1>2, SizesAssumption DEF Ids, TypeOK
<1>4. QED
  BY <1>1, <1>3 DEF running

\* A completion is posted.
LEMMA PostPosts ==
  ASSUME TypeOK, SlotsInv, LineageInv, NEW w \in Workers,
         PostCompletion(w) \/ EnqueueCompletion(w)
  PROVE  \E id \in Ids : Service!Post(id)
<1> DEFINE s == cur[w]
<1>1. /\ completion' = Append(completion, s)
      /\ job' = [job EXCEPT ![s].completion_call = "callback"] \/ job' = job
      /\ UNCHANGED <<queued, batch, called, arg, job_id_counter>>
  BY DEF PostCompletion, EnqueueCompletion, BackToLoop, Posted, mainVars
<1>2. w \in Owners /\ Owners' = Owners \ {w} /\ s \in Slots /\ job[s].id = arg[w]
  BY PostSlots, ListTypes DEF SlotsInv
<1>3. Pending' = Append(Pending, s)
  BY <1>1, <1>2, PostPending
<1>4. \A x \in Slots : job'[x].id = job[x].id
  BY <1>1, <1>2, MarkKeepsIds
<1>5. pending' = pending
  BY <1>1, <1>4, IdsKept, ListTypes, MembersOf DEF pending
<1>6. posted' = Append(posted, arg[w])
  <2>1. IdsUnder(job, Append(Pending, s)) = Append(posted, arg[w])
    BY <1>2, IdsMove, IdsAreNumbers, PendingOf DEF posted
  <2>2. Append(Pending, s) \in Seq(Slots)
    BY <1>2, PendingOf
  <2>3. IdsUnder(job', Append(Pending, s)) = IdsUnder(job, Append(Pending, s))
    BY <1>4, <2>2, IdsKept, MembersOf
  <2>4. QED
    BY <1>3, <2>1, <2>3 DEF posted
<1>7. arg[w] \in running /\ running' = running \ {arg[w]} /\ arg[w] \in Ids
  BY <1>1, <1>2, OneRuns
<1>8. Service!Post(arg[w])
  BY <1>1, <1>5, <1>6, <1>7, Mapping DEF Service!Post
<1>9. QED
  BY <1>7, <1>8 DEF Service!Post

\* A job ends without a callback.
LEMMA FreeFinishes ==
  ASSUME TypeOK, SlotsInv, LineageInv, NEW w \in Workers, FreeJob(w)
  PROVE  \E id \in Ids : Service!Finish(id)
<1>1. /\ job' = [job EXCEPT ![cur[w]] = Zeroed]
      /\ UNCHANGED <<queued, batch, called, arg, job_id_counter>>
  BY DEF FreeJob, BackToLoop, mainVars
<1>2. /\ w \in Owners /\ Owners' = Owners \ {w} /\ UNCHANGED Pending
      /\ cur[w] \notin Range(Pending) /\ cur[w] \notin Range(queued)
  BY FreeSlots, FreeLineage, PendingOf DEF SlotsInv
<1>3. \A x \in Slots : x # cur[w] => job'[x] = job[x]
  BY <1>1 DEF TypeOK
<1>4. posted' = posted
  BY <1>2, <1>3, IdsKept, PendingOf, MembersOf DEF posted
<1>5. pending' = pending
  BY <1>1, <1>2, <1>3, IdsKept, ListTypes, MembersOf, ZenonT(30) DEF pending
<1>6. arg[w] \in running /\ running' = running \ {arg[w]} /\ arg[w] \in Ids
  BY <1>1, <1>2, OneRuns
<1>7. Service!Finish(arg[w])
  BY <1>1, <1>4, <1>5, <1>6, Mapping DEF Service!Finish
<1>8. QED
  BY <1>6, <1>7 DEF Service!Finish

\* A callback is called.
LEMMA CallCalls ==
  ASSUME TypeOK, SlotsInv, CallCompletion
  PROVE  Service!Call
<1>1. UNCHANGED <<job, queued, arg, pc, job_id_counter>>
  BY DEF CallCompletion, workerVars, lists
<1>2. Pending # <<>> /\ Pending' = Tail(Pending)
  BY CallPending
<1>3. posted # <<>> /\ posted' = Tail(posted)
  BY <1>1, <1>2, IdsMove, IdsAreNumbers, PendingOf DEF posted
<1>4. pending' = pending /\ running' = running
  BY <1>1 DEF pending, running, Owners, Owns
<1>5. QED
  BY <1>1, <1>3, <1>4, Mapping DEF Service!Call

\* The other steps change nothing a caller can see.
LEMMA OthersStutter ==
  ASSUME TypeOK, SlotsInv, UNCHANGED <<queued, job, job_id_counter, arg>>,
         Owners' = Owners, Pending' = Pending
  PROVE  UNCHANGED Service!vars
<1>1. pending' = pending /\ running' = running /\ posted' = posted
  BY DEF pending, running, posted
<1>2. QED
  BY <1>1, Mapping DEF Service!vars

\* Every step of the pool is a step of the service, or none.
LEMMA StepRefines ==
  ASSUME TypeOK, TypeOK', SlotsInv, LineageInv, [Next]_vars
  PROVE  [Service!Next]_(Service!vars)
<1>1. CASE RunCompletionCallbacks \/ DrainAgain \/ ReturnBatch
  <2>1. UNCHANGED <<queued, job, job_id_counter, arg>> /\ Owners' = Owners
    BY <1>1 DEF RunCompletionCallbacks, DrainAgain, ReturnBatch, workerVars, Owners, Owns
  <2>2. QED
    BY <1>1, <2>1, PendingStays, OthersStutter
<1>2. ASSUME UNCHANGED <<lists, job, job_id_counter, cur, arg, batch, called>>, Owners' = Owners
      PROVE  UNCHANGED Service!vars
  <2>1. Pending' = Pending
    BY <1>2 DEF Pending, lists
  <2>2. QED
    BY <1>2, <2>1, OthersStutter DEF lists
<1>3. QED
  BY <1>1, <1>2, StepKinds, EnqueueAccepts, DequeueStarts, PostPosts, FreeFinishes, CallCalls
     DEF Service!Next

\* At first no job was accepted.
LEMMA InitRefines == Init => Service!Init
<1> SUFFICES ASSUME Init PROVE Service!Init
  OBVIOUS
<1>1. Pending = <<>>
  <2>1. SubSeq(<<>>, 0 + 1, Len(<<>>)) = <<>>
    BY SubSeqEmpty
  <2>2. QED
    BY <2>1 DEF Init, Pending
<1>2. IdsUnder(job, <<>>) = <<>> /\ Owners = {}
  BY DEF Init, IdsUnder, Owners, Owns
<1>3. pending = <<>> /\ posted = <<>> /\ running = {}
  BY <1>1, <1>2 DEF Init, pending, posted, running
<1>4. QED
  BY <1>3, Mapping DEF Init, Service!Init

(***************************************************************************)
(* The pool implements JobService: for any number of workers, slots and    *)
(* jobs a caller sees every job start at most once and in the order of the *)
(* queue, and callbacks called at most once and in the order of posting.   *)
(***************************************************************************)
THEOREM ServiceImplemented == Spec => ImplementsJobService
<1>1. TypeOK /\ TypeOK' /\ SlotsInv /\ LineageInv /\ [Next]_vars => [Service!Next]_(Service!vars)
  BY StepRefines
<1>2. QED
  BY <1>1, InitRefines, JobsAlways, PTL DEF Spec, ImplementsJobService, Service!Spec
=============================================================================
