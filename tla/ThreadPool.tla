----------------------------- MODULE ThreadPool -----------------------------
(***************************************************************************)
(* The worker pool of source/adk/runtime/private/thread_pool.c.            *)
(*                                                                         *)
(* Job slots travel between three linked lists guarded by one mutex (free, *)
(* queued, completion) and the hands of a worker or of the main thread.    *)
(* A list is a sequence of slots, head first.  A critical section that     *)
(* neither waits nor reads an unguarded variable is one action, enabled    *)
(* when the mutex is free; the worker's loop head is split, because        *)
(* should_quit is written without the mutex.                               *)
(***************************************************************************)
EXTENDS Integers, Sequences, FiniteSets, Functions

CONSTANTS
  Workers,         \* the threads created by thread_pool_init
  Main,            \* the main thread: enqueues, runs completions, shuts down
  NoThread,        \* the value of the mutex when nobody holds it
  MaxPendingJobs,  \* job slots that fit in the region given to thread_pool_init
  MaxEnqueues      \* bound on job_id_counter, for TLC

ASSUME ThreadsAssumption ==
  /\ IsFiniteSet(Workers) /\ Workers # {}
  /\ Main \notin Workers /\ NoThread \notin Workers \cup {Main}
ASSUME SizesAssumption == MaxPendingJobs \in Nat \ {0} /\ MaxEnqueues \in Nat

VARIABLES
  mutex,            \* holder of pool->mutex between two actions
  free,             \* free_head .. free_tail
  queued,           \* queued_head .. queued_tail
  completion,       \* completion_call_head .. completion_call_tail
  job,              \* contents of every slot
  job_id_counter,
  busy_counter,
  should_quit,
  pc,               \* where each worker is in thread_pool_proc
  cur,              \* the local variable "job" of each worker
  arg,              \* the id of the job each worker was handed: its callback's argument
  signalling,       \* threads between sb_unlock_mutex and sb_condition_wake_one
  mpc,              \* where the main thread is
  batch,            \* list detached by thread_pool_run_completion_callbacks
  called,           \* callbacks of the batch already invoked
  draining,         \* the callbacks run on behalf of thread_pool_drain
  halted            \* TRAP was hit

lists == <<free, queued, completion>>
workerVars == <<pc, cur, arg>>
mainVars == <<mpc, batch, called, draining>>
vars == <<mutex, lists, job, job_id_counter, busy_counter, should_quit,
          workerVars, signalling, mainVars, halted>>

Threads == Workers \cup {Main}
Slots == 1 .. MaxPendingJobs
Ids == 0 .. MaxEnqueues - 1
NoId == -1

(***************************************************************************)
(* completion_call is NULL, the caller's callback, or the placeholder that *)
(* marks an extended job.  user is the payload: the id of the extended job *)
(* whose continuation this job is, if any.                                 *)
(***************************************************************************)
CompletionCalls == {"null", "callback", "ext_placeholder"}
Zeroed == [id |-> 0, completion_call |-> "null", user |-> NoId]

(***************************************************************************)
(* The free list thread_pool_init links: its loop appends the first slot   *)
(* to itself before it advances, so the last slot is linked only when it   *)
(* is the first.                                                           *)
(***************************************************************************)
InitialFree ==
  [i \in 1 .. (IF MaxPendingJobs = 1 THEN 1 ELSE MaxPendingJobs - 1) |-> i]

Init ==
  /\ mutex = NoThread
  /\ free = InitialFree /\ queued = <<>> /\ completion = <<>>
  /\ job = [s \in Slots |-> Zeroed]
  /\ job_id_counter = 0
  /\ busy_counter = 0
  /\ should_quit = FALSE
  /\ pc = [w \in Workers |-> "acquire"]
  /\ cur = [w \in Workers |-> 1] /\ arg = [w \in Workers |-> 0]
  /\ signalling = {}
  /\ mpc = "idle" /\ batch = <<>> /\ called = 0 /\ draining = FALSE
  /\ halted = FALSE

MutexIsFree == mutex = NoThread

-----------------------------------------------------------------------------
(* Enqueueing, by any thread.                                              *)

(***************************************************************************)
(* The critical section of thread_pool_enqueue_impl and                    *)
(* thread_pool_enqueue_front; the signal follows the unlock.               *)
(***************************************************************************)
Insert(q, s, front) == IF front THEN <<s>> \o q ELSE Append(q, s)

EnqueueImpl(t, front, completion_call, user) ==
  /\ MutexIsFree /\ t \notin signalling
  /\ free # <<>> /\ job_id_counter < MaxEnqueues
  /\ free' = Tail(free)
  /\ queued' = Insert(queued, Head(free), front)
  /\ job' = [job EXCEPT ![Head(free)] =
               [id |-> job_id_counter, completion_call |-> completion_call, user |-> user]]
  /\ job_id_counter' = job_id_counter + 1
  /\ signalling' = signalling \cup {t}
  /\ UNCHANGED <<mutex, completion, busy_counter, should_quit, workerVars, mainVars, halted>>

\* No free slot: TRAP ends the process.
EnqueueExhausted(t) ==
  /\ MutexIsFree /\ t \notin signalling
  /\ free = <<>> /\ job_id_counter < MaxEnqueues
  /\ halted' = TRUE
  /\ UNCHANGED <<mutex, lists, job, job_id_counter, busy_counter, should_quit, workerVars,
                 signalling, mainVars>>

\* thread_pool_enqueue, thread_pool_enqueue_front, thread_pool_enqueue_ext_job
Enqueue(t, user) ==
  \/ \E front \in BOOLEAN, c \in {"null", "callback"} : EnqueueImpl(t, front, c, user)
  \/ EnqueueImpl(t, FALSE, "ext_placeholder", user)
  \/ EnqueueExhausted(t)

BugWaiting == {}  \* mutant: the signal is forgotten
Waiting == {w \in Workers : pc[w] = "waiting"}

\* sb_condition_wake_one: one waiter, if there is one, must take the mutex again.
WakeOne(t) ==
  /\ t \in signalling
  /\ signalling' = signalling \ {t}
  /\ IF Waiting = {} THEN UNCHANGED pc
     ELSE \E w \in Waiting : pc' = [pc EXCEPT ![w] = "acquire"]
  /\ UNCHANGED <<mutex, lists, job, job_id_counter, busy_counter, should_quit, cur, arg, mainVars, halted>>

-----------------------------------------------------------------------------
(* thread_pool_proc                                                        *)

\* sb_lock_mutex at the start, or the re-acquisition inside sb_wait_condition.
Acquire(w) ==
  /\ pc[w] = "acquire" /\ MutexIsFree
  /\ mutex' = w
  /\ pc' = [pc EXCEPT ![w] = "loop"]
  /\ UNCHANGED <<lists, job, job_id_counter, busy_counter, should_quit, cur, arg, signalling, mainVars, halted>>

\* while (!should_quit), read under the mutex but written without it
TestQuit(w) ==
  /\ pc[w] = "loop"
  /\ pc' = [pc EXCEPT ![w] = IF should_quit THEN "exited" ELSE "pick"]
  /\ mutex' = IF should_quit THEN NoThread ELSE mutex
  /\ UNCHANGED <<lists, job, job_id_counter, busy_counter, should_quit, cur, arg, signalling, mainVars, halted>>

\* Takes the head of the queue; an extended job's placeholder is cleared before it is called.
Dequeue(w) ==
  /\ pc[w] = "pick" /\ queued # <<>>
  /\ LET s == Head(queued)
         ext == job[s].completion_call = "ext_placeholder" IN
     /\ cur' = [cur EXCEPT ![w] = s]
     /\ arg' = [arg EXCEPT ![w] = job[s].id]
     /\ pc' = [pc EXCEPT ![w] = IF ext THEN "run_ext" ELSE "run_std"]
     /\ job' = IF ext THEN [job EXCEPT ![s].completion_call = "null"] ELSE job
  /\ queued' = Tail(queued)
  /\ busy_counter' = busy_counter + 1
  /\ mutex' = NoThread
  /\ UNCHANGED <<free, completion, job_id_counter, should_quit, signalling, mainVars, halted>>

\* Nothing queued: sb_wait_condition releases the mutex and blocks in one step.
Wait(w) ==
  /\ pc[w] = "pick" /\ queued = <<>>
  /\ pc' = [pc EXCEPT ![w] = "waiting"]
  /\ mutex' = NoThread
  /\ UNCHANGED <<lists, job, job_id_counter, busy_counter, should_quit, cur, arg, signalling, mainVars, halted>>

SpuriousWake(w) ==
  /\ pc[w] = "waiting"
  /\ pc' = [pc EXCEPT ![w] = "acquire"]
  /\ UNCHANGED <<mutex, lists, job, job_id_counter, busy_counter, should_quit, cur, arg, signalling,
                 mainVars, halted>>

\* The body of a job may enqueue; an extended job that posted its completion enqueues its continuation.
JobEnqueues(w) ==
  /\ pc[w] \in {"run_std", "run_ext", "ext_posted"}
  /\ \E user \in {NoId} \cup IF pc[w] = "ext_posted" THEN {arg[w]} ELSE {} : Enqueue(w, user)

LeaveBusy == busy_counter' = busy_counter - 1

\* A worker done with its job locks the mutex, leaves busy_counter and goes on with the loop.
BackToLoop(w) ==
  /\ MutexIsFree /\ w \notin signalling
  /\ mutex' = w
  /\ pc' = [pc EXCEPT ![w] = "loop"]
  /\ LeaveBusy
  /\ UNCHANGED <<queued, job_id_counter, should_quit, cur, arg, signalling, mainVars, halted>>

\* The slot becomes the tail of the completion list.
BugPosted(s) == <<s>> \o completion  \* mutant: its head
Posted(s) == Append(completion, s)

\* A standard job returned and has a completion callback.
PostCompletion(w) ==
  /\ pc[w] = "run_std" /\ job[cur[w]].completion_call = "callback"
  /\ BackToLoop(w)
  /\ completion' = Posted(cur[w])
  /\ UNCHANGED <<free, job>>

\* A standard job without completion, or an extended job that kept its token.
FreeJob(w) ==
  /\ pc[w] \in {"run_std", "run_ext"} /\ job[cur[w]].completion_call = "null"
  /\ BackToLoop(w)
  /\ job' = [job EXCEPT ![cur[w]] = Zeroed]
  /\ free' = Append(free, cur[w])
  /\ UNCHANGED completion

\* thread_pool_enqueue_completion, called by an extended job: it spends the token.
EnqueueCompletion(w) ==
  /\ pc[w] = "run_ext" /\ MutexIsFree /\ w \notin signalling
  /\ job' = [job EXCEPT ![cur[w]].completion_call = "callback"]
  /\ completion' = Posted(cur[w])
  /\ pc' = [pc EXCEPT ![w] = "ext_posted"]
  /\ UNCHANGED <<mutex, free, queued, job_id_counter, busy_counter, should_quit, cur, arg,
                 signalling, mainVars, halted>>

\* Mutant: the worker does not look at the token and frees the slot.
BugExtReturn(w) ==
  /\ pc[w] = "ext_posted"
  /\ BackToLoop(w)
  /\ free' = Append(free, cur[w])
  /\ UNCHANGED <<completion, job>>

\* An extended job whose token is spent returned: its slot is no longer the worker's.
ExtReturn(w) ==
  /\ pc[w] = "ext_posted"
  /\ BackToLoop(w)
  /\ UNCHANGED <<free, completion, job>>

-----------------------------------------------------------------------------
(* The main thread                                                         *)

\* Mutant: the list is read and not detached.
BugDetachCompletions ==
  /\ batch' = completion /\ called' = 0
  /\ completion' = completion
  /\ mpc' = IF completion = <<>> THEN "status" ELSE "calls"

\* thread_pool_run_completion_callbacks, from the event loop or from thread_pool_drain
DetachCompletions ==
  /\ batch' = completion /\ called' = 0
  /\ completion' = <<>>
  /\ mpc' = IF completion = <<>> THEN "status" ELSE "calls"

RunCompletionCallbacks ==
  /\ mpc = "idle" /\ Main \notin signalling /\ MutexIsFree
  /\ DetachCompletions
  /\ draining' \in BOOLEAN
  /\ UNCHANGED <<mutex, free, queued, job, job_id_counter, busy_counter, should_quit, workerVars,
                 signalling, halted>>

\* One completion callback; it may enqueue before the next one.
CallCompletion ==
  /\ mpc = "calls" /\ Main \notin signalling /\ called < Len(batch)
  /\ called' = called + 1
  /\ UNCHANGED <<mutex, lists, job, job_id_counter, busy_counter, should_quit, workerVars,
                 signalling, mpc, batch, draining, halted>>

\* The whole batch is appended to the free list.
ReturnBatch ==
  /\ mpc = "calls" /\ Main \notin signalling /\ MutexIsFree
  /\ called = Len(batch)
  /\ free' = free \o batch
  /\ batch' = <<>> /\ called' = 0
  /\ mpc' = "status"
  /\ UNCHANGED <<mutex, queued, completion, job, job_id_counter, busy_counter, should_quit,
                 workerVars, signalling, draining, halted>>

BugBusyQueue == queued # <<>>        \* mutant: a job that runs does not count
Busy == queued # <<>> \/ busy_counter # 0

\* The status computed in the last critical section; the event loop ignores it.
StatusOfTick ==
  /\ mpc = "status" /\ ~draining /\ MutexIsFree
  /\ mpc' = "idle"
  /\ UNCHANGED <<mutex, lists, job, job_id_counter, busy_counter, should_quit, workerVars,
                 signalling, batch, called, draining, halted>>

\* thread_pool_drain loops until the status is idle.
StatusOfDrain ==
  /\ mpc = "status" /\ draining /\ MutexIsFree
  /\ mpc' = IF Busy THEN "drain_again" ELSE "drained"
  /\ UNCHANGED <<mutex, lists, job, job_id_counter, busy_counter, should_quit, workerVars,
                 signalling, batch, called, draining, halted>>

DrainAgain ==
  /\ mpc = "drain_again" /\ MutexIsFree
  /\ DetachCompletions
  /\ UNCHANGED <<mutex, free, queued, job, job_id_counter, busy_counter, should_quit, workerVars,
                 signalling, draining, halted>>

\* app_shutdown_main_display and adk_set_memory_mode drain and go on using the pool.
Resume ==
  /\ mpc = "drained"
  /\ mpc' = "idle" /\ draining' = FALSE
  /\ UNCHANGED <<mutex, lists, job, job_id_counter, busy_counter, should_quit, workerVars,
                 signalling, batch, called, halted>>

MainEnqueues ==
  /\ mpc = "idle" \/ (mpc = "calls" /\ called > 0)
  /\ Enqueue(Main, NoId)

\* app_shutdown_thunk: thread_pool_shutdown right after thread_pool_drain.
Shutdown ==
  /\ mpc = "drained"
  /\ should_quit' = TRUE
  /\ mpc' = "wake_all"
  /\ UNCHANGED <<mutex, lists, job, job_id_counter, busy_counter, workerVars, signalling,
                 batch, called, draining, halted>>

\* sb_condition_wake_all reaches the threads that wait now.
WakeAll ==
  /\ mpc = "wake_all"
  /\ pc' = [w \in Workers |-> IF pc[w] = "waiting" THEN "acquire" ELSE pc[w]]
  /\ mpc' = "join"
  /\ UNCHANGED <<mutex, lists, job, job_id_counter, busy_counter, should_quit, cur, arg, signalling,
                 batch, called, draining, halted>>

JoinAll ==
  /\ mpc = "join" /\ \A w \in Workers : pc[w] = "exited"
  /\ mpc' = "down"
  /\ UNCHANGED <<mutex, lists, job, job_id_counter, busy_counter, should_quit, workerVars,
                 signalling, batch, called, draining, halted>>
-----------------------------------------------------------------------------
\* What a worker does by itself once it may: everything but enqueueing and waking for no reason.
WorkerStep(w) ==
  \/ Acquire(w) \/ TestQuit(w) \/ Dequeue(w) \/ Wait(w)
  \/ PostCompletion(w) \/ FreeJob(w) \/ EnqueueCompletion(w) \/ ExtReturn(w)

\* The event loop and the calls it is inside.
MainStep ==
  \/ RunCompletionCallbacks \/ CallCompletion \/ ReturnBatch
  \/ StatusOfTick \/ StatusOfDrain \/ DrainAgain \/ WakeAll \/ JoinAll

\* The process trapped or the pool is shut down.
Terminated == halted \/ mpc = "down"

Next ==
  \/ /\ ~Terminated
     /\ \/ \E w \in Workers : WorkerStep(w) \/ SpuriousWake(w) \/ JobEnqueues(w)
        \/ \E t \in Threads : WakeOne(t)
        \/ MainStep \/ MainEnqueues \/ Resume \/ Shutdown
  \/ Terminated /\ UNCHANGED vars

Spec == Init /\ [][Next]_vars

(***************************************************************************)
(* Job bodies and callbacks return, a thread contending for the mutex gets *)
(* it in the end, the event loop ticks, the caller of a drain goes on.     *)
(* Nothing forces a spurious wake, a new job or a drain.                   *)
(***************************************************************************)
Fairness ==
  /\ \A w \in Workers : SF_vars(~Terminated /\ WorkerStep(w))
  /\ \A t \in Threads : WF_vars(~Terminated /\ WakeOne(t))
  /\ SF_vars(~Terminated /\ MainStep)
  /\ WF_vars(~Terminated /\ (Resume \/ Shutdown))

FairSpec == Spec /\ Fairness

-----------------------------------------------------------------------------
(* Properties                                                              *)

Owns(w) == pc[w] \in {"run_std", "run_ext"}
Working(w) == Owns(w) \/ pc[w] = "ext_posted"

JobRecord == [id : Nat, completion_call : CompletionCalls, user : Nat \cup {NoId}]

\* The lists are made of slots.
ListsType ==
  /\ free \in Seq(Slots) /\ queued \in Seq(Slots)
  /\ completion \in Seq(Slots) /\ batch \in Seq(Slots)

FlagsType == should_quit \in BOOLEAN /\ halted \in BOOLEAN /\ draining \in BOOLEAN

\* The shape of the pool's state; the mutex is never held by the main thread between two actions.
TypeOK ==
  /\ mutex \in Workers \cup {NoThread}
  /\ ListsType
  /\ job \in [Slots -> JobRecord]
  /\ job_id_counter \in Nat
  /\ busy_counter \in Int
  /\ FlagsType
  /\ pc \in [Workers -> {"acquire", "loop", "pick", "waiting", "run_std", "run_ext",
                         "ext_posted", "exited"}]
  /\ cur \in [Workers -> Slots] /\ arg \in [Workers -> Nat]
  /\ signalling \subseteq Threads
  /\ mpc \in {"idle", "calls", "status", "drain_again", "drained", "wake_all", "join", "down"}
  /\ called \in Nat

(***************************************************************************)
(* A slot is in one list, once, or with one worker, and no slot is lost:   *)
(* the "next" fields of the three lists and of the detached batch never    *)
(* run into each other, also after a token is spent.  While a worker has a *)
(* slot nobody rewrites it: the callback it reads is the one of its job.   *)
(***************************************************************************)
SlotConservation ==
  LET linked == free \o queued \o completion \o batch
      owned == {w \in Workers : Owns(w)} IN
  /\ IsInjective(linked)
  /\ \A w \in owned : cur[w] \notin Range(linked) /\ job[cur[w]].id = arg[w]
  /\ \A v, w \in owned : cur[v] = cur[w] => v = w
  /\ Len(linked) + Cardinality(owned) = Len(InitialFree)

(***************************************************************************)
(* When thread_pool_drain returns nothing is queued and no job body runs:  *)
(* "ensure we aren't currently performing operations before tearing down   *)
(* canvas".                                                                *)
(***************************************************************************)
PastDrain == mpc \in {"drained", "wake_all", "join", "down"}
DrainedQuiescent == PastDrain => queued = <<>> /\ \A w \in Workers : ~Working(w)

(***************************************************************************)
(* busy_counter counts the workers inside a job body, so that one read of  *)
(* it in a critical section tells whether any body runs.  The bodies of    *)
(* extended jobs outlive the ownership of their slot and still count.      *)
(***************************************************************************)
WorkingSet == {w \in Workers : Working(w)}
BusyCountsWorkers == busy_counter = Cardinality(WorkingSet)

\* thread_pool_shutdown asserts this when its workers are joined.
NoJobQueuedAtShutdown == mpc = "down" => queued = <<>>

(***************************************************************************)
(* Extended jobs: a job that posted its completion and then enqueued a     *)
(* continuation has its completion called before the continuation's.       *)
(***************************************************************************)
Pending == SubSeq(batch, called + 1, Len(batch)) \o completion
CompletionsInJobOrder ==
  \A i, j \in DOMAIN Pending : job[Pending[j]].user = job[Pending[i]].id => i < j

(***************************************************************************)
(* The pool implements JobService: detaching the completion list, reusing  *)
(* slots, signalling and waiting change nothing a caller can see.          *)
(***************************************************************************)
IdsOf(slots) == [i \in DOMAIN slots |-> job[slots[i]].id]

Service == INSTANCE JobService WITH
  accepted <- job_id_counter,
  pending <- IdsOf(queued),
  running <- {arg[w] : w \in {v \in Workers : Owns(v)}},
  posted <- IdsOf(Pending)

ImplementsJobService == Service!Spec

(***************************************************************************)
(* A job that is queued is eventually taken by a worker, and a posted      *)
(* completion eventually called, unless the process traps or shuts down.   *)
(***************************************************************************)
JobsAreServed ==
  \A s \in Slots :
    /\ s \in Range(queued) ~> (s \notin Range(queued) \/ halted)
    /\ s \in Range(Pending) ~>
         (s \notin Range(Pending) \/ halted \/ mpc \in {"wake_all", "join", "down"})
=============================================================================
