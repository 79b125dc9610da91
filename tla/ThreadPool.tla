----------------------------- MODULE ThreadPool -----------------------------
(***************************************************************************)
(* meeting_ctrl::ThreadPool (rpc_src/thread_pool/thread_pool.{h,cpp}).     *)
(*                                                                         *)
(* Worker threads run worker_thread(); every enqueue() call is a process   *)
(* of its own, named by the task it submits; the control calls (pause,     *)
(* resume, shutdown, stop_now, the destructor) come one at a time from one *)
(* control thread, because ThreadPoolSingleton::mutex_ serialises them.    *)
(*                                                                         *)
(* Grain: a step is a critical section of queue_mutex, or the part of it   *)
(* up to the next read of state_ or active_threads_, the atomics that      *)
(* other threads change without the mutex; outside the mutex a step is one *)
(* atomic operation.  A notify is a step of its own, so a notification can *)
(* fall between a thread's test of its predicate and its going to sleep.   *)
(***************************************************************************)
EXTENDS Integers, FiniteSets

CONSTANTS
    Task,      \* the tasks that are ever submitted, one enqueue() call each
    Worker,    \* identities of std::thread objects; workers_ never forgets one
    NoTask,    \* an invalid TaskWrapper
    Core,      \* config_.core_threads
    Max,       \* config_.max_threads
    MaxQueue,  \* config_.max_queue_size, 0 for no limit
    Priority,  \* the priority each task is submitted with
    Throws     \* the tasks whose callable throws

ASSUME ConfigAssumption ==
    /\ Core \in Nat /\ Max \in Nat /\ MaxQueue \in Nat
    /\ 0 < Core /\ Core <= Max

ASSUME TaskAssumption ==
    /\ IsFiniteSet(Task) /\ NoTask \notin Task
    /\ Throws \subseteq Task
    /\ Priority \in [Task -> Nat]

ASSUME WorkerAssumption ==
    /\ IsFiniteSet(Worker)
    /\ \E W \in SUBSET Worker : Cardinality(W) = Core

VARIABLES
    tasks_,            \* the priority queue, as the set of tasks in it
    stop_,             \* guarded by queue_mutex
    state_,            \* atomic
    current_threads_,  \* atomic, only changed under queue_mutex
    active_threads_,   \* atomic
    tasks_completed_,  \* atomic statistics counters
    tasks_failed_

VARIABLES
    pc,            \* where each worker thread is in worker_thread()
    task_wrapper   \* the task each worker holds

VARIABLES
    enq,     \* where each enqueue() call is
    future   \* the future that enqueue() call hands to its caller

VARIABLES
    ctl,          \* where the control thread is
    shutdown_ret  \* what the last shutdown() returned

poolVars == <<tasks_, stop_, state_, current_threads_>>
statVars == <<active_threads_, tasks_completed_, tasks_failed_>>
workerVars == <<pc, task_wrapper>>
callVars == <<enq, future>>
controlVars == <<ctl, shutdown_ret>>
vars == <<poolVars, statVars, workerVars, callVars, controlVars>>

-----------------------------------------------------------------------------
(* Types *)

PoolState == {"RUNNING", "PAUSED", "SHUTTING_DOWN", "STOPPED"}

\* The points of worker_thread().  A worker at "blocking" has found the wait
\* predicate false and is about to sleep on condition_; "awake" and "idle" are
\* past wait_for with has_task true and false.  These three hold queue_mutex.
WorkerPC == {"unborn", "unlocked", "blocking", "asleep", "woken", "expired",
             "awake", "idle", "picked", "running", "ran", "finished",
             "notifying", "exited"}

EnqueuePC == {"idle", "blocked", "woken", "pushed", "returned"}

FutureState == {"none", "invalid", "pending", "value", "exception", "broken"}

\* "sd_blocking" holds queue_mutex: shutdown() found its predicate false and
\* is about to sleep on condition_.
ControlPC == {"idle", "notifying", "sd_notify", "sd_enter", "sd_blocking",
              "sd_asleep", "sd_woken", "sd_expired", "sd_stopped", "sd_join",
              "sn_enter", "sn_stopped", "sn_join"}

TypeOK ==
    /\ tasks_ \subseteq Task
    /\ stop_ \in BOOLEAN
    /\ state_ \in PoolState
    /\ current_threads_ \in Nat
    /\ active_threads_ \in Int
    /\ tasks_completed_ \in Nat
    /\ tasks_failed_ \in Nat
    /\ pc \in [Worker -> WorkerPC]
    /\ task_wrapper \in [Worker -> Task \cup {NoTask}]
    /\ enq \in [Task -> EnqueuePC]
    /\ future \in [Task -> FutureState]
    /\ ctl \in ControlPC
    /\ shutdown_ret \in {"none", "true", "false"}

-----------------------------------------------------------------------------
(* queue_mutex and the condition variables *)

\* queue_mutex is held across steps exactly at these points.
WorkerHolds(w) == pc[w] \in {"blocking", "awake", "idle"}
ControlHolds == ctl = "sd_blocking"
MutexFree == ~ControlHolds /\ \A w \in Worker : ~WorkerHolds(w)

\* What a worker waits for on condition_.
WorkAvailable ==
    \/ stop_
    \/ state_ = "RUNNING" /\ tasks_ # {}
    \/ state_ = "SHUTTING_DOWN" /\ tasks_ # {}

\* What shutdown() waits for on the same condition_.
Drained == tasks_ = {} /\ active_threads_ = 0

\* condition_.notify_all(): the workers' and shutdown()'s wake-up.
WakeWorkers == [w \in Worker |-> IF pc[w] = "asleep" THEN "woken" ELSE pc[w]]
WakeControl == IF ctl = "sd_asleep" THEN "sd_woken" ELSE ctl

\* condition_.notify_one(): one sleeper, worker or shutdown(), if there is one.
NotifyCondition ==
    \/ \E w \in Worker : /\ pc[w] = "asleep"
                         /\ pc' = [pc EXCEPT ![w] = "woken"]
                         /\ UNCHANGED ctl
    \/ ctl = "sd_asleep" /\ ctl' = "sd_woken" /\ UNCHANGED pc
    \/ /\ ctl # "sd_asleep" /\ \A w \in Worker : pc[w] # "asleep"
       /\ UNCHANGED <<pc, ctl>>

\* Mutant: the producers are not notified.
NotifyNotFullMissing == UNCHANGED enq

\* not_full_condition_.notify_one(): one blocked enqueue(), if there is one.
NotifyNotFull ==
    \/ \E t \in Task : /\ enq[t] = "blocked"
                       /\ enq' = [enq EXCEPT ![t] = "woken"]
    \/ (\A t \in Task : enq[t] # "blocked") /\ UNCHANGED enq

-----------------------------------------------------------------------------
(* Construction *)

\* ThreadPool(config) starts the core threads; the fixed-size constructor is
\* the case Core = Max, MaxQueue = 0.
Init ==
    /\ tasks_ = {} /\ stop_ = FALSE /\ state_ = "RUNNING"
    /\ current_threads_ = Core
    /\ active_threads_ = 0 /\ tasks_completed_ = 0 /\ tasks_failed_ = 0
    /\ \E W \in SUBSET Worker :
          /\ Cardinality(W) = Core
          /\ pc = [w \in Worker |-> IF w \in W THEN "unlocked" ELSE "unborn"]
    /\ task_wrapper = [w \in Worker |-> NoTask]
    /\ enq = [t \in Task |-> "idle"]
    /\ future = [t \in Task |-> "none"]
    /\ ctl = "idle" /\ shutdown_ret = "none"

-----------------------------------------------------------------------------
(* enqueue(): the whole critical section is one step, entered first from    *)
(* the call and again after each wake-up on not_full_condition_.            *)

AtCall(t) == enq[t] \in {"idle", "woken"} /\ MutexFree

QueueFull == MaxQueue > 0 /\ Cardinality(tasks_) >= MaxQueue

\* Mutant: the failed start of a thread is rolled back twice.
AdjustThreadCountRollsBackTwice(size) ==
    \/ /\ current_threads_ < Max /\ size > active_threads_
       /\ \E w \in Worker : pc[w] = "unborn" /\ pc' = [pc EXCEPT ![w] = "unlocked"]
       /\ current_threads_' = current_threads_ + 1
    \/ /\ current_threads_ < Max /\ size > active_threads_
       /\ current_threads_' = current_threads_ - 1 /\ UNCHANGED pc

\* adjust_thread_count(), called with the new size of the queue.  Starting a
\* thread may fail, and then current_threads_ is rolled back.
AdjustThreadCount(size) ==
    \/ /\ current_threads_ < Max /\ size > active_threads_
       /\ \E w \in Worker : pc[w] = "unborn" /\ pc' = [pc EXCEPT ![w] = "unlocked"]
       /\ current_threads_' = current_threads_ + 1
    \/ UNCHANGED <<pc, current_threads_>>

\* A stopped pool answers with an empty future, before the wait or after it.
EnqueueStopped(t) ==
    /\ AtCall(t) /\ stop_
    /\ enq' = [enq EXCEPT ![t] = "returned"]
    /\ future' = [future EXCEPT ![t] = "invalid"]
    /\ UNCHANGED <<poolVars, statVars, workerVars, controlVars>>

EnqueueBlock(t) ==
    /\ AtCall(t) /\ ~stop_ /\ QueueFull
    /\ enq' = [enq EXCEPT ![t] = "blocked"]
    /\ UNCHANGED <<poolVars, statVars, workerVars, future, controlVars>>

\* The rest of the critical section: the task goes into the queue.
Push(t) ==
    /\ tasks_' = tasks_ \cup {t}
    /\ future' = [future EXCEPT ![t] = "pending"]
    /\ enq' = [enq EXCEPT ![t] = "pushed"]
    /\ AdjustThreadCount(Cardinality(tasks_) + 1)
    /\ UNCHANGED <<stop_, state_, statVars, task_wrapper, controlVars>>

\* Mutant: the size of the queue is not tested again after a wake-up.
EnqueuePushNoRetest(t) ==
    AtCall(t) /\ ~stop_ /\ (QueueFull => enq[t] = "woken") /\ Push(t)

\* Mutant: stop_ is not tested again after a wake-up.
EnqueuePushStopped(t) ==
    AtCall(t) /\ (stop_ => enq[t] = "woken") /\ ~QueueFull /\ Push(t)

EnqueuePush(t) == AtCall(t) /\ ~stop_ /\ ~QueueFull /\ Push(t)

\* The notify_one() after the mutex is released, then the call returns.
EnqueueNotify(t) ==
    /\ enq[t] = "pushed"
    /\ enq' = [enq EXCEPT ![t] = "returned"]
    /\ NotifyCondition
    /\ UNCHANGED <<poolVars, statVars, task_wrapper, future, shutdown_ret>>

-----------------------------------------------------------------------------
(* worker_thread() *)

\* Locks queue_mutex, from the top of the loop or on waking inside wait_for,
\* and evaluates the predicate.  A timed-out wait ends whatever the answer.
WorkerTest(w) ==
    /\ pc[w] \in {"unlocked", "woken", "expired"} /\ MutexFree
    /\ pc' = [pc EXCEPT ![w] = IF WorkAvailable THEN "awake"
                               ELSE IF @ = "expired" THEN "idle" ELSE "blocking"]
    /\ UNCHANGED <<poolVars, statVars, task_wrapper, callVars, controlVars>>

WorkerSleep(w) ==
    /\ pc[w] = "blocking"
    /\ pc' = [pc EXCEPT ![w] = "asleep"]
    /\ UNCHANGED <<poolVars, statVars, task_wrapper, callVars, controlVars>>

\* Mutant: wait() instead of wait_for().
WorkerTimeoutNever(w) == FALSE

\* keep_alive_time has passed in wait_for.
WorkerTimeout(w) ==
    /\ pc[w] = "asleep"
    /\ pc' = [pc EXCEPT ![w] = "expired"]
    /\ UNCHANGED <<poolVars, statVars, task_wrapper, callVars, controlVars>>

\* Mutant: off by one.
WorkerReclaimOneMore(w) ==
    /\ pc[w] = "idle" /\ current_threads_ >= Core
    /\ current_threads_' = current_threads_ - 1
    /\ pc' = [pc EXCEPT ![w] = "exited"]
    /\ UNCHANGED <<tasks_, stop_, state_, statVars, task_wrapper, callVars, controlVars>>

\* A surplus thread whose wait timed out leaves the pool.
WorkerReclaim(w) ==
    /\ pc[w] = "idle" /\ current_threads_ > Core
    /\ current_threads_' = current_threads_ - 1
    /\ pc' = [pc EXCEPT ![w] = "exited"]
    /\ UNCHANGED <<tasks_, stop_, state_, statVars, task_wrapper, callVars, controlVars>>

\* The clock test of the reclaim fails only on a tie, so a surplus idle thread
\* may also go on as the others do.
PastReclaim(w) == pc[w] \in {"awake", "idle"}

StoppedAndEmpty == (stop_ \/ state_ = "STOPPED") /\ tasks_ = {}

WorkerExit(w) ==
    /\ PastReclaim(w) /\ StoppedAndEmpty
    /\ pc' = [pc EXCEPT ![w] = "exited"]
    /\ UNCHANGED <<poolVars, statVars, task_wrapper, callVars, controlVars>>

\* The paused pool's "continue", and the empty queue's fall through the loop.
WorkerRetry(w) ==
    /\ PastReclaim(w) /\ ~StoppedAndEmpty
    /\ state_ = "PAUSED" \/ tasks_ = {}
    /\ pc' = [pc EXCEPT ![w] = "unlocked"]
    /\ UNCHANGED <<poolVars, statVars, task_wrapper, callVars, controlVars>>

\* Mutant: the comparison of TaskWrapper::operator< the other way round.
IsTopReversed(t) == t \in tasks_ /\ \A u \in tasks_ : Priority[t] <= Priority[u]

\* tasks_.top(): some task of the highest priority present.
IsTop(t) == t \in tasks_ /\ \A u \in tasks_ : Priority[u] <= Priority[t]

\* Mutant: top() without pop().
WorkerPickNoPop(w) ==
    /\ PastReclaim(w) /\ state_ # "PAUSED"
    /\ \E t \in tasks_ :
          IsTop(t) /\ task_wrapper' = [task_wrapper EXCEPT ![w] = t]
    /\ pc' = [pc EXCEPT ![w] = "picked"]
    /\ UNCHANGED <<poolVars, statVars, callVars, controlVars>>

WorkerPick(w) ==
    /\ PastReclaim(w) /\ state_ # "PAUSED"
    /\ \E t \in tasks_ :
          /\ IsTop(t)
          /\ task_wrapper' = [task_wrapper EXCEPT ![w] = t]
          /\ tasks_' = tasks_ \ {t}
    /\ IF MaxQueue > 0 /\ Cardinality(tasks_') < MaxQueue
       THEN NotifyNotFull
       ELSE UNCHANGED enq
    /\ pc' = [pc EXCEPT ![w] = "picked"]
    /\ UNCHANGED <<stop_, state_, current_threads_, statVars, future, controlVars>>

\* active_threads_++, after the mutex is released.
WorkerActivate(w) ==
    /\ pc[w] = "picked"
    /\ active_threads_' = active_threads_ + 1
    /\ pc' = [pc EXCEPT ![w] = "running"]
    /\ UNCHANGED <<poolVars, tasks_completed_, tasks_failed_, task_wrapper,
                   callVars, controlVars>>

\* The std::packaged_task stores what its callable throws in the future, so
\* execute() returns and the task counts as completed either way.
WorkerExecute(w) ==
    /\ pc[w] = "running"
    /\ future' = [future EXCEPT ![task_wrapper[w]] =
                     IF task_wrapper[w] \in Throws THEN "exception" ELSE "value"]
    /\ tasks_completed_' = tasks_completed_ + 1
    /\ task_wrapper' = [task_wrapper EXCEPT ![w] = NoTask]
    /\ pc' = [pc EXCEPT ![w] = "ran"]
    /\ UNCHANGED <<poolVars, active_threads_, tasks_failed_, enq, controlVars>>

\* Mutant: active_threads_-- is forgotten.
WorkerDeactivateForgotten(w) ==
    /\ pc[w] = "ran"
    /\ pc' = [pc EXCEPT ![w] = "finished"]
    /\ UNCHANGED <<poolVars, statVars, task_wrapper, callVars, controlVars>>

WorkerDeactivate(w) ==
    /\ pc[w] = "ran"
    /\ active_threads_' = active_threads_ - 1
    /\ pc' = [pc EXCEPT ![w] = "finished"]
    /\ UNCHANGED <<poolVars, tasks_completed_, tasks_failed_, task_wrapper,
                   callVars, controlVars>>

\* Reads state_, active_threads_ and tasks_ without the mutex.
WorkerCheckDrained(w) ==
    /\ pc[w] = "finished"
    /\ pc' = [pc EXCEPT ![w] = IF state_ = "SHUTTING_DOWN" /\ Drained
                               THEN "notifying" ELSE "unlocked"]
    /\ UNCHANGED <<poolVars, statVars, task_wrapper, callVars, controlVars>>

WorkerNotify(w) ==
    /\ pc[w] = "notifying"
    /\ pc' = [WakeWorkers EXCEPT ![w] = "unlocked"]
    /\ ctl' = WakeControl
    /\ UNCHANGED <<poolVars, statVars, task_wrapper, callVars, shutdown_ret>>

-----------------------------------------------------------------------------
(* pause() and resume(): a compare-and-swap of state_ without the mutex,    *)
(* then a notify_all() if it succeeded.                                     *)

Switch(from, to) ==
    /\ ctl = "idle" /\ state_ = from
    /\ state_' = to
    /\ ctl' = "notifying"
    /\ UNCHANGED <<tasks_, stop_, current_threads_, statVars, workerVars,
                   callVars, shutdown_ret>>

Pause == Switch("RUNNING", "PAUSED")
Resume == Switch("PAUSED", "RUNNING")

ControlNotify ==
    /\ ctl = "notifying"
    /\ pc' = WakeWorkers
    /\ ctl' = "idle"
    /\ UNCHANGED <<poolVars, statVars, task_wrapper, callVars, shutdown_ret>>

-----------------------------------------------------------------------------
(* shutdown(wait_timeout_ms) *)

\* Only a running pool starts to shut down.
ShutdownBegin ==
    /\ ctl = "idle" /\ state_ = "RUNNING"
    /\ state_' = "SHUTTING_DOWN"
    /\ ctl' = "sd_notify"
    /\ UNCHANGED <<tasks_, stop_, current_threads_, statVars, workerVars,
                   callVars, shutdown_ret>>

ShutdownRefused ==
    /\ ctl = "idle" /\ state_ # "RUNNING"
    /\ shutdown_ret' = IF state_ = "STOPPED" THEN "true" ELSE "false"
    /\ UNCHANGED <<poolVars, statVars, workerVars, callVars, ctl>>

ShutdownNotify ==
    /\ ctl = "sd_notify"
    /\ pc' = WakeWorkers
    /\ ctl' = "sd_enter"
    /\ UNCHANGED <<poolVars, statVars, task_wrapper, callVars, shutdown_ret>>

\* Locks queue_mutex and evaluates the predicate; when it holds, the state and
\* the flag are set before the mutex is released.
ShutdownTest ==
    /\ ctl \in {"sd_enter", "sd_woken", "sd_expired"} /\ MutexFree
    /\ IF Drained
       THEN /\ state_' = "STOPPED" /\ stop_' = TRUE
            /\ ctl' = "sd_stopped"
            /\ UNCHANGED shutdown_ret
       ELSE /\ UNCHANGED <<state_, stop_>>
            /\ IF ctl = "sd_expired"
               THEN ctl' = "idle" /\ shutdown_ret' = "false"
               ELSE ctl' = "sd_blocking" /\ UNCHANGED shutdown_ret
    /\ UNCHANGED <<tasks_, current_threads_, statVars, workerVars, callVars>>

ShutdownSleep ==
    /\ ctl = "sd_blocking"
    /\ ctl' = "sd_asleep"
    /\ UNCHANGED <<poolVars, statVars, workerVars, callVars, shutdown_ret>>

\* Mutant: wait() instead of wait_for().
ShutdownTimeoutNever == FALSE

\* wait_timeout_ms has passed in wait_for.
ShutdownTimeout ==
    /\ ctl = "sd_asleep"
    /\ ctl' = "sd_expired"
    /\ UNCHANGED <<poolVars, statVars, workerVars, callVars, shutdown_ret>>

ShutdownNotifyStop ==
    /\ ctl = "sd_stopped"
    /\ pc' = WakeWorkers
    /\ ctl' = "sd_join"
    /\ UNCHANGED <<poolVars, statVars, task_wrapper, callVars, shutdown_ret>>

\* join() on every element of workers_ has returned.
AllJoined == \A w \in Worker : pc[w] \in {"unborn", "exited"}

\* Mutant: shutdown() does not wait for the threads.
ShutdownJoinSkipped ==
    /\ ctl = "sd_join"
    /\ ctl' = "idle" /\ shutdown_ret' = "true"
    /\ UNCHANGED <<poolVars, statVars, workerVars, callVars>>

ShutdownJoin ==
    /\ ctl = "sd_join" /\ AllJoined
    /\ ctl' = "idle" /\ shutdown_ret' = "true"
    /\ UNCHANGED <<poolVars, statVars, workerVars, callVars>>

-----------------------------------------------------------------------------
(* stop_now() and the destructor *)

StopNowBegin ==
    /\ ctl = "idle"
    /\ ctl' = "sn_enter"
    /\ UNCHANGED <<poolVars, statVars, workerVars, callVars, shutdown_ret>>

\* ~ThreadPool() stops a pool that nobody stopped.
Destructor == state_ # "STOPPED" /\ StopNowBegin

\* A popped task's std::packaged_task is destroyed: its promise is broken.
StopNowClear ==
    /\ ctl = "sn_enter" /\ MutexFree
    /\ state_' = "STOPPED" /\ stop_' = TRUE
    /\ tasks_' = {}
    /\ future' = [t \in Task |-> IF t \in tasks_ THEN "broken" ELSE future[t]]
    /\ ctl' = "sn_stopped"
    /\ UNCHANGED <<current_threads_, statVars, workerVars, enq, shutdown_ret>>

StopNowNotify ==
    /\ ctl = "sn_stopped"
    /\ pc' = WakeWorkers
    /\ ctl' = "sn_join"
    /\ UNCHANGED <<poolVars, statVars, task_wrapper, callVars, shutdown_ret>>

StopNowJoin ==
    /\ ctl = "sn_join" /\ AllJoined
    /\ ctl' = "idle"
    /\ UNCHANGED <<poolVars, statVars, workerVars, callVars, shutdown_ret>>

-----------------------------------------------------------------------------
(* The condition variables may wake a waiter for no reason. *)

SpuriousWake ==
    \/ \E w \in Worker : /\ pc[w] = "asleep"
                         /\ pc' = [pc EXCEPT ![w] = "woken"]
                         /\ UNCHANGED <<enq, ctl>>
    \/ \E t \in Task : /\ enq[t] = "blocked"
                       /\ enq' = [enq EXCEPT ![t] = "woken"]
                       /\ UNCHANGED <<pc, ctl>>
    \/ ctl = "sd_asleep" /\ ctl' = "sd_woken" /\ UNCHANGED <<pc, enq>>

Spurious ==
    /\ SpuriousWake
    /\ UNCHANGED <<poolVars, statVars, task_wrapper, future, shutdown_ret>>

-----------------------------------------------------------------------------
(* Next-state relation and fairness *)

EnqueueStep(t) ==
    EnqueueStopped(t) \/ EnqueueBlock(t) \/ EnqueuePush(t) \/ EnqueueNotify(t)

WorkerStep(w) ==
    \/ WorkerTest(w) \/ WorkerSleep(w) \/ WorkerTimeout(w) \/ WorkerReclaim(w)
    \/ WorkerExit(w) \/ WorkerRetry(w) \/ WorkerPick(w) \/ WorkerActivate(w)
    \/ WorkerExecute(w) \/ WorkerDeactivate(w) \/ WorkerCheckDrained(w)
    \/ WorkerNotify(w)

\* A control call that has begun.
ControlStep ==
    \/ ControlNotify
    \/ ShutdownNotify \/ ShutdownTest \/ ShutdownSleep \/ ShutdownTimeout
    \/ ShutdownNotifyStop \/ ShutdownJoin
    \/ StopNowClear \/ StopNowNotify \/ StopNowJoin

\* The calls the control thread may make.
ControlCall ==
    Pause \/ Resume \/ ShutdownBegin \/ ShutdownRefused \/ StopNowBegin \/ Destructor

Next ==
    \/ \E t \in Task : EnqueueStep(t)
    \/ \E w \in Worker : WorkerStep(w)
    \/ ControlStep
    \/ ControlCall
    \/ Spurious

Spec == Init /\ [][Next]_vars

\* Every thread keeps running: tasks end, timed waits end, and a thread that
\* wants queue_mutex is not passed over for ever, which is why the fairness is
\* strong.  Nobody has to make a call, and no spurious wake-up has to come.
Fairness ==
    /\ \A t \in Task : SF_vars(enq[t] # "idle" /\ EnqueueStep(t))
    /\ \A w \in Worker : SF_vars(WorkerStep(w))
    /\ SF_vars(ControlStep)

FairSpec == Spec /\ Fairness

-----------------------------------------------------------------------------
(* Safety *)

Live == {w \in Worker : pc[w] \notin {"unborn", "exited"}}

Held == {task_wrapper[w] : w \in Live} \ {NoTask}

\* An accepted task whose future is still open is in exactly one place: the
\* queue, or the hands of one live worker.  Nothing is lost or run twice on
\* the way from enqueue() through tasks_.top()/pop() to execute().
EachTaskInOnePlace ==
    /\ {t \in Task : future[t] = "pending"} = tasks_ \cup Held
    /\ tasks_ \cap Held = {}
    /\ \A v, w \in Worker :
          task_wrapper[v] = task_wrapper[w] => v = w \/ task_wrapper[v] = NoTask

\* Back-pressure: the producers that wake from not_full_condition_ together
\* never push the queue past max_queue_size.
QueueBounded == MaxQueue > 0 => Cardinality(tasks_) <= MaxQueue

\* Until the pool stops, current_threads_ counts the threads that are really
\* there, and neither the growth in enqueue() nor the reclaiming of threads
\* that time out together leaves the range from core_threads to max_threads.
ThreadsCounted ==
    ~stop_ => /\ current_threads_ = Cardinality(Live)
              /\ current_threads_ \in Core .. Max

\* active_threads_ never over-counts: a thread that reads it as 0 knows that
\* no task is between its active_threads_++ and its active_threads_--.
ActiveCounted ==
    active_threads_ = Cardinality({w \in Worker : pc[w] \in {"running", "ran"}})

\* shutdown() returns true only when every worker thread has ended and no
\* accepted task is still open, even though a task that has left the queue is
\* not in active_threads_ yet when shutdown() finds the pool drained.
ShutdownTrueMeansQuiet ==
    shutdown_ret = "true" => Live = {} /\ \A t \in Task : future[t] # "pending"

\* A stopped pool: stop_ and STOPPED come and go together, the queue is empty
\* and stays so, whatever producers were waiting when it stopped.
StoppedIsEmpty == (stop_ <=> state_ = "STOPPED") /\ (stop_ => tasks_ = {})

\* A future is set once: no result is overwritten, in particular not by the
\* clearing of the queue in stop_now() while workers run.
FutureSetOnce ==
    [][\A t \in Task :
          future'[t] # future[t] => /\ future[t] \in {"none", "pending"}
                                    /\ future'[t] # "none"]_vars

-----------------------------------------------------------------------------
(* Refinement *)

Service == INSTANCE TaskService WITH
    open <- ~stop_, waiting <- tasks_, running <- Held, result <- future,
    Room <- MaxQueue, Slots <- Max

\* To its callers the pool is the TaskService: enqueue(), the pop of the top
\* task and the execution are Submit, Start and Finish, and the critical
\* section that sets stop_ is Close, in shutdown() as well as in stop_now().
ImplementsTaskService == Service!Spec

-----------------------------------------------------------------------------
(* Liveness, under FairSpec *)

\* An accepted task's future becomes ready unless the pool is paused: the
\* notifications that get lost, or that shutdown() takes from a worker, are
\* made good by the timed waits.
AcceptedTaskEnds ==
    \A t \in Task :
       future[t] = "pending" ~> future[t] # "pending" \/ state_ = "PAUSED"

\* pause(), resume(), shutdown() and stop_now() return to their caller.
ControlCallReturns == ctl # "idle" ~> ctl = "idle"

\* A producer that waits for room gets it, unless the pool pauses or stops.
BlockedProducerGetsRoom ==
    \A t \in Task :
       enq[t] = "blocked" ~> enq[t] = "returned" \/ stop_ \/ state_ = "PAUSED"

-----------------------------------------------------------------------------
(* What the comments say and the code does not do *)

\* "当队列有空间...或线程池停止时，生产者线程被唤醒" (thread_pool.h:256): a producer that
\* waits for room is woken when the pool stops.
StopWakesProducers ==
    \A t \in Task : stop_ /\ enq[t] = "blocked" ~> enq[t] # "blocked"

=============================================================================
