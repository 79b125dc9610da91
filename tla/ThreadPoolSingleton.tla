------------------------ MODULE ThreadPoolSingleton -------------------------
(***************************************************************************)
(* meeting_ctrl::ThreadPoolSingleton (thread_pool_singleton.h): the life   *)
(* of the one ThreadPool that the threads of the process share.            *)
(*                                                                         *)
(* Every static method runs under mutex_, so a short one is one step; the  *)
(* step of shutdown() and destroy() is split, because they keep mutex_     *)
(* while the pool stops.  The reference that getInstance() returns is used *)
(* after mutex_ is released.  Of a pool only its state_ is kept: module    *)
(* ThreadPool has the rest.                                                *)
(***************************************************************************)
EXTENDS Integers, FiniteSets

CONSTANTS
    Thread,     \* the threads that call the static methods
    NoThread,
    MaxPools    \* bound: how many pools are ever made

ASSUME SingletonAssumption ==
    NoThread \notin Thread /\ MaxPools \in Nat \ {0}

Pool == 1 .. MaxPools
NoPool == 0

VARIABLES
    instance_,  \* the unique_ptr: a pool or NoPool
    mutex_,     \* the thread that holds it
    state_,     \* the state of each pool; "freed" after its destructor
    pc,         \* what each thread is doing
    ref         \* the reference a thread got from getInstance()

vars == <<instance_, mutex_, state_, pc, ref>>

PoolState == {"unborn", "RUNNING", "PAUSED", "SHUTTING_DOWN", "STOPPED", "freed"}

TypeOK ==
    /\ instance_ \in Pool \cup {NoPool}
    /\ mutex_ \in Thread \cup {NoThread}
    /\ state_ \in [Pool -> PoolState]
    /\ pc \in [Thread -> {"idle", "enqueue", "shutdown", "stopped", "destroy"}]
    /\ ref \in [Thread -> Pool \cup {NoPool}]

Init ==
    /\ instance_ = NoPool /\ mutex_ = NoThread
    /\ state_ = [p \in Pool |-> "unborn"]
    /\ pc = [t \in Thread |-> "idle"]
    /\ ref = [t \in Thread |-> NoPool]

-----------------------------------------------------------------------------

\* A static method begins: its caller is free and takes mutex_.
Enter(t) == pc[t] = "idle" /\ mutex_ = NoThread

\* std::make_unique<ThreadPool>(...)
MakePool(p) ==
    /\ state_[p] = "unborn"
    /\ state_' = [state_ EXCEPT ![p] = "RUNNING"]
    /\ instance_' = p

\* init(): where there is a pool already it returns false and does nothing.
InitPool(t) ==
    /\ Enter(t) /\ instance_ = NoPool
    /\ \E p \in Pool : MakePool(p)
    /\ UNCHANGED <<mutex_, pc, ref>>

\* enqueue(): getInstance() makes the pool if need be, and the call goes on
\* with the reference when mutex_ is free again.
GetInstance(t) ==
    /\ Enter(t)
    /\ IF instance_ = NoPool THEN \E p \in Pool : MakePool(p)
                             ELSE UNCHANGED <<instance_, state_>>
    /\ ref' = [ref EXCEPT ![t] = instance_']
    /\ pc' = [pc EXCEPT ![t] = "enqueue"]
    /\ UNCHANGED mutex_

\* ThreadPool::enqueue() on that reference has returned.
EnqueueReturn(t) ==
    /\ pc[t] = "enqueue"
    /\ pc' = [pc EXCEPT ![t] = "idle"]
    /\ ref' = [ref EXCEPT ![t] = NoPool]
    /\ UNCHANGED <<instance_, mutex_, state_>>

\* pause() and resume() change the state only from the one they expect.
Switch(t, from, to) ==
    /\ Enter(t) /\ instance_ # NoPool /\ state_[instance_] = from
    /\ state_' = [state_ EXCEPT ![instance_] = to]
    /\ UNCHANGED <<instance_, mutex_, pc, ref>>

Pause(t) == Switch(t, "RUNNING", "PAUSED")
Resume(t) == Switch(t, "PAUSED", "RUNNING")

\* shutdown(): ThreadPool::shutdown() begins, and mutex_ stays locked.  Without
\* a pool, or with one that is not running, the call returns at once.
Shutdown(t) ==
    /\ Enter(t) /\ instance_ # NoPool /\ state_[instance_] = "RUNNING"
    /\ state_' = [state_ EXCEPT ![instance_] = "SHUTTING_DOWN"]
    /\ mutex_' = t
    /\ pc' = [pc EXCEPT ![t] = "shutdown"]
    /\ UNCHANGED <<instance_, ref>>

\* Mutant: the pool is released although the tasks did not end in time.
ShutdownTimeoutResets(t) ==
    /\ pc[t] = "shutdown"
    /\ instance_' = NoPool
    /\ mutex_' = NoThread
    /\ pc' = [pc EXCEPT ![t] = "idle"]
    /\ UNCHANGED <<state_, ref>>

\* The tasks did not end in time: false, and the pool stays as it is.
ShutdownTimeout(t) ==
    /\ pc[t] = "shutdown"
    /\ mutex_' = NoThread
    /\ pc' = [pc EXCEPT ![t] = "idle"]
    /\ UNCHANGED <<instance_, state_, ref>>

\* The tasks ended in time: ThreadPool::shutdown() sets STOPPED and joins the
\* workers, still under the caller's mutex_.
ShutdownStops(t) ==
    /\ pc[t] = "shutdown"
    /\ state_' = [state_ EXCEPT ![instance_] = "STOPPED"]
    /\ pc' = [pc EXCEPT ![t] = "stopped"]
    /\ UNCHANGED <<instance_, mutex_, ref>>

\* instance_.reset() runs ~ThreadPool(), which finds the pool stopped.
Reset(t) ==
    /\ state_' = [state_ EXCEPT ![instance_] = "freed"]
    /\ instance_' = NoPool
    /\ mutex_' = NoThread
    /\ pc' = [pc EXCEPT ![t] = "idle"]
    /\ UNCHANGED ref

\* Mutant: shutdown() reports success and keeps the stopped pool.
ShutdownForgetsReset(t) ==
    /\ pc[t] = "stopped"
    /\ mutex_' = NoThread
    /\ pc' = [pc EXCEPT ![t] = "idle"]
    /\ UNCHANGED <<instance_, state_, ref>>

\* ThreadPool::shutdown() returned true: the pool is released.
ShutdownDone(t) == pc[t] = "stopped" /\ Reset(t)

\* destroy(): stop_now() in any state, then the reset.
Destroy(t) ==
    /\ Enter(t) /\ instance_ # NoPool
    /\ state_' = [state_ EXCEPT ![instance_] = "STOPPED"]
    /\ mutex_' = t
    /\ pc' = [pc EXCEPT ![t] = "destroy"]
    /\ UNCHANGED <<instance_, ref>>

DestroyDone(t) == pc[t] = "destroy" /\ Reset(t)

Next ==
    \E t \in Thread :
       \/ InitPool(t) \/ GetInstance(t) \/ EnqueueReturn(t)
       \/ Pause(t) \/ Resume(t)
       \/ Shutdown(t) \/ ShutdownTimeout(t) \/ ShutdownStops(t) \/ ShutdownDone(t)
       \/ Destroy(t) \/ DestroyDone(t)

Spec == Init /\ [][Next]_vars

-----------------------------------------------------------------------------
(* Properties *)

\* instance_ owns the one pool that exists: however init(), the lazy
\* getInstance(), shutdown() and destroy() of several threads meet, no second
\* pool runs beside it, none is leaked, and instance_ never dangles.
OnePool ==
    {p \in Pool : state_[p] \notin {"unborn", "freed"}} = {instance_} \ {NoPool}

\* No call of the singleton ever meets a STOPPED pool: while the pool is in
\* that state, mutex_ is with the shutdown() or destroy() that stopped it and
\* that releases it before it unlocks.  (A pool whose shutdown() timed out stays
\* SHUTTING_DOWN, and getInstance() does return that one.)
StoppedIsHidden ==
    \A p \in Pool : state_[p] = "STOPPED" =>
       /\ instance_ = p
       /\ mutex_ # NoThread /\ pc[mutex_] \in {"stopped", "destroy"}

=============================================================================
