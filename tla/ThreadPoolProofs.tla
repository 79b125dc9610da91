-------------------------- MODULE ThreadPoolProofs --------------------------
(***************************************************************************)
(* Theorems about ThreadPool, for every number of tasks and threads and    *)
(* every configuration.                                                    *)
(***************************************************************************)
EXTENDS ThreadPool, FiniteSetTheorems, TLAPS

-----------------------------------------------------------------------------
(* Types *)

LEMMA TypeInit == Init => TypeOK
<1> SUFFICES ASSUME Init PROVE TypeOK
  OBVIOUS
<1>1. pc \in [Worker -> WorkerPC]
  BY DEF Init, WorkerPC
<1>2. enq \in [Task -> EnqueuePC] /\ future \in [Task -> FutureState]
  BY DEF Init, EnqueuePC, FutureState
<1>3. task_wrapper \in [Worker -> Task \cup {NoTask}]
  BY DEF Init
<1>4. tasks_ \subseteq Task /\ stop_ \in BOOLEAN
  BY DEF Init
<1>5. ctl \in ControlPC /\ state_ \in PoolState /\ shutdown_ret \in {"none", "true", "false"}
  BY DEF Init, PoolState, ControlPC
<1> QED BY <1>1, <1>2, <1>3, <1>4, <1>5, ConfigAssumption DEF Init, TypeOK

\* A notification moves sleepers only, and keeps the program counters typed.
LEMMA TypeNotifyAll ==
  ASSUME TypeOK
  PROVE  WakeWorkers \in [Worker -> WorkerPC] /\ WakeControl \in ControlPC
  BY DEF TypeOK, WakeWorkers, WakeControl, WorkerPC, ControlPC

LEMMA TypeEnqueue ==
  ASSUME TypeOK, NEW t \in Task, EnqueueStep(t)
  PROVE  TypeOK'
<1> USE DEF TypeOK, poolVars, statVars, workerVars, callVars, controlVars,
            AtCall, EnqueuePC, FutureState
<1>1. CASE EnqueueStopped(t)
  BY <1>1 DEF EnqueueStopped
<1>2. CASE EnqueueBlock(t)
  BY <1>2 DEF EnqueueBlock
<1>3. CASE EnqueuePush(t)
  BY <1>3, ConfigAssumption DEF EnqueuePush, Push, AdjustThreadCount, WorkerPC
<1>4. CASE EnqueueNotify(t)
  BY <1>4 DEF EnqueueNotify, NotifyCondition, WorkerPC, ControlPC
<1> QED BY <1>1, <1>2, <1>3, <1>4 DEF EnqueueStep

LEMMA TypeWorker ==
  ASSUME TypeOK, NEW w \in Worker, WorkerStep(w)
  PROVE  TypeOK'
<1> USE DEF TypeOK, poolVars, statVars, workerVars, callVars, controlVars,
            WorkerPC
<1>1. CASE WorkerTest(w)
  BY <1>1 DEF WorkerTest
<1>2. CASE WorkerSleep(w)
  BY <1>2 DEF WorkerSleep
<1>3. CASE WorkerTimeout(w)
  BY <1>3 DEF WorkerTimeout
<1>4. CASE WorkerReclaim(w)
  BY <1>4, ConfigAssumption DEF WorkerReclaim
<1>5. CASE WorkerExit(w)
  BY <1>5 DEF WorkerExit
<1>6. CASE WorkerRetry(w)
  BY <1>6 DEF WorkerRetry
<1>7. CASE WorkerPick(w)
  <2>1. enq' \in [Task -> EnqueuePC]
    BY <1>7 DEF WorkerPick, NotifyNotFull, EnqueuePC
  <2> QED BY <1>7, <2>1 DEF WorkerPick
<1>8. CASE WorkerActivate(w)
  BY <1>8 DEF WorkerActivate
<1>9. CASE WorkerExecute(w)
  <2>1. future' \in [Task -> FutureState]
    BY <1>9 DEF WorkerExecute, FutureState
  <2>2. task_wrapper' \in [Worker -> Task \cup {NoTask}]
    BY <1>9 DEF WorkerExecute
  <2> QED BY <1>9, <2>1, <2>2 DEF WorkerExecute
<1>10. CASE WorkerDeactivate(w)
  BY <1>10 DEF WorkerDeactivate
<1>11. CASE WorkerCheckDrained(w)
  BY <1>11 DEF WorkerCheckDrained
<1>12. CASE WorkerNotify(w)
  <2>1. WakeWorkers \in [Worker -> WorkerPC] /\ WakeControl \in ControlPC
    BY TypeNotifyAll
  <2> QED BY <1>12, <2>1 DEF WorkerNotify
<1> QED BY <1>1, <1>2, <1>3, <1>4, <1>5, <1>6, <1>7, <1>8, <1>9, <1>10,
           <1>11, <1>12 DEF WorkerStep

LEMMA TypeControl ==
  ASSUME TypeOK, ControlStep \/ ControlCall \/ Spurious
  PROVE  TypeOK'
<1> USE DEF TypeOK, poolVars, statVars, workerVars, callVars, controlVars,
            ControlPC, PoolState
<1>1. CASE ControlNotify \/ ShutdownNotify \/ ShutdownNotifyStop \/ StopNowNotify
  <2>1. WakeWorkers \in [Worker -> WorkerPC]
    BY TypeNotifyAll
  <2> QED BY <1>1, <2>1 DEF ControlNotify, ShutdownNotify, ShutdownNotifyStop,
             StopNowNotify
<1>2. CASE ShutdownTest
  BY <1>2 DEF ShutdownTest
<1>3. CASE ShutdownSleep \/ ShutdownTimeout \/ ShutdownJoin \/ StopNowJoin
  BY <1>3 DEF ShutdownSleep, ShutdownTimeout, ShutdownJoin, StopNowJoin
<1>4. CASE StopNowClear
  BY <1>4 DEF StopNowClear, FutureState
<1>5. CASE Pause \/ Resume \/ ShutdownBegin \/ ShutdownRefused
  BY <1>5 DEF Pause, Resume, Switch, ShutdownBegin, ShutdownRefused
<1>6. CASE StopNowBegin \/ Destructor
  BY <1>6 DEF StopNowBegin, Destructor
<1>7. CASE Spurious
  BY <1>7 DEF Spurious, SpuriousWake, WorkerPC, EnqueuePC
<1> QED BY <1>1, <1>2, <1>3, <1>4, <1>5, <1>6, <1>7 DEF ControlStep, ControlCall

LEMMA TypeNext == TypeOK /\ [Next]_vars => TypeOK'
<1> SUFFICES ASSUME TypeOK, [Next]_vars PROVE TypeOK'
  OBVIOUS
<1>1. CASE UNCHANGED vars
  BY <1>1 DEF TypeOK, vars, poolVars, statVars, workerVars, callVars, controlVars
<1>2. CASE Next
  BY <1>2, TypeEnqueue, TypeWorker, TypeControl DEF Next
<1> QED BY <1>1, <1>2

\* Every variable of the pool keeps its type, whatever the threads do.
THEOREM TypeCorrect == Spec => []TypeOK
  BY TypeInit, TypeNext, PTL DEF Spec

-----------------------------------------------------------------------------
(* The inductive invariant *)

\* A worker holds a task from the pop until its future is set.
HoldsWhileBusy ==
    \A w \in Worker : task_wrapper[w] # NoTask <=> pc[w] \in {"picked", "running"}

\* A call that has not left its critical section has no future to show.
NoFutureYet ==
    \A t \in Task : enq[t] \in {"idle", "blocked", "woken"} => future[t] = "none"

\* EachTaskInOnePlace, task by task.
Places ==
    /\ \A t \in Task : future[t] = "pending" <=>
                          t \in tasks_ \/ \E w \in Worker : task_wrapper[w] = t
    /\ \A w \in Worker : task_wrapper[w] \notin tasks_
    /\ \A v, w \in Worker :
          task_wrapper[v] = task_wrapper[w] => v = w \/ task_wrapper[v] = NoTask

\* Once stop_ is set, the threads have ended unless the call that set it, or a
\* later stop_now(), is still going to join them; and nobody joins before.
StoppedIsJoined ==
    /\ stop_ => \/ ctl \in {"sd_stopped", "sd_join", "sn_stopped", "sn_join"}
                \/ AllJoined
    /\ ctl \in {"sd_stopped", "sd_join", "sn_stopped", "sn_join"} => stop_

TrueIsJoined == shutdown_ret = "true" => stop_ /\ AllJoined

IInv ==
    /\ TypeOK
    /\ HoldsWhileBusy
    /\ NoFutureYet
    /\ Places
    /\ StoppedIsEmpty
    /\ StoppedIsJoined
    /\ TrueIsJoined

LEMMA InvInit == Init => IInv
<1> SUFFICES ASSUME Init PROVE IInv
  OBVIOUS
<1>1. TypeOK
  BY TypeInit
<1>2. HoldsWhileBusy
  BY DEF Init, HoldsWhileBusy
<1>3. Places
  BY TaskAssumption DEF Init, Places
<1>4. NoFutureYet /\ StoppedIsEmpty /\ StoppedIsJoined /\ TrueIsJoined
  BY DEF Init, NoFutureYet, StoppedIsEmpty, StoppedIsJoined, TrueIsJoined
<1> QED BY <1>1, <1>2, <1>3, <1>4 DEF IInv

\* A notify_all() moves no worker into or out of the busy or ended ones.
LEMMA WakeWorkersKeeps ==
  ASSUME TypeOK, NEW w \in Worker,
         NEW P \in SUBSET (WorkerPC \ {"asleep", "woken"})
  PROVE  WakeWorkers[w] \in P <=> pc[w] \in P
  BY DEF TypeOK, WakeWorkers, WorkerPC

LEMMA NotifyOneKeeps ==
  ASSUME TypeOK, NotifyCondition
  PROVE  /\ \A w \in Worker : pc'[w] = pc[w] \/ (pc[w] = "asleep" /\ pc'[w] = "woken")
         /\ ctl' = ctl \/ (ctl = "sd_asleep" /\ ctl' = "sd_woken")
<1>1. CASE \E w \in Worker : /\ pc[w] = "asleep"
                             /\ pc' = [pc EXCEPT ![w] = "woken"]
                             /\ UNCHANGED ctl
  BY <1>1 DEF TypeOK
<1>2. CASE ctl = "sd_asleep" /\ ctl' = "sd_woken" /\ UNCHANGED pc
  BY <1>2
<1>3. CASE UNCHANGED <<pc, ctl>>
  BY <1>3
<1> QED BY <1>1, <1>2, <1>3 DEF NotifyCondition

LEMMA InvEnqueue ==
  ASSUME IInv, NEW t \in Task, EnqueueStep(t)
  PROVE  IInv'
<1> USE DEF IInv, poolVars, statVars, workerVars, callVars, controlVars
<1>0. TypeOK'
  BY TypeEnqueue
<1>1. CASE EnqueueStopped(t) \/ EnqueueBlock(t)
  BY <1>0, <1>1 DEF TypeOK, EnqueueStopped, EnqueueBlock, AtCall,
     HoldsWhileBusy, NoFutureYet, Places, StoppedIsEmpty, StoppedIsJoined,
     TrueIsJoined, AllJoined
<1>2. CASE EnqueuePush(t)
  <2>1. ~stop_ /\ ~stop_' /\ future[t] = "none" /\ t \notin tasks_
    BY <1>2 DEF EnqueuePush, Push, AtCall, NoFutureYet, Places
  <2>2. \A w \in Worker : pc'[w] \in {"picked", "running"} <=> pc[w] \in {"picked", "running"}
    BY <1>2 DEF EnqueuePush, Push, AdjustThreadCount, TypeOK
  <2>3. HoldsWhileBusy'
    BY <1>2, <2>2 DEF EnqueuePush, Push, HoldsWhileBusy
  <2>4. NoFutureYet'
    BY <1>2 DEF EnqueuePush, Push, NoFutureYet, TypeOK
  <2>5. Places'
    BY <1>2, <2>1 DEF EnqueuePush, Push, Places, TypeOK
  <2>6. StoppedIsEmpty' /\ StoppedIsJoined' /\ TrueIsJoined'
    BY <1>2, <2>1 DEF EnqueuePush, Push, StoppedIsEmpty, StoppedIsJoined, TrueIsJoined
  <2> QED BY <1>0, <2>3, <2>4, <2>5, <2>6
<1>3. CASE EnqueueNotify(t)
  <2>1. /\ \A w \in Worker : pc'[w] = pc[w] \/ (pc[w] = "asleep" /\ pc'[w] = "woken")
        /\ ctl' = ctl \/ (ctl = "sd_asleep" /\ ctl' = "sd_woken")
    BY <1>3, NotifyOneKeeps DEF EnqueueNotify
  <2>3. HoldsWhileBusy' /\ Places' /\ StoppedIsEmpty'
    BY <1>3, <2>1 DEF EnqueueNotify, HoldsWhileBusy, Places, StoppedIsEmpty
  <2>4. NoFutureYet'
    BY <1>3 DEF EnqueueNotify, NoFutureYet, TypeOK
  <2>5. StoppedIsJoined' /\ TrueIsJoined'
    BY <1>3, <2>1 DEF EnqueueNotify, StoppedIsJoined, TrueIsJoined, AllJoined
  <2> QED BY <1>0, <2>3, <2>4, <2>5
<1> QED BY <1>1, <1>2, <1>3 DEF EnqueueStep

\* A step that moves one live worker, neither into nor out of the two points
\* where it holds a task, and leaves tasks and futures alone.
LEMMA InvMove ==
  ASSUME IInv, TypeOK', NEW w \in Worker, NEW q \in WorkerPC,
         pc' = [pc EXCEPT ![w] = q],
         pc[w] \notin {"unborn", "exited"},
         pc[w] \in {"picked", "running"} <=> q \in {"picked", "running"},
         UNCHANGED <<tasks_, stop_, state_, task_wrapper, callVars, controlVars>>
  PROVE  IInv'
<1> USE DEF IInv, callVars, controlVars
<1>1. HoldsWhileBusy'
  BY DEF HoldsWhileBusy, TypeOK
<1>2. NoFutureYet' /\ Places' /\ StoppedIsEmpty'
  BY DEF NoFutureYet, Places, StoppedIsEmpty
<1>3. StoppedIsJoined' /\ TrueIsJoined'
  BY DEF StoppedIsJoined, TrueIsJoined, AllJoined
<1> QED BY <1>1, <1>2, <1>3

LEMMA InvWorker ==
  ASSUME IInv, NEW w \in Worker, WorkerStep(w)
  PROVE  IInv'
<1> USE DEF IInv
<1>0. TypeOK'
  BY TypeWorker
<1>1. CASE WorkerTest(w) \/ WorkerSleep(w) \/ WorkerTimeout(w)
  <2>1. PICK q \in {"awake", "idle", "blocking", "asleep", "expired"} :
           pc' = [pc EXCEPT ![w] = q]
    BY <1>1 DEF WorkerTest, WorkerSleep, WorkerTimeout
  <2>2. pc[w] \in {"unlocked", "woken", "expired", "blocking", "asleep"}
    BY <1>1 DEF WorkerTest, WorkerSleep, WorkerTimeout
  <2>3. UNCHANGED <<tasks_, stop_, state_, task_wrapper, callVars, controlVars>>
    BY <1>1 DEF WorkerTest, WorkerSleep, WorkerTimeout, poolVars
  <2> QED BY <1>0, <2>1, <2>2, <2>3, InvMove DEF WorkerPC
<1>2. CASE WorkerReclaim(w) \/ WorkerExit(w) \/ WorkerRetry(w)
  <2>1. PICK q \in {"exited", "unlocked"} : pc' = [pc EXCEPT ![w] = q]
    BY <1>2 DEF WorkerReclaim, WorkerExit, WorkerRetry
  <2>2. pc[w] \in {"awake", "idle"}
    BY <1>2 DEF WorkerReclaim, WorkerExit, WorkerRetry, PastReclaim
  <2>3. UNCHANGED <<tasks_, stop_, state_, task_wrapper, callVars, controlVars>>
    BY <1>2 DEF WorkerReclaim, WorkerExit, WorkerRetry, poolVars
  <2> QED BY <1>0, <2>1, <2>2, <2>3, InvMove DEF WorkerPC
<1>3. CASE WorkerPick(w)
  <2> USE DEF callVars, controlVars, statVars
  <2>1. PICK t \in tasks_ : /\ task_wrapper' = [task_wrapper EXCEPT ![w] = t]
                            /\ tasks_' = tasks_ \ {t}
    BY <1>3 DEF WorkerPick
  <2>2. /\ pc' = [pc EXCEPT ![w] = "picked"] /\ pc[w] \in {"awake", "idle"}
        /\ UNCHANGED <<stop_, state_, future, ctl, shutdown_ret>>
    BY <1>3 DEF WorkerPick, PastReclaim
  <2>3. t \in Task /\ t # NoTask /\ task_wrapper[w] = NoTask
    BY <2>2, TaskAssumption DEF TypeOK, HoldsWhileBusy
  <2>4. HoldsWhileBusy'
    BY <2>1, <2>2, <2>3 DEF HoldsWhileBusy, TypeOK
  <2>5. NoFutureYet'
    <3>1. \A u \in Task : enq'[u] \in {"idle", "blocked", "woken"}
                             => enq[u] \in {"idle", "blocked", "woken"}
      BY <1>3 DEF WorkerPick, NotifyNotFull, TypeOK
    <3> QED BY <2>2, <3>1 DEF NoFutureYet
  <2>6. Places'
    <3>1. \A v \in Worker : task_wrapper'[v] = IF v = w THEN t ELSE task_wrapper[v]
      BY <2>1 DEF TypeOK
    <3>2. \A v \in Worker : task_wrapper[v] # t
      BY DEF Places
    <3>3. \A u \in Task : (\E v \in Worker : task_wrapper'[v] = u)
                             <=> u = t \/ \E v \in Worker : task_wrapper[v] = u
      BY <2>3, <3>1, TaskAssumption
    <3> QED BY <2>1, <2>2, <2>3, <3>1, <3>2, <3>3 DEF Places
  <2>7. StoppedIsEmpty' /\ StoppedIsJoined' /\ TrueIsJoined'
    BY <2>1, <2>2 DEF StoppedIsEmpty, StoppedIsJoined, TrueIsJoined, AllJoined
  <2> QED BY <1>0, <2>4, <2>5, <2>6, <2>7
<1>4. CASE WorkerActivate(w) \/ WorkerDeactivate(w) \/ WorkerCheckDrained(w)
  <2>1. PICK q \in {"running", "finished", "notifying", "unlocked"} :
           /\ pc' = [pc EXCEPT ![w] = q]
           /\ pc[w] \in {"picked", "ran", "finished"}
           /\ pc[w] = "picked" <=> q = "running"
    BY <1>4 DEF WorkerActivate, WorkerDeactivate, WorkerCheckDrained
  <2>2. UNCHANGED <<tasks_, stop_, state_, task_wrapper, callVars, controlVars>>
    BY <1>4 DEF WorkerActivate, WorkerDeactivate, WorkerCheckDrained, poolVars
  <2> QED BY <1>0, <2>1, <2>2, InvMove DEF WorkerPC
<1>5. CASE WorkerExecute(w)
  <2> DEFINE t == task_wrapper[w]
  <2>1. /\ pc[w] = "running" /\ pc' = [pc EXCEPT ![w] = "ran"]
        /\ task_wrapper' = [task_wrapper EXCEPT ![w] = NoTask]
        /\ UNCHANGED <<tasks_, stop_, state_, enq, ctl, shutdown_ret>>
    BY <1>5 DEF WorkerExecute, poolVars, controlVars
  <2>2. PICK r \in {"value", "exception"} : future' = [future EXCEPT ![t] = r]
    BY <1>5 DEF WorkerExecute
  <2>3. t \in Task /\ t \notin tasks_ /\ future[t] = "pending"
    BY <2>1, TaskAssumption DEF TypeOK, HoldsWhileBusy, Places
  <2>4. HoldsWhileBusy'
    BY <2>1 DEF HoldsWhileBusy, TypeOK
  <2>5. NoFutureYet'
    BY <2>1, <2>2, <2>3 DEF NoFutureYet, TypeOK
  <2>6. Places'
    <3>1. \A v \in Worker : v # w => task_wrapper[v] # t
      BY <2>3, TaskAssumption DEF Places
    <3>2. NoTask \notin tasks_
      BY TaskAssumption DEF TypeOK
    <3> QED BY <2>1, <2>2, <2>3, <3>1, <3>2, TaskAssumption DEF Places, TypeOK
  <2>7. StoppedIsEmpty' /\ StoppedIsJoined' /\ TrueIsJoined'
    BY <2>1 DEF StoppedIsEmpty, StoppedIsJoined, TrueIsJoined, AllJoined
  <2> QED BY <1>0, <2>4, <2>5, <2>6, <2>7
<1>6. CASE WorkerNotify(w)
  <2> USE DEF callVars
  <2>1. \A v \in Worker : /\ pc'[v] \in {"picked", "running"} <=> pc[v] \in {"picked", "running"}
                          /\ pc[v] \in {"unborn", "exited"} => pc'[v] = pc[v]
    BY <1>6 DEF WorkerNotify, WakeWorkers, TypeOK
  <2>2. /\ pc[w] = "notifying" /\ ctl' = WakeControl
        /\ UNCHANGED <<tasks_, stop_, state_, task_wrapper, enq, future, shutdown_ret>>
    BY <1>6 DEF WorkerNotify, poolVars
  <2>3. HoldsWhileBusy' /\ NoFutureYet' /\ Places' /\ StoppedIsEmpty'
    BY <2>1, <2>2 DEF HoldsWhileBusy, NoFutureYet, Places, StoppedIsEmpty
  <2>4. StoppedIsJoined' /\ TrueIsJoined'
    BY <2>1, <2>2 DEF StoppedIsJoined, TrueIsJoined, AllJoined, WakeControl
  <2> QED BY <1>0, <2>3, <2>4
<1> QED BY <1>1, <1>2, <1>3, <1>4, <1>5, <1>6 DEF WorkerStep

LEMMA InvControl ==
  ASSUME IInv, ControlStep \/ ControlCall \/ Spurious
  PROVE  IInv'
<1> USE DEF IInv
<1>0. TypeOK'
  BY TypeControl
<1>1. CASE ControlNotify \/ ShutdownNotify \/ ShutdownNotifyStop \/ StopNowNotify
  <2>1. \A v \in Worker : /\ pc'[v] \in {"picked", "running"} <=> pc[v] \in {"picked", "running"}
                          /\ pc[v] \in {"unborn", "exited"} => pc'[v] = pc[v]
    BY <1>1 DEF ControlNotify, ShutdownNotify, ShutdownNotifyStop, StopNowNotify,
       WakeWorkers, TypeOK
  <2>2. /\ \/ ctl = "notifying" /\ ctl' = "idle"
           \/ ctl = "sd_notify" /\ ctl' = "sd_enter"
           \/ ctl = "sd_stopped" /\ ctl' = "sd_join"
           \/ ctl = "sn_stopped" /\ ctl' = "sn_join"
        /\ UNCHANGED <<tasks_, stop_, state_, task_wrapper, enq, future, shutdown_ret>>
    BY <1>1 DEF ControlNotify, ShutdownNotify, ShutdownNotifyStop, StopNowNotify,
       poolVars, callVars
  <2>3. HoldsWhileBusy' /\ NoFutureYet' /\ Places' /\ StoppedIsEmpty'
    BY <2>1, <2>2 DEF HoldsWhileBusy, NoFutureYet, Places, StoppedIsEmpty
  <2>4. StoppedIsJoined' /\ TrueIsJoined'
    BY <2>1, <2>2 DEF StoppedIsJoined, TrueIsJoined, AllJoined
  <2> QED BY <1>0, <2>3, <2>4
<1>2. CASE ShutdownTest
  <2>1. UNCHANGED <<tasks_, pc, task_wrapper, enq, future>>
    BY <1>2 DEF ShutdownTest, workerVars, callVars
  <2>2. HoldsWhileBusy' /\ NoFutureYet' /\ Places'
    BY <2>1 DEF HoldsWhileBusy, NoFutureYet, Places
  <2>3. StoppedIsEmpty' /\ StoppedIsJoined' /\ TrueIsJoined'
    BY <1>2, <2>1 DEF ShutdownTest, Drained, StoppedIsEmpty, StoppedIsJoined,
       TrueIsJoined, AllJoined
  <2> QED BY <1>0, <2>2, <2>3
<1>3. CASE ShutdownSleep \/ ShutdownTimeout \/ ShutdownJoin \/ StopNowJoin
           \/ ShutdownRefused \/ StopNowBegin \/ Destructor
  <2>1. UNCHANGED <<tasks_, stop_, state_, pc, task_wrapper, enq, future>>
    BY <1>3 DEF ShutdownSleep, ShutdownTimeout, ShutdownJoin, StopNowJoin,
       ShutdownRefused, StopNowBegin, Destructor, poolVars, workerVars, callVars
  <2>2. HoldsWhileBusy' /\ NoFutureYet' /\ Places' /\ StoppedIsEmpty'
    BY <2>1 DEF HoldsWhileBusy, NoFutureYet, Places, StoppedIsEmpty
  <2>3. StoppedIsJoined'
    BY <1>3, <2>1 DEF ShutdownSleep, ShutdownTimeout, ShutdownJoin, StopNowJoin,
       ShutdownRefused, StopNowBegin, Destructor, StoppedIsJoined, AllJoined
  <2>4. TrueIsJoined'
    <3>1. CASE ShutdownJoin
      <4>1. stop_
        BY <3>1 DEF ShutdownJoin, StoppedIsJoined
      <4> QED BY <3>1, <4>1, <2>1 DEF ShutdownJoin, TrueIsJoined, AllJoined
    <3>2. CASE ShutdownRefused
      BY <3>2, <2>1 DEF ShutdownRefused, StoppedIsEmpty, StoppedIsJoined,
         TrueIsJoined, AllJoined
    <3>3. CASE UNCHANGED shutdown_ret
      BY <3>3, <2>1 DEF TrueIsJoined, AllJoined
    <3> QED BY <1>3, <3>1, <3>2, <3>3 DEF ShutdownSleep, ShutdownTimeout,
               StopNowJoin, StopNowBegin, Destructor
  <2> QED BY <1>0, <2>2, <2>3, <2>4
<1>4. CASE StopNowClear
  <2>1. /\ stop_' = TRUE /\ state_' = "STOPPED" /\ tasks_' = {} /\ ctl' = "sn_stopped"
        /\ future' = [t \in Task |-> IF t \in tasks_ THEN "broken" ELSE future[t]]
        /\ UNCHANGED <<pc, task_wrapper, enq, shutdown_ret>>
    BY <1>4 DEF StopNowClear, workerVars
  <2>2. HoldsWhileBusy'
    BY <2>1 DEF HoldsWhileBusy
  <2>3. NoFutureYet'
    BY <2>1 DEF NoFutureYet, Places
  <2>4. Places'
    BY <2>1 DEF Places, TypeOK
  <2>5. StoppedIsEmpty' /\ StoppedIsJoined' /\ TrueIsJoined'
    BY <2>1 DEF StoppedIsEmpty, StoppedIsJoined, TrueIsJoined, AllJoined
  <2> QED BY <1>0, <2>2, <2>3, <2>4, <2>5
<1>5. CASE Pause \/ Resume \/ ShutdownBegin
  <2>1. /\ state_ # "STOPPED" /\ state_' # "STOPPED" /\ ctl' \in {"notifying", "sd_notify"}
        /\ UNCHANGED <<tasks_, stop_, pc, task_wrapper, enq, future, shutdown_ret>>
    BY <1>5 DEF Pause, Resume, Switch, ShutdownBegin, workerVars, callVars
  <2>2. HoldsWhileBusy' /\ NoFutureYet' /\ Places' /\ TrueIsJoined'
    BY <2>1 DEF HoldsWhileBusy, NoFutureYet, Places, TrueIsJoined, AllJoined
  <2>3. StoppedIsEmpty' /\ StoppedIsJoined'
    BY <2>1 DEF StoppedIsEmpty, StoppedIsJoined
  <2> QED BY <1>0, <2>2, <2>3
<1>6. CASE Spurious
  <2>1. \A v \in Worker : pc'[v] = pc[v] \/ (pc[v] = "asleep" /\ pc'[v] = "woken")
    BY <1>6 DEF Spurious, SpuriousWake, TypeOK
  <2>2. \A t \in Task : enq'[t] = enq[t] \/ (enq[t] = "blocked" /\ enq'[t] = "woken")
    BY <1>6 DEF Spurious, SpuriousWake, TypeOK
  <2>3. /\ ctl' = ctl \/ (ctl = "sd_asleep" /\ ctl' = "sd_woken")
        /\ UNCHANGED <<tasks_, stop_, state_, task_wrapper, future, shutdown_ret>>
    BY <1>6 DEF Spurious, SpuriousWake, poolVars
  <2>4. HoldsWhileBusy' /\ NoFutureYet' /\ Places' /\ StoppedIsEmpty'
    BY <2>1, <2>2, <2>3 DEF HoldsWhileBusy, NoFutureYet, Places, StoppedIsEmpty
  <2>5. StoppedIsJoined' /\ TrueIsJoined'
    BY <2>1, <2>3 DEF StoppedIsJoined, TrueIsJoined, AllJoined
  <2> QED BY <1>0, <2>4, <2>5
<1> QED BY <1>1, <1>2, <1>3, <1>4, <1>5, <1>6 DEF ControlStep, ControlCall

LEMMA InvNext == IInv /\ [Next]_vars => IInv'
<1> SUFFICES ASSUME IInv, [Next]_vars PROVE IInv'
  OBVIOUS
<1>1. CASE UNCHANGED vars
  BY <1>1, TypeNext DEF IInv, HoldsWhileBusy, NoFutureYet, Places, StoppedIsEmpty,
     StoppedIsJoined, TrueIsJoined, AllJoined, vars, poolVars, statVars,
     workerVars, callVars, controlVars
<1>2. CASE Next
  BY <1>2, InvEnqueue, InvWorker, InvControl DEF Next
<1> QED BY <1>1, <1>2

LEMMA Inductive == Spec => []IInv
  BY InvInit, InvNext, PTL DEF Spec

-----------------------------------------------------------------------------
(* What follows from it *)

\* The tasks that some worker holds, whether or not Held asks for a live one.
LEMMA HeldIs ==
  ASSUME IInv
  PROVE  \A t \in Task : t \in Held <=> \E w \in Worker : task_wrapper[w] = t
  BY TaskAssumption DEF IInv, HoldsWhileBusy, Held, Live

LEMMA InOnePlace == IInv => EachTaskInOnePlace
<1> SUFFICES ASSUME IInv PROVE EachTaskInOnePlace
  OBVIOUS
<1>1. Held \subseteq Task
  BY DEF Held, Live, IInv, TypeOK
<1>2. {t \in Task : future[t] = "pending"} = tasks_ \cup Held
  BY <1>1, HeldIs DEF IInv, Places, TypeOK
<1>3. tasks_ \cap Held = {}
  BY <1>1, HeldIs DEF IInv, Places
<1> QED BY <1>2, <1>3 DEF EachTaskInOnePlace, IInv, Places

\* No accepted task is lost, queued twice, or in two workers' hands: enqueue(),
\* the pop in worker_thread(), execute() and the clearing in stop_now() keep
\* every open future's task in exactly one place, for any number of producers
\* and workers.
THEOREM TasksConserved == Spec => []EachTaskInOnePlace
  BY Inductive, InOnePlace, PTL

\* After stop_ is set the queue stays empty, and STOPPED is stop_.
THEOREM StoppedStaysEmpty == Spec => []StoppedIsEmpty
<1>1. IInv => StoppedIsEmpty
  BY DEF IInv
<1> QED BY <1>1, Inductive, PTL

LEMMA TrueIsQuiet == IInv => ShutdownTrueMeansQuiet
<1> SUFFICES ASSUME IInv, shutdown_ret = "true"
             PROVE  Live = {} /\ \A t \in Task : future[t] # "pending"
  BY DEF ShutdownTrueMeansQuiet
<1>1. stop_ /\ AllJoined
  BY DEF IInv, TrueIsJoined
<1>2. Live = {}
  BY <1>1 DEF Live, AllJoined
<1>3. tasks_ = {}
  BY <1>1 DEF IInv, StoppedIsEmpty
<1>4. \A w \in Worker : task_wrapper[w] = NoTask
  BY <1>1 DEF IInv, HoldsWhileBusy, AllJoined
<1> QED BY <1>2, <1>3, <1>4, TaskAssumption DEF IInv, Places

\* When shutdown() returns true, all threads have ended and every accepted task
\* has its result, although the drained test misses the task that a worker has
\* popped and not yet counted: it is the join that waits for it.
THEOREM ShutdownIsQuiet == Spec => []ShutdownTrueMeansQuiet
  BY Inductive, TrueIsQuiet, PTL

LEMMA SetOnceStep ==
  ASSUME IInv, Next, NEW t \in Task, future'[t] # future[t]
  PROVE  future[t] \in {"none", "pending"} /\ future'[t] # "none"
<1> USE DEF IInv, poolVars, statVars, workerVars, callVars, controlVars
<1>1. CASE \E u \in Task : EnqueueStopped(u) \/ EnqueuePush(u)
  BY <1>1 DEF EnqueueStopped, EnqueuePush, Push, AtCall, NoFutureYet, TypeOK
<1>2. CASE \E w \in Worker : WorkerExecute(w)
  <2>1. PICK w \in Worker : WorkerExecute(w)
    BY <1>2
  <2>2. task_wrapper[w] \in Task /\ future[task_wrapper[w]] = "pending"
    BY <2>1, TaskAssumption DEF WorkerExecute, HoldsWhileBusy, Places, TypeOK
  <2> QED BY <2>1, <2>2 DEF WorkerExecute, TypeOK
<1>3. CASE StopNowClear
  BY <1>3 DEF StopNowClear, Places, TypeOK
<1>4. \/ \E u \in Task : EnqueueStopped(u) \/ EnqueuePush(u)
      \/ \E w \in Worker : WorkerExecute(w)
      \/ StopNowClear
  <2>1. ASSUME NEW u \in Task, EnqueueBlock(u) \/ EnqueueNotify(u) PROVE UNCHANGED future
    BY <2>1 DEF EnqueueBlock, EnqueueNotify
  <2>2. ASSUME NEW w \in Worker, WorkerStep(w), ~WorkerExecute(w) PROVE UNCHANGED future
    BY <2>2 DEF WorkerStep, WorkerTest, WorkerSleep, WorkerTimeout, WorkerReclaim,
       WorkerExit, WorkerRetry, WorkerPick, WorkerActivate, WorkerDeactivate,
       WorkerCheckDrained, WorkerNotify
  <2>3. ASSUME ControlStep, ~StopNowClear PROVE UNCHANGED future
    BY <2>3 DEF ControlStep, ControlNotify, ShutdownNotify, ShutdownTest,
       ShutdownSleep, ShutdownTimeout, ShutdownNotifyStop, ShutdownJoin,
       StopNowNotify, StopNowJoin
  <2>4. ASSUME ControlCall \/ Spurious PROVE UNCHANGED future
    BY <2>4 DEF ControlCall, Pause, Resume, Switch, ShutdownBegin, ShutdownRefused,
       StopNowBegin, Destructor, Spurious
  <2> QED BY <2>1, <2>2, <2>3, <2>4 DEF Next, EnqueueStep
<1> QED BY <1>1, <1>2, <1>3, <1>4

\* The shared state of a future is written once: no worker, no refused
\* enqueue() and no stop_now() replaces a result that a caller may have read.
THEOREM FuturesSetOnce == Spec => FutureSetOnce
<1>1. IInv /\ [Next]_vars => [\A t \in Task :
          future'[t] # future[t] => /\ future[t] \in {"none", "pending"}
                                    /\ future'[t] # "none"]_vars
  BY SetOnceStep
<1> QED BY <1>1, Inductive, PTL DEF Spec, FutureSetOnce

Active == {w \in Worker : pc[w] \in {"running", "ran"}}

-----------------------------------------------------------------------------
(* The counters: the sets of live and of active threads, step by step *)

\* One thread is added by a successful adjust_thread_count(), one is taken
\* away by the reclaiming of an idle thread, and the others end after stop_.
LiveStep ==
    \/ UNCHANGED current_threads_ /\ Live' = Live
    \/ stop_ /\ UNCHANGED current_threads_
    \/ \E w \in Worker \ Live : /\ Live' = Live \cup {w}
                                /\ current_threads_ < Max
                                /\ current_threads_' = current_threads_ + 1
    \/ \E w \in Live : /\ Live' = Live \ {w}
                       /\ current_threads_ > Core
                       /\ current_threads_' = current_threads_ - 1

ActiveStep ==
    \/ UNCHANGED active_threads_ /\ Active' = Active
    \/ \E w \in Worker \ Active : /\ Active' = Active \cup {w}
                                  /\ active_threads_' = active_threads_ + 1
    \/ \E w \in Active : /\ Active' = Active \ {w}
                         /\ active_threads_' = active_threads_ - 1

\* Waking a sleeper changes neither set.
LEMMA WakingKeepsSets ==
  ASSUME TypeOK, TypeOK',
         \A w \in Worker : pc'[w] = pc[w] \/ (pc[w] = "asleep" /\ pc'[w] = "woken")
  PROVE  Live' = Live /\ Active' = Active
  BY DEF TypeOK, Live, Active

LEMMA CountEnqueue ==
  ASSUME IInv, TypeOK', NEW t \in Task, EnqueueStep(t)
  PROVE  LiveStep /\ ActiveStep
<1> USE DEF IInv, poolVars, statVars, workerVars, callVars, controlVars
<1>1. CASE EnqueueStopped(t) \/ EnqueueBlock(t)
  BY <1>1 DEF EnqueueStopped, EnqueueBlock, LiveStep, ActiveStep, Live, Active
<1>2. CASE EnqueuePush(t)
  <2>1. CASE UNCHANGED <<pc, current_threads_>>
    BY <1>2, <2>1 DEF EnqueuePush, Push, LiveStep, ActiveStep, Live, Active
  <2>2. CASE /\ current_threads_ < Max
             /\ \E w \in Worker : pc[w] = "unborn" /\ pc' = [pc EXCEPT ![w] = "unlocked"]
             /\ current_threads_' = current_threads_ + 1
    <3>1. PICK w \in Worker : pc[w] = "unborn" /\ pc' = [pc EXCEPT ![w] = "unlocked"]
      BY <2>2
    <3>2. w \notin Live /\ Live' = Live \cup {w} /\ Active' = Active
      BY <3>1 DEF Live, Active, TypeOK
    <3> QED BY <1>2, <2>2, <3>2 DEF EnqueuePush, Push, LiveStep, ActiveStep
  <2> QED BY <1>2, <2>1, <2>2 DEF EnqueuePush, Push, AdjustThreadCount
<1>3. CASE EnqueueNotify(t)
  <2>1. Live' = Live /\ Active' = Active
    BY <1>3, NotifyOneKeeps, WakingKeepsSets DEF EnqueueNotify
  <2> QED BY <1>3, <2>1 DEF EnqueueNotify, LiveStep, ActiveStep
<1> QED BY <1>1, <1>2, <1>3 DEF EnqueueStep

LEMMA CountWorker ==
  ASSUME IInv, TypeOK', NEW w \in Worker, WorkerStep(w)
  PROVE  LiveStep /\ ActiveStep
<1> USE DEF IInv, poolVars, statVars, workerVars, callVars, controlVars
<1>1. CASE WorkerTest(w) \/ WorkerSleep(w) \/ WorkerTimeout(w) \/ WorkerRetry(w)
           \/ WorkerPick(w) \/ WorkerExecute(w) \/ WorkerCheckDrained(w)
  <2>1. Live' = Live /\ Active' = Active
    BY <1>1 DEF WorkerTest, WorkerSleep, WorkerTimeout, WorkerRetry, WorkerPick,
       WorkerExecute, WorkerCheckDrained, PastReclaim, Live, Active, TypeOK
  <2> QED BY <1>1, <2>1 DEF WorkerTest, WorkerSleep, WorkerTimeout, WorkerRetry,
             WorkerPick, WorkerExecute, WorkerCheckDrained, LiveStep, ActiveStep
<1>2. CASE WorkerReclaim(w)
  <2>1. w \in Live /\ Live' = Live \ {w} /\ Active' = Active
    BY <1>2 DEF WorkerReclaim, Live, Active, TypeOK
  <2> QED BY <1>2, <2>1 DEF WorkerReclaim, LiveStep, ActiveStep
<1>3. CASE WorkerExit(w)
  <2>1. stop_
    BY <1>3 DEF WorkerExit, StoppedAndEmpty, StoppedIsEmpty
  <2>2. Active' = Active
    BY <1>3 DEF WorkerExit, PastReclaim, Active, TypeOK
  <2> QED BY <1>3, <2>1, <2>2 DEF WorkerExit, LiveStep, ActiveStep
<1>4. CASE WorkerActivate(w)
  <2>1. w \notin Active /\ Active' = Active \cup {w} /\ Live' = Live
    BY <1>4 DEF WorkerActivate, Live, Active, TypeOK
  <2> QED BY <1>4, <2>1 DEF WorkerActivate, LiveStep, ActiveStep
<1>5. CASE WorkerDeactivate(w)
  <2>1. w \in Active /\ Active' = Active \ {w} /\ Live' = Live
    BY <1>5 DEF WorkerDeactivate, Live, Active, TypeOK
  <2> QED BY <1>5, <2>1 DEF WorkerDeactivate, LiveStep, ActiveStep
<1>6. CASE WorkerNotify(w)
  <2>1. Live' = Live /\ Active' = Active
    BY <1>6 DEF WorkerNotify, WakeWorkers, Live, Active, TypeOK
  <2> QED BY <1>6, <2>1 DEF WorkerNotify, LiveStep, ActiveStep
<1> QED BY <1>1, <1>2, <1>3, <1>4, <1>5, <1>6 DEF WorkerStep

LEMMA CountControl ==
  ASSUME IInv, TypeOK', ControlStep \/ ControlCall \/ Spurious
  PROVE  LiveStep /\ ActiveStep
<1> USE DEF IInv, poolVars, statVars, workerVars, callVars, controlVars
<1>1. UNCHANGED <<current_threads_, active_threads_>>
  BY DEF ControlStep, ControlNotify, ShutdownNotify, ShutdownTest, ShutdownSleep,
     ShutdownTimeout, ShutdownNotifyStop, ShutdownJoin, StopNowClear, StopNowNotify,
     StopNowJoin, ControlCall, Pause, Resume, Switch, ShutdownBegin,
     ShutdownRefused, StopNowBegin, Destructor, Spurious
<1>2. pc' = pc \/ pc' = WakeWorkers \/ Spurious
  BY DEF ControlStep, ControlNotify, ShutdownNotify, ShutdownTest, ShutdownSleep,
     ShutdownTimeout, ShutdownNotifyStop, ShutdownJoin, StopNowClear, StopNowNotify,
     StopNowJoin, ControlCall, Pause, Resume, Switch, ShutdownBegin,
     ShutdownRefused, StopNowBegin, Destructor
<1>3. \A w \in Worker : pc'[w] = pc[w] \/ (pc[w] = "asleep" /\ pc'[w] = "woken")
  BY <1>2 DEF WakeWorkers, Spurious, SpuriousWake, TypeOK
<1> QED BY <1>1, <1>3, WakingKeepsSets DEF LiveStep, ActiveStep

-----------------------------------------------------------------------------
(* How many tasks wait, how many threads there are and how many are active *)

CountInv ==
    /\ ~stop_ => current_threads_ = Cardinality(Live)
    /\ current_threads_ \in Core .. Max
    /\ ActiveCounted
    /\ QueueBounded

LEMMA SetsAreFinite ==
  ASSUME TypeOK
  PROVE  IsFiniteSet(Live) /\ IsFiniteSet(Active) /\ IsFiniteSet(tasks_)
<1>1. Live \in SUBSET Worker /\ Active \in SUBSET Worker /\ tasks_ \in SUBSET Task
  BY DEF Live, Active, TypeOK
<1> QED BY <1>1, FS_Subset, WorkerAssumption, TaskAssumption

LEMMA CountInit == Init => CountInv
<1> SUFFICES ASSUME Init PROVE CountInv
  OBVIOUS
<1>1. PICK W \in SUBSET Worker :
         /\ Cardinality(W) = Core
         /\ pc = [w \in Worker |-> IF w \in W THEN "unlocked" ELSE "unborn"]
  BY DEF Init
<1>2. Live = W /\ Active = {}
  BY <1>1 DEF Live, Active
<1>3. ActiveCounted
  BY <1>2, FS_EmptySet DEF ActiveCounted, Active, Init
<1>4. QueueBounded
  BY FS_EmptySet, ConfigAssumption DEF QueueBounded, Init
<1> QED BY <1>1, <1>2, <1>3, <1>4, ConfigAssumption DEF CountInv, Init

\* stop_ is never taken back.
LEMMA StopStays == IInv /\ Next => (stop_ => stop_')
<1> SUFFICES ASSUME IInv, Next, stop_ PROVE stop_'
  OBVIOUS
<1> USE DEF poolVars
<1>1. ASSUME NEW t \in Task, EnqueueStep(t) PROVE stop_'
  BY <1>1 DEF EnqueueStep, EnqueueStopped, EnqueueBlock, EnqueuePush, EnqueueNotify
<1>2. ASSUME NEW w \in Worker, WorkerStep(w) PROVE stop_'
  BY <1>2 DEF WorkerStep, WorkerTest, WorkerSleep, WorkerTimeout, WorkerReclaim,
     WorkerExit, WorkerRetry, WorkerPick, WorkerActivate, WorkerExecute,
     WorkerDeactivate, WorkerCheckDrained, WorkerNotify
<1>3. ASSUME ControlStep \/ ControlCall \/ Spurious PROVE stop_'
  BY <1>3 DEF ControlStep, ControlNotify, ShutdownNotify, ShutdownTest,
     ShutdownSleep, ShutdownTimeout, ShutdownNotifyStop, ShutdownJoin, StopNowClear,
     StopNowNotify, StopNowJoin, ControlCall, Pause, Resume, Switch,
     ShutdownBegin, ShutdownRefused, StopNowBegin, Destructor, Spurious
<1> QED BY <1>1, <1>2, <1>3 DEF Next

\* The queue grows by one task in EnqueuePush and by nothing else.
LEMMA QueueStep == IInv /\ QueueBounded /\ Next => QueueBounded'
<1> SUFFICES ASSUME IInv, QueueBounded, Next PROVE QueueBounded'
  OBVIOUS
<1>0. IsFiniteSet(tasks_) /\ Cardinality(tasks_) \in Nat
  BY SetsAreFinite, FS_CardinalityType DEF IInv
<1>1. CASE \E t \in Task : EnqueuePush(t)
  <2>1. PICK t \in Task : ~QueueFull /\ tasks_' = tasks_ \cup {t}
    BY <1>1 DEF EnqueuePush, Push
  <2>2. Cardinality(tasks_') <= Cardinality(tasks_) + 1
    BY <2>1, <1>0, FS_AddElement
  <2> QED BY <1>0, <2>1, <2>2, FS_AddElement, FS_CardinalityType, ConfigAssumption
          DEF QueueFull, QueueBounded
<1>2. CASE tasks_' \in SUBSET tasks_
  <2>1. Cardinality(tasks_') <= Cardinality(tasks_) /\ Cardinality(tasks_') \in Nat
    BY <1>0, <1>2, FS_Subset, FS_CardinalityType
  <2> QED BY <1>0, <2>1, ConfigAssumption DEF QueueBounded
<1>3. (\E t \in Task : EnqueuePush(t)) \/ tasks_' \in SUBSET tasks_
  <2> USE DEF poolVars
  <2>1. ASSUME NEW t \in Task, EnqueueStep(t), ~EnqueuePush(t) PROVE tasks_' = tasks_
    BY <2>1 DEF EnqueueStep, EnqueueStopped, EnqueueBlock, EnqueueNotify
  <2>2. ASSUME NEW w \in Worker, WorkerStep(w) PROVE tasks_' \in SUBSET tasks_
    BY <2>2 DEF WorkerStep, WorkerTest, WorkerSleep, WorkerTimeout, WorkerReclaim,
       WorkerExit, WorkerRetry, WorkerPick, WorkerActivate, WorkerExecute,
       WorkerDeactivate, WorkerCheckDrained, WorkerNotify
  <2>3. ASSUME ControlStep \/ ControlCall \/ Spurious PROVE tasks_' \in SUBSET tasks_
    BY <2>3 DEF ControlStep, ControlNotify, ShutdownNotify, ShutdownTest,
       ShutdownSleep, ShutdownTimeout, ShutdownNotifyStop, ShutdownJoin, StopNowClear,
       StopNowNotify, StopNowJoin, ControlCall, Pause, Resume, Switch,
       ShutdownBegin, ShutdownRefused, StopNowBegin, Destructor, Spurious
  <2> QED BY <2>1, <2>2, <2>3 DEF Next
<1> QED BY <1>1, <1>2, <1>3

LEMMA CountNext == IInv /\ CountInv /\ [Next]_vars => CountInv'
<1> SUFFICES ASSUME IInv, CountInv, [Next]_vars PROVE CountInv'
  OBVIOUS
<1>1. CASE UNCHANGED vars
  BY <1>1 DEF CountInv, ActiveCounted, QueueBounded, Live, vars, poolVars,
     statVars, workerVars
<1>2. CASE Next
  <2>1. LiveStep /\ ActiveStep
    BY <1>2, TypeNext, CountEnqueue, CountWorker, CountControl DEF IInv, Next
  <2>2. IsFiniteSet(Live) /\ IsFiniteSet(Active)
    BY SetsAreFinite DEF IInv
  <2>3. Cardinality(Live) \in Nat /\ Cardinality(Active) \in Nat
    BY <2>2, FS_CardinalityType
  <2>4. ~stop_' => current_threads_' = Cardinality(Live')
    BY <1>2, <2>1, <2>2, <2>3, StopStays, FS_AddElement, FS_RemoveElement
       DEF LiveStep, CountInv
  <2>5. current_threads_' \in Core .. Max
    BY <2>1, ConfigAssumption DEF LiveStep, CountInv
  <2>6. active_threads_' = Cardinality(Active')
    <3>1. active_threads_ = Cardinality(Active)
      BY DEF CountInv, ActiveCounted, Active
    <3> QED BY <2>1, <2>2, <2>3, <3>1, FS_AddElement, FS_RemoveElement DEF ActiveStep
  <2>7. ActiveCounted'
    BY <2>6 DEF ActiveCounted, Active
  <2>8. QueueBounded'
    BY <1>2, QueueStep DEF CountInv
  <2> QED BY <2>4, <2>5, <2>7, <2>8 DEF CountInv
<1> QED BY <1>1, <1>2

LEMMA Counted == Spec => [](IInv /\ CountInv)
<1>1. Init => IInv /\ CountInv
  BY InvInit, CountInit
<1>2. IInv /\ CountInv /\ [Next]_vars => (IInv /\ CountInv)'
  BY InvNext, CountNext
<1> QED BY <1>1, <1>2, PTL DEF Spec

\* Back-pressure for any number of producers: the queue never holds more than
\* max_queue_size tasks.
THEOREM QueueStaysBounded == Spec => []QueueBounded
<1>1. CountInv => QueueBounded
  BY DEF CountInv
<1> QED BY <1>1, Counted, PTL

\* Until the pool stops, current_threads_ is the number of threads there are,
\* and it stays between core_threads and max_threads.
THEOREM ThreadsStayCounted == Spec => []ThreadsCounted
<1>1. CountInv => ThreadsCounted
  BY DEF CountInv, ThreadsCounted
<1> QED BY <1>1, Counted, PTL

\* active_threads_ is the number of threads between its increment and its
\* decrement in worker_thread(), and so never negative.
THEOREM ActiveStaysCounted == Spec => []ActiveCounted
<1>1. CountInv => ActiveCounted
  BY DEF CountInv
<1> QED BY <1>1, Counted, PTL

-----------------------------------------------------------------------------
(* The thread pool implements the TaskService *)

\* The mapping of a state of the pool to one of the service.
Mapped == <<tasks_, stop_, future, Held>>

\* Where the tasks and the workers' hands stay as they are, Held does.
LEMMA HeldStays ==
  ASSUME IInv, IInv', UNCHANGED task_wrapper
  PROVE  Held' = Held
<1>1. Held \subseteq Task /\ Held' \subseteq Task
  BY DEF IInv, TypeOK, Held, Live
<1>2. \A t \in Task : t \in Held <=> t \in Held'
  <2>1. \A t \in Task : t \in Held <=> \E w \in Worker : task_wrapper[w] = t
    BY HeldIs
  <2>2. \A t \in Task : t \in Held' <=> \E w \in Worker : task_wrapper'[w] = t
    BY TaskAssumption DEF IInv, HoldsWhileBusy, Held, Live
  <2> QED BY <2>1, <2>2
<1> QED BY <1>1, <1>2

\* The instance's own copy of the standard operator.
LEMMA SameCardinality == \A S : Service!Cardinality(S) = Cardinality(S)
  BY Zenon DEF Service!Cardinality, Cardinality

LEMMA MapInit == Init => Service!Init
<1> SUFFICES ASSUME Init PROVE Service!Init
  OBVIOUS
<1>1. Held = {}
  BY DEF Init, Held, Live
<1> QED BY <1>1 DEF Init, Service!Init

\* A worker that comes to fetch a task has empty hands, so fewer tasks are held
\* than there are threads.
LEMMA SlotFree ==
  ASSUME IInv, CountInv, NEW w \in Worker, pc[w] \in {"awake", "idle"}, ~stop_
  PROVE  Cardinality(Held) < Max
<1> DEFINE Other == Live \ {w}
           hand == [t \in Held |-> CHOOSE v \in Other : task_wrapper[v] = t]
<1>1. task_wrapper[w] = NoTask /\ w \in Live
  BY DEF IInv, HoldsWhileBusy, Live
<1>2. \A t \in Held : hand[t] \in Other /\ task_wrapper[hand[t]] = t
  BY <1>1 DEF Held
<1>3. hand \in Injection(Held, Other)
  BY <1>2 DEF Injection, IsInjective
<1>4. IsFiniteSet(Live) /\ Cardinality(Live) \in Nat
  BY SetsAreFinite, FS_CardinalityType DEF IInv
<1>5. IsFiniteSet(Other) /\ Cardinality(Other) = Cardinality(Live) - 1
  BY <1>1, <1>4, FS_RemoveElement
<1>6. IsFiniteSet(Held) /\ Cardinality(Held) <= Cardinality(Other)
  BY <1>3, <1>5, FS_Injection
<1>7. Cardinality(Live) <= Max
  BY ConfigAssumption DEF CountInv
<1>8. Cardinality(Held) \in Nat
  BY <1>6, FS_CardinalityType
<1> QED BY <1>4, <1>5, <1>6, <1>7, <1>8, ConfigAssumption

LEMMA MapEnqueue ==
  ASSUME IInv, IInv', NEW t \in Task, EnqueueStep(t)
  PROVE  Service!Next \/ UNCHANGED Mapped
<1> USE DEF poolVars, statVars, workerVars, callVars, controlVars
<1>0. Held' = Held
  BY HeldStays DEF EnqueueStep, EnqueueStopped, EnqueueBlock, EnqueuePush, Push,
     EnqueueNotify
<1>1. CASE EnqueueStopped(t)
  <2>1. Service!Refuse(t)
    BY <1>0, <1>1 DEF EnqueueStopped, AtCall, IInv, NoFutureYet, Service!Refuse
  <2> QED BY <2>1 DEF Service!Next
<1>2. CASE EnqueuePush(t)
  <2>1. future[t] = "none"
    BY <1>2 DEF EnqueuePush, AtCall, IInv, NoFutureYet
  <2>2. MaxQueue > 0 => Cardinality(tasks_) < MaxQueue
    <3>1. Cardinality(tasks_) \in Nat
      BY SetsAreFinite, FS_CardinalityType DEF IInv
    <3> QED BY <1>2, <3>1, ConfigAssumption DEF EnqueuePush, QueueFull
  <2>3. /\ ~stop_ /\ tasks_' = tasks_ \cup {t}
        /\ future' = [future EXCEPT ![t] = "pending"]
        /\ UNCHANGED stop_
    BY <1>2 DEF EnqueuePush, Push
  <2>4. Service!Submit(t)
    BY <1>0, <2>1, <2>2, <2>3, SameCardinality DEF Service!Submit
  <2> QED BY <2>4 DEF Service!Next
<1>3. CASE EnqueueBlock(t) \/ EnqueueNotify(t)
  BY <1>0, <1>3 DEF EnqueueBlock, EnqueueNotify, Mapped
<1> QED BY <1>1, <1>2, <1>3 DEF EnqueueStep

LEMMA MapWorker ==
  ASSUME IInv, IInv', CountInv, NEW w \in Worker, WorkerStep(w)
  PROVE  Service!Next \/ UNCHANGED Mapped
<1> USE DEF poolVars, statVars, workerVars, callVars, controlVars
<1>1. CASE WorkerPick(w)
  <2>1. PICK t \in tasks_ : /\ IsTop(t)
                            /\ task_wrapper' = [task_wrapper EXCEPT ![w] = t]
                            /\ tasks_' = tasks_ \ {t}
    BY <1>1 DEF WorkerPick
  <2>2. ~stop_ /\ t \in Task /\ pc[w] \in {"awake", "idle"} /\ task_wrapper[w] = NoTask
    BY <1>1 DEF WorkerPick, PastReclaim, IInv, StoppedIsEmpty, TypeOK, HoldsWhileBusy
  <2>3. Held' = Held \cup {t}
    <3>1. Held \subseteq Task /\ Held' \subseteq Task
      BY DEF IInv, TypeOK, Held, Live
    <3>2. \A u \in Task : u \in Held <=> \E v \in Worker : task_wrapper[v] = u
      BY HeldIs
    <3>3. \A u \in Task : u \in Held' <=> \E v \in Worker : task_wrapper'[v] = u
      BY TaskAssumption DEF IInv, HoldsWhileBusy, Held, Live
    <3>4. \A u \in Task : (\E v \in Worker : task_wrapper'[v] = u)
                             <=> u = t \/ \E v \in Worker : task_wrapper[v] = u
      BY <2>1, <2>2, TaskAssumption DEF IInv, TypeOK
    <3> QED BY <2>2, <3>1, <3>2, <3>3, <3>4
  <2>4. Cardinality(Held) < Max
    BY <2>2, SlotFree
  <2>5. UNCHANGED <<stop_, future>>
    BY <1>1 DEF WorkerPick
  <2>6. Service!Start(t)
    BY <2>1, <2>3, <2>4, <2>5, SameCardinality DEF Service!Start, IsTop
  <2> QED BY <2>2, <2>6 DEF Service!Next
<1>2. CASE WorkerExecute(w)
  <2> DEFINE t == task_wrapper[w]
  <2>1. /\ pc[w] = "running"
        /\ task_wrapper' = [task_wrapper EXCEPT ![w] = NoTask]
        /\ \E r \in {"value", "exception"} : future' = [future EXCEPT ![t] = r]
        /\ UNCHANGED <<stop_, tasks_>>
    BY <1>2 DEF WorkerExecute
  <2>2. t \in Task /\ \A v \in Worker : v # w => task_wrapper[v] # t
    BY <2>1, TaskAssumption DEF IInv, HoldsWhileBusy, Places, TypeOK
  <2>3. t \in Held /\ Held' = Held \ {t}
    <3>1. Held \subseteq Task /\ Held' \subseteq Task
      BY DEF IInv, TypeOK, Held, Live
    <3>2. \A u \in Task : u \in Held <=> \E v \in Worker : task_wrapper[v] = u
      BY HeldIs
    <3>3. \A u \in Task : u \in Held' <=> \E v \in Worker : task_wrapper'[v] = u
      BY TaskAssumption DEF IInv, HoldsWhileBusy, Held, Live
    <3>4. \A u \in Task : (\E v \in Worker : task_wrapper'[v] = u)
                             <=> u # t /\ \E v \in Worker : task_wrapper[v] = u
      BY <2>1, <2>2, TaskAssumption DEF IInv, TypeOK
    <3> QED BY <2>2, <3>1, <3>2, <3>3, <3>4
  <2>4. Service!Finish(t)
    BY <2>1, <2>3 DEF Service!Finish
  <2> QED BY <2>2, <2>4 DEF Service!Next
<1>3. CASE ~WorkerPick(w) /\ ~WorkerExecute(w)
  <2>1. UNCHANGED <<tasks_, stop_, future, task_wrapper>>
    BY <1>3 DEF WorkerStep, WorkerTest, WorkerSleep, WorkerTimeout, WorkerReclaim,
       WorkerExit, WorkerRetry, WorkerActivate, WorkerDeactivate,
       WorkerCheckDrained, WorkerNotify
  <2> QED BY <2>1, HeldStays DEF Mapped
<1> QED BY <1>1, <1>2, <1>3

LEMMA MapControl ==
  ASSUME IInv, IInv', ControlStep \/ ControlCall \/ Spurious
  PROVE  Service!Next \/ UNCHANGED Mapped
<1> USE DEF poolVars, statVars, workerVars, callVars, controlVars
<1>0. Held' = Held
  <2>1. UNCHANGED task_wrapper
    BY DEF ControlStep, ControlNotify, ShutdownNotify, ShutdownTest, ShutdownSleep,
       ShutdownTimeout, ShutdownNotifyStop, ShutdownJoin, StopNowClear,
       StopNowNotify, StopNowJoin, ControlCall, Pause, Resume, Switch,
       ShutdownBegin, ShutdownRefused, StopNowBegin, Destructor, Spurious
  <2> QED BY <2>1, HeldStays
<1>1. CASE ShutdownTest
  <2>1. CASE stop_' = stop_
    BY <1>0, <1>1, <2>1 DEF ShutdownTest, Mapped
  <2>2. CASE stop_' # stop_
    <3>1. /\ tasks_ = {} /\ stop_' = TRUE /\ ~stop_
          /\ UNCHANGED <<tasks_, future>>
      BY <1>1, <2>2 DEF ShutdownTest, Drained, IInv, TypeOK
    <3>2. future' = [t \in Task |-> IF t \in tasks_ THEN "broken" ELSE future[t]]
      BY <3>1 DEF IInv, TypeOK
    <3>3. Service!Close
      BY <1>0, <3>1, <3>2 DEF Service!Close
    <3> QED BY <3>3 DEF Service!Next
  <2> QED BY <2>1, <2>2
<1>2. CASE StopNowClear
  <2>1. /\ tasks_' = {} /\ stop_' = TRUE
        /\ future' = [t \in Task |-> IF t \in tasks_ THEN "broken" ELSE future[t]]
    BY <1>2 DEF StopNowClear
  <2>2. CASE stop_
    <3>1. tasks_ = {} /\ stop_' = stop_
      BY <2>1, <2>2 DEF IInv, StoppedIsEmpty, TypeOK
    <3>2. future' = future
      BY <2>1, <3>1 DEF IInv, TypeOK
    <3> QED BY <1>0, <2>1, <3>1, <3>2 DEF Mapped
  <2>3. CASE ~stop_
    <3>1. Service!Close
      BY <1>0, <2>1, <2>3 DEF Service!Close
    <3> QED BY <3>1 DEF Service!Next
  <2> QED BY <2>2, <2>3
<1>3. CASE ~ShutdownTest /\ ~StopNowClear
  <2>1. UNCHANGED <<tasks_, stop_, future>>
    BY <1>3 DEF ControlStep, ControlNotify, ShutdownNotify, ShutdownSleep,
       ShutdownTimeout, ShutdownNotifyStop, ShutdownJoin, StopNowNotify,
       StopNowJoin, ControlCall, Pause, Resume, Switch, ShutdownBegin,
       ShutdownRefused, StopNowBegin, Destructor, Spurious
  <2> QED BY <1>0, <2>1 DEF Mapped
<1> QED BY <1>1, <1>2, <1>3

LEMMA MapNext == IInv /\ CountInv /\ [Next]_vars => [Service!Next]_(Service!vars)
<1> SUFFICES ASSUME IInv, CountInv, [Next]_vars PROVE [Service!Next]_(Service!vars)
  OBVIOUS
<1>1. IInv'
  BY InvNext
<1>2. Service!Next \/ UNCHANGED Mapped
  <2>1. CASE UNCHANGED vars
    BY <1>1, <2>1, HeldStays DEF Mapped, vars, poolVars, workerVars, callVars
  <2>2. CASE Next
    BY <1>1, <2>2, MapEnqueue, MapWorker, MapControl DEF Next
  <2> QED BY <2>1, <2>2
<1>3. UNCHANGED Mapped => UNCHANGED Service!vars
  BY DEF Mapped, Service!vars
<1> QED BY <1>2, <1>3

\* The pool implements the service it promises: with any number of producers
\* and threads, in any interleaving, each enqueue() is one Submit or one Refuse,
\* tasks start in order of priority with no more than max_threads at a time,
\* each ends once, and stopping is one Close.
THEOREM PoolImplementsService == Spec => ImplementsTaskService
  BY MapInit, MapNext, Counted, PTL DEF Spec, ImplementsTaskService, Service!Spec

=============================================================================
