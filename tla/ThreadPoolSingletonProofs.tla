--------------------- MODULE ThreadPoolSingletonProofs ----------------------
(***************************************************************************)
(* Theorems about ThreadPoolSingleton, for any number of threads.          *)
(***************************************************************************)
EXTENDS ThreadPoolSingleton, TLAPS

\* Inside shutdown() or destroy().
Holding == {"shutdown", "stopped", "destroy"}

\* Whoever is inside shutdown() or destroy() holds mutex_ and has a pool to
\* stop; nobody else holds it between steps.
HolderStops ==
    /\ \A t \in Thread :
          pc[t] \in Holding => mutex_ = t /\ instance_ # NoPool
    /\ mutex_ # NoThread => pc[mutex_] \in Holding

IInv == TypeOK /\ OnePool /\ HolderStops /\ StoppedIsHidden

LEMMA InvInit == Init => IInv
<1> SUFFICES ASSUME Init PROVE IInv
  OBVIOUS
<1>1. TypeOK
  BY SingletonAssumption DEF Init, TypeOK, PoolState, NoPool
<1>2. OnePool
  BY DEF Init, OnePool, NoPool
<1>3. HolderStops /\ StoppedIsHidden
  BY DEF Init, HolderStops, Holding, StoppedIsHidden
<1> QED BY <1>1, <1>2, <1>3 DEF IInv

\* Making a pool where there is none, which init() and getInstance() do.
LEMMA MakePoolKeeps ==
  ASSUME TypeOK, OnePool, instance_ = NoPool, NEW p \in Pool, MakePool(p)
  PROVE  /\ instance_' \in Pool \cup {NoPool} /\ instance_' # NoPool
         /\ state_' \in [Pool -> PoolState]
         /\ OnePool'
         /\ state_'[instance_'] = "RUNNING"
<1>1. p # NoPool
  BY SingletonAssumption DEF Pool, NoPool
<1> QED BY <1>1 DEF TypeOK, OnePool, MakePool, PoolState

LEMMA InvStep ==
  ASSUME IInv, NEW t \in Thread,
         \/ InitPool(t) \/ GetInstance(t) \/ EnqueueReturn(t) \/ Pause(t) \/ Resume(t)
         \/ Shutdown(t) \/ ShutdownTimeout(t) \/ ShutdownStops(t) \/ ShutdownDone(t)
         \/ Destroy(t) \/ DestroyDone(t)
  PROVE  IInv'
<1> USE SingletonAssumption DEF IInv, Holding
<1>1. CASE InitPool(t)
  <2>1. PICK p \in Pool : MakePool(p)
    BY <1>1 DEF InitPool
  <2>2. /\ instance_' \in Pool \cup {NoPool} /\ instance_' # NoPool
        /\ state_' \in [Pool -> PoolState] /\ OnePool'
        /\ state_'[instance_'] = "RUNNING"
    BY <1>1, <2>1, MakePoolKeeps DEF InitPool
  <2>3. StoppedIsHidden'
    BY <2>2 DEF OnePool, StoppedIsHidden, TypeOK
  <2> QED BY <1>1, <2>2, <2>3 DEF InitPool, Enter, TypeOK, HolderStops
<1>2. CASE GetInstance(t)
  <2>1. /\ instance_' \in Pool \cup {NoPool} /\ instance_' # NoPool
        /\ state_' \in [Pool -> PoolState] /\ OnePool'
        /\ \/ state_'[instance_'] = "RUNNING"
           \/ UNCHANGED <<instance_, state_>>
    BY <1>2, MakePoolKeeps DEF GetInstance, TypeOK, OnePool
  <2>2. TypeOK'
    BY <1>2, <2>1 DEF GetInstance, TypeOK
  <2>3. HolderStops'
    BY <1>2, <2>1 DEF GetInstance, Enter, TypeOK, HolderStops
  <2>4. StoppedIsHidden'
    BY <1>2, <2>1 DEF GetInstance, Enter, OnePool, StoppedIsHidden, TypeOK
  <2> QED BY <2>1, <2>2, <2>3, <2>4
<1>3. CASE EnqueueReturn(t)
  BY <1>3 DEF EnqueueReturn, TypeOK, OnePool, HolderStops, StoppedIsHidden
<1>4. CASE Pause(t) \/ Resume(t)
  <2>1. PICK to \in {"PAUSED", "RUNNING"} :
           /\ instance_ \in Pool /\ state_[instance_] \in {"PAUSED", "RUNNING"}
           /\ state_' = [state_ EXCEPT ![instance_] = to]
           /\ UNCHANGED <<instance_, mutex_, pc, ref>>
    BY <1>4 DEF Pause, Resume, Switch, TypeOK
  <2>2. TypeOK' /\ OnePool'
    BY <2>1 DEF TypeOK, PoolState, OnePool
  <2> QED BY <2>1, <2>2 DEF HolderStops, StoppedIsHidden, TypeOK
<1>5. CASE Shutdown(t) \/ Destroy(t)
  <2>1. /\ instance_ \in Pool /\ instance_ # NoPool /\ mutex_ = NoThread /\ pc[t] = "idle"
        /\ mutex_' = t /\ UNCHANGED <<instance_, ref>>
        /\ \/ /\ state_' = [state_ EXCEPT ![instance_] = "SHUTTING_DOWN"]
              /\ pc' = [pc EXCEPT ![t] = "shutdown"]
           \/ /\ state_' = [state_ EXCEPT ![instance_] = "STOPPED"]
              /\ pc' = [pc EXCEPT ![t] = "destroy"]
    BY <1>5 DEF Shutdown, Destroy, Enter, TypeOK
  <2>2. TypeOK' /\ OnePool'
    BY <2>1 DEF TypeOK, PoolState, OnePool
  <2>3. HolderStops' /\ StoppedIsHidden'
    BY <2>1, <2>2 DEF HolderStops, StoppedIsHidden, OnePool, TypeOK
  <2> QED BY <2>2, <2>3
<1>6. CASE ShutdownTimeout(t)
  <2>1. \A u \in Thread : pc[u] \in Holding => u = t
    BY <1>6 DEF ShutdownTimeout, HolderStops
  <2>2. TypeOK' /\ OnePool'
    BY <1>6 DEF ShutdownTimeout, TypeOK, OnePool
  <2>3. mutex_ = t /\ HolderStops' /\ StoppedIsHidden'
    BY <1>6, <2>1 DEF ShutdownTimeout, HolderStops, StoppedIsHidden, TypeOK
  <2> QED BY <2>2, <2>3
<1>7. CASE ShutdownDone(t) \/ DestroyDone(t)
  <2>1. pc[t] \in Holding /\ Reset(t)
    BY <1>7 DEF ShutdownDone, DestroyDone
  <2>2. /\ instance_ \in Pool /\ instance_ # NoPool
        /\ \A u \in Thread : pc[u] \in Holding => u = t
    BY <2>1 DEF HolderStops, TypeOK
  <2>3. TypeOK' /\ OnePool'
    BY <2>1, <2>2 DEF Reset, TypeOK, PoolState, OnePool
  <2>4. HolderStops' /\ StoppedIsHidden'
    BY <2>1, <2>2 DEF Reset, HolderStops, StoppedIsHidden, TypeOK
  <2> QED BY <2>3, <2>4
<1>8. CASE ShutdownStops(t)
  <2>1. /\ instance_ \in Pool /\ instance_ # NoPool /\ mutex_ = t
        /\ \A u \in Thread : pc[u] \in Holding => u = t
    BY <1>8 DEF ShutdownStops, HolderStops, TypeOK
  <2>2. TypeOK'
    BY <1>8, <2>1 DEF ShutdownStops, TypeOK, PoolState
  <2>3. OnePool'
    BY <1>8, <2>1 DEF ShutdownStops, TypeOK, OnePool
  <2>4. HolderStops' /\ StoppedIsHidden'
    BY <1>8, <2>1, <2>3 DEF ShutdownStops, HolderStops, StoppedIsHidden, TypeOK, OnePool
  <2> QED BY <2>2, <2>4, <2>3
<1> QED BY <1>1, <1>2, <1>3, <1>4, <1>5, <1>6, <1>7, <1>8

LEMMA Inductive == Spec => []IInv
<1>1. IInv /\ [Next]_vars => IInv'
  <2> SUFFICES ASSUME IInv, [Next]_vars PROVE IInv'
    OBVIOUS
  <2>1. CASE UNCHANGED vars
    BY <2>1 DEF vars, IInv, TypeOK, OnePool, HolderStops, StoppedIsHidden
  <2>2. CASE Next
    BY <2>2, InvStep DEF Next
  <2> QED BY <2>1, <2>2
<1> QED BY <1>1, InvInit, PTL DEF Spec

\* Whatever threads call init(), enqueue(), shutdown() and destroy(), and in
\* whatever order, there is one pool at most and instance_ owns it.
THEOREM OnePoolAtATime == Spec => []OnePool
<1>1. IInv => OnePool
  BY DEF IInv
<1> QED BY <1>1, Inductive, PTL

\* However many threads call shutdown() and destroy(), a STOPPED pool is released
\* before mutex_ is: no call of the singleton meets one.
THEOREM StoppedPoolIsHidden == Spec => []StoppedIsHidden
<1>1. IInv => StoppedIsHidden
  BY DEF IInv
<1> QED BY <1>1, Inductive, PTL

=============================================================================
