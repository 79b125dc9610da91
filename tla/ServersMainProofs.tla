-------------------------- MODULE ServersMainProofs --------------------------
(***************************************************************************)
(* What ServersMain promises to those who find a server in ZooKeeper,      *)
(* proved for any number of servers, addresses and configuration files.    *)
(***************************************************************************)
EXTENDS ServersMain, TLAPS

-----------------------------------------------------------------------------
(* The invariant *)

\* What InitThreadPoolConfig() may leave behind: a pool of one thread at least.
UInt16s == 0 .. 65535
PoolConfig == {NoThreadPoolConfig} \cup [core : UInt16s \ {0}, max : UInt16s]

MainConfig == [nodes : SUBSET Address, pool : PoolConfig, zk : BOOLEAN]

RegistryTypeOK ==
    /\ path \subseteq {"root", "service"}
    /\ node \in [Address -> Owner \cup {NoOwner}]
    /\ session \in [Server -> SessionState]
    /\ found \in [Server -> SUBSET Address]

MainTypeOK ==
    /\ pc \in [Server -> MainPC]
    /\ config \in [Server -> MainConfig]
    /\ listening \in [Server -> BOOLEAN]
    /\ todo \in [Server -> SUBSET Address]
    /\ all_success \in [Server -> BOOLEAN]
    /\ running_ \in [Server -> BOOLEAN]
    /\ calm \in BOOLEAN

Alive(s) == session[s] \in {"connecting", "connected"}

\* Where main() is while it registers, between the socket and the pool.
Registers == {"await", "exists_root", "create_root", "exists_service", "create_service",
              "create_instance"}

\* Where it may have a session and must have its socket.
Serves == Registers \cup {"pool", "armed", "loop", "enqueue", "shutdown", "cleanup"}

\* A session is there only while the socket is, except when main() has returned.
SessionFits(s) ==
    /\ Mine(s) # {} => Alive(s)
    /\ session[s] # "none" => pc[s] \in Serves \cup {"return", "atexit"}
    /\ pc[s] \in Serves \cup {"registry"} => listening[s]
    /\ pc[s] = "return" /\ session[s] # "none" => listening[s]

\* Every address that is not to be done any more is registered or was taken, as
\* long as nothing has failed.
AddressesFit(s) ==
    Alive(s) =>
       /\ pc[s] \in Registers /\ all_success[s] =>
             config[s].nodes \subseteq Mine(s) \cup found[s] \cup todo[s]
       /\ pc[s] \in {"pool", "armed", "loop", "enqueue"} => config[s].nodes \subseteq Mine(s) \cup found[s]

ServerFits(s) == SessionFits(s) /\ AddressesFit(s)

MainInv == RegistryTypeOK /\ MainTypeOK /\ \A s \in Server : ServerFits(s)

-----------------------------------------------------------------------------
(* Configuration *)

\* No size passes the checks and is cut to 0: core is tested after the cut.
LEMMA PoolConfigAccepted ==
    ASSUME NEW tp, {tp.max_threads, tp.core_threads} \subseteq Int \cup {Absent, Malformed},
           InitThreadPoolConfig(tp) # Refused
    PROVE  InitThreadPoolConfig(tp) \in PoolConfig
<1> DEFINE max == UInt16(Value(tp.max_threads, 10))
           core == UInt16(Value(tp.core_threads, max))
<1>1. tp.max_threads # Malformed /\ tp.core_threads # Malformed
  BY DEF InitThreadPoolConfig
<1>2. \A n \in Int : UInt16(n) \in UInt16s
  BY DEF UInt16, UInt16s
<1>3. Value(tp.max_threads, 10) \in Int
  BY <1>1 DEF Value
<1>4. max \in UInt16s
  BY <1>2, <1>3, Zenon
<1>5. core # 0 /\ InitThreadPoolConfig(tp) = [core |-> core, max |-> max]
  BY DEF InitThreadPoolConfig
<1>6. core = UInt16(Value(tp.core_threads, max))
  OBVIOUS
<1> HIDE DEF max, core
<1>7. max \in Int
  BY <1>4 DEF UInt16s
<1>8. Value(tp.core_threads, max) \in Int
  BY <1>1, <1>7 DEF Value
<1>9. core \in UInt16s \ {0}
  BY <1>2, <1>5, <1>6, <1>8, Zenon
<1>10. QED  BY <1>4, <1>5, <1>9, SMT DEF PoolConfig

\* What main() goes on with.
LEMMA ConfigAccepted ==
    ASSUME NEW s \in Server, NEW file \in ConfigFile[s], NEW zkReached \in BOOLEAN,
           InitRpcServerConfig(file, zkReached) # Refused
    PROVE  InitRpcServerConfig(file, zkReached) \in MainConfig
<1> DEFINE nodes == IF file.register_config = Absent
                    THEN {} ELSE InitRegistryConfig(file.register_config)
           pool  == IF file.thread_pool = Absent
                    THEN NoThreadPoolConfig ELSE InitThreadPoolConfig(file.thread_pool)
<1>1. /\ nodes # Refused /\ pool # Refused
      /\ InitRpcServerConfig(file, zkReached)
            = [nodes |-> nodes, pool |-> pool, zk |-> file.scheduler # Absent]
  BY DEF InitRpcServerConfig
<1>2. nodes \in SUBSET Address
  <2>1. CASE file.register_config = Absent
    BY <2>1
  <2>2. CASE file.register_config # Absent
    BY <1>1, <2>2, FileAssumption DEF InitRegistryConfig
  <2>3. QED  BY <2>1, <2>2
<1>3. pool \in PoolConfig
  <2>1. CASE file.thread_pool = Absent
    BY <2>1 DEF PoolConfig
  <2>2. CASE file.thread_pool # Absent
    BY <1>1, <2>2, FileAssumption, PoolConfigAccepted
  <2>3. QED  BY <2>1, <2>2
<1> HIDE DEF nodes, pool
<1>4. QED  BY <1>1, <1>2, <1>3 DEF MainConfig

-----------------------------------------------------------------------------
(* Nodes and sessions *)

\* What a step of s may do in ZooKeeper while the process lives.
OrderlyStep(s) ==
    \/ UNCHANGED zkVars
    \/ Construct(s) \/ Destruct(s)
    \/ \E p \in {"root", "service"} : CreatePath(s, p)
    \/ \E a \in Address : CreateNode(s, a) \/ CreateNodeFails(s, a)
    \/ Connects(s) \/ Disconnects(s) \/ TimesOut(s) \/ OldTimesOut(s)

\* And what it does in dying.
RegistryStep(s) == OrderlyStep(s) \/ Abandon(s)

\* Sessions of different servers, and of one server's lives, are different.
LEMMA Owners ==
    ASSUME NEW s \in Server, NEW t \in Server
    PROVE  /\ Own(s) \in Owner /\ Old(s) \in Owner
           /\ Own(s) # NoOwner /\ Old(s) # NoOwner /\ Own(s) # Old(t)
           /\ s # t => Own(s) # Own(t)
BY OwnerAssumption DEF Own, Old, Owner

\* Nodes belong to a session or to nobody.
LEMMA RegistryTypes ==
    ASSUME RegistryTypeOK, NEW s \in Server, RegistryStep(s)
    PROVE  RegistryTypeOK'
<1> USE DEF RegistryTypeOK
<1>0. Own(s) \in Owner /\ Old(s) \in Owner
  BY Owners
<1>1. CASE UNCHANGED zkVars
  BY <1>1 DEF zkVars
<1>2. CASE Construct(s) \/ Connects(s) \/ Disconnects(s)
  BY <1>2 DEF Construct, Connects, Disconnects, SessionState
<1>3. CASE Destruct(s) \/ Abandon(s)
  BY <1>0, <1>3 DEF Destruct, Abandon, HandOver, SessionState
<1>4. CASE TimesOut(s)
  BY <1>0, <1>4 DEF TimesOut, HandOver, SessionState
<1>5. ASSUME NEW p \in {"root", "service"}, CreatePath(s, p)
      PROVE  RegistryTypeOK'
  BY <1>5 DEF CreatePath
<1>6. ASSUME NEW a \in Address, CreateNode(s, a)
      PROVE  RegistryTypeOK'
  BY <1>0, <1>6 DEF CreateNode
<1>7. ASSUME NEW a \in Address, CreateNodeFails(s, a)
      PROVE  RegistryTypeOK'
  BY <1>0, <1>7 DEF CreateNodeFails, SessionState, zkVars
<1>8. CASE OldTimesOut(s)
  BY <1>8 DEF OldTimesOut
<1>9. QED
  BY <1>1, <1>2, <1>3, <1>4, <1>5, <1>6, <1>7, <1>8 DEF RegistryStep, OrderlyStep

\* No server's step takes another one's nodes: a node that is there is kept.
LEMMA OthersKeepNodes ==
    ASSUME RegistryTypeOK, NEW s \in Server, NEW t \in Server, s # t, RegistryStep(s)
    PROVE  Mine(t)' = Mine(t) /\ session'[t] = session[t] /\ found'[t] = found[t]
<1> USE DEF RegistryTypeOK, Mine
<1>0. /\ Own(t) # Own(s) /\ Own(t) # Old(s) /\ Own(t) # NoOwner
      /\ Own(t)' = Own(t)
  BY Owners DEF Own
<1> SUFFICES /\ \A a \in Address : node'[a] = Own(t) <=> node[a] = Own(t)
             /\ session'[t] = session[t] /\ found'[t] = found[t]
  BY <1>0
<1>1. CASE UNCHANGED zkVars
  BY <1>1 DEF zkVars
<1>2. CASE Construct(s) \/ Connects(s) \/ Disconnects(s)
  BY <1>2 DEF Construct, Connects, Disconnects
<1>3. CASE Destruct(s) \/ Abandon(s)
  BY <1>0, <1>3 DEF Destruct, Abandon, HandOver
<1>4. CASE TimesOut(s)
  BY <1>0, <1>4 DEF TimesOut, HandOver
<1>5. ASSUME NEW p \in {"root", "service"}, CreatePath(s, p)
      PROVE  /\ \A a \in Address : node'[a] = Own(t) <=> node[a] = Own(t)
             /\ session'[t] = session[t] /\ found'[t] = found[t]
  BY <1>5 DEF CreatePath
<1>6. ASSUME NEW b \in Address, CreateNode(s, b)
      PROVE  /\ \A a \in Address : node'[a] = Own(t) <=> node[a] = Own(t)
             /\ session'[t] = session[t] /\ found'[t] = found[t]
  BY <1>0, <1>6 DEF CreateNode
<1>7. ASSUME NEW b \in Address, CreateNodeFails(s, b)
      PROVE  /\ \A a \in Address : node'[a] = Own(t) <=> node[a] = Own(t)
             /\ session'[t] = session[t] /\ found'[t] = found[t]
  BY <1>0, <1>7 DEF CreateNodeFails, zkVars
<1>8. CASE OldTimesOut(s)
  BY <1>0, <1>8 DEF OldTimesOut
<1>9. QED
  BY <1>1, <1>2, <1>3, <1>4, <1>5, <1>6, <1>7, <1>8 DEF RegistryStep, OrderlyStep

\* What a server's own steps do to its nodes.
LEMMA OwnNodes ==
    ASSUME RegistryTypeOK, NEW s \in Server
    PROVE  /\ UNCHANGED node => Mine(s)' = Mine(s)
           /\ Destruct(s) \/ Abandon(s) \/ TimesOut(s) => Mine(s)' = {}
           /\ OldTimesOut(s) => Mine(s)' = Mine(s)
           /\ \A a \in Address : CreateNode(s, a) =>
                 /\ Mine(s) \subseteq Mine(s)' /\ a \in Mine(s)' \cup found'[s]
                 /\ found[s] \subseteq Mine(s)' \cup found'[s]
<1> USE DEF RegistryTypeOK, Mine
<1>0. Own(s) # Old(s) /\ Own(s) # NoOwner /\ Own(s)' = Own(s)
  BY Owners DEF Own
<1>1. UNCHANGED node => Mine(s)' = Mine(s)
  BY <1>0
<1>2. Destruct(s) \/ Abandon(s) \/ TimesOut(s) => Mine(s)' = {}
  BY <1>0 DEF Destruct, Abandon, TimesOut, HandOver
<1>3. OldTimesOut(s) => Mine(s)' = Mine(s)
  BY <1>0 DEF OldTimesOut
<1>4. ASSUME NEW a \in Address, CreateNode(s, a)
      PROVE  /\ Mine(s) \subseteq Mine(s)' /\ a \in Mine(s)' \cup found'[s]
             /\ found[s] \subseteq Mine(s)' \cup found'[s]
  BY <1>0, <1>4 DEF CreateNode
<1>5. QED  BY <1>1, <1>2, <1>3, <1>4

-----------------------------------------------------------------------------
(* The steps *)

\* No server runs at the start and nothing is registered.
LEMMA MainInit == Init => MainInv
<1> SUFFICES ASSUME Init PROVE MainInv
  OBVIOUS
<1>1. RegistryTypeOK
  BY DEF Init, RegistryInit, RegistryTypeOK, SessionState
<1>2. MainTypeOK
  BY DEF Init, MainTypeOK, MainPC, MainConfig, NoConfig, PoolConfig
<1>3. ASSUME NEW s \in Server
      PROVE  ServerFits(s)
  <2>1. Mine(s) = {}
    BY Owners DEF Init, RegistryInit, Mine
  <2>2. QED
    BY <2>1 DEF Init, RegistryInit, ServerFits, SessionFits, AddressesFit, Alive, Serves, Registers
<1>4. QED  BY <1>1, <1>2, <1>3 DEF MainInv

\* A step of s leaves what other servers have alone.
Local(s) ==
    \A t \in Server \ {s} :
       /\ pc'[t] = pc[t] /\ config'[t] = config[t] /\ listening'[t] = listening[t]
       /\ todo'[t] = todo[t] /\ all_success'[t] = all_success[t] /\ running_'[t] = running_[t]

\* So it is enough to look at s.
LEMMA LocalKeepsInv ==
    ASSUME MainInv, NEW s \in Server, RegistryStep(s), Local(s), MainTypeOK', ServerFits(s)'
    PROVE  MainInv'
<1>1. RegistryTypeOK'
  BY RegistryTypes DEF MainInv
<1>2. ASSUME NEW t \in Server, t # s
      PROVE  ServerFits(t)'
  <2>1. Mine(t)' = Mine(t) /\ session'[t] = session[t] /\ found'[t] = found[t]
    BY <1>2, OthersKeepNodes DEF MainInv
  <2>2. ServerFits(t)  BY DEF MainInv
  <2>3. /\ pc'[t] = pc[t] /\ config'[t] = config[t] /\ listening'[t] = listening[t]
        /\ todo'[t] = todo[t] /\ all_success'[t] = all_success[t]
    BY <1>2 DEF Local
  <2>4. QED
    BY <2>1, <2>2, <2>3 DEF ServerFits, SessionFits, AddressesFit, Alive
<1>3. QED  BY <1>1, <1>2 DEF MainInv

\* The steps that only move main() on, without ZooKeeper.
LEMMA LocalStepKeepsInv ==
    ASSUME MainInv, NEW s \in Server,
           \/ LoadConfig(s) \/ CreateListenSocket(s) \/ CreateListenSocketFails(s)
           \/ SkipRegistration(s) \/ CreateRegistryThrows(s) \/ RegistryReady(s)
           \/ AddListenFd(s) \/ AddListenFdFails(s) \/ EnterLoop(s) \/ LoopStep(s) \/ LeaveLoop(s)
           \/ ShutdownPool(s) \/ Return(s)
           \/ \E p \in {"root", "service"} : PathExists(s, p)
    PROVE  MainInv'
<1>1. RegistryTypeOK /\ MainTypeOK /\ ServerFits(s)
  BY DEF MainInv
<1>2. UNCHANGED zkVars /\ RegistryStep(s)
  BY DEF LoadConfig, CreateListenSocket, CreateListenSocketFails, SkipRegistration,
         CreateRegistryThrows, RegistryReady, AddListenFd, AddListenFdFails, EnterLoop, LoopStep,
         Signal, EnqueueBlocks, EnqueueReturns, EpollWaitFails, LeaveLoop, ShutdownPool, Return,
         PathExists, RegistryStep, OrderlyStep
<1>3. Mine(s)' = Mine(s) /\ session' = session /\ found' = found
  BY <1>1, <1>2, OwnNodes DEF zkVars
<1>4. CASE LoadConfig(s)
  <2>1. PICK file \in ConfigFile[s], zkReached \in BOOLEAN :
           LET c == InitRpcServerConfig(file, zkReached) IN
           IF c = Refused
           THEN pc' = [pc EXCEPT ![s] = "off"] /\ UNCHANGED config
           ELSE pc' = [pc EXCEPT ![s] = "socket"] /\ config' = [config EXCEPT ![s] = c]
    BY <1>4 DEF LoadConfig
  <2>2. PICK to \in {"off", "socket"}, c \in MainConfig :
           pc' = [pc EXCEPT ![s] = to] /\ config' = [config EXCEPT ![s] = c]
    <3>1. CASE InitRpcServerConfig(file, zkReached) = Refused
      BY <1>1, <2>1, <3>1 DEF MainTypeOK
    <3>2. CASE InitRpcServerConfig(file, zkReached) # Refused
      BY <2>1, <3>2, ConfigAccepted
    <3>3. QED  BY <3>1, <3>2
  <2>3. MainTypeOK' /\ Local(s)
    BY <1>1, <1>4, <2>2 DEF LoadConfig, MainTypeOK, Local, MainPC
  <2>4. ServerFits(s)'
    BY <1>1, <1>3, <1>4, <2>2
       DEF LoadConfig, ServerFits, SessionFits, AddressesFit, Alive, Serves, Registers, MainTypeOK
  <2>5. QED  BY <1>2, <2>3, <2>4, LocalKeepsInv
<1>5. CASE ~LoadConfig(s)
  <2>1. MainTypeOK' /\ Local(s)
    <3>1. CASE \E p \in {"root", "service"} : PathExists(s, p)
      BY <1>1, <3>1 DEF PathExists, Goto, Exists, Below, Create, MainTypeOK, Local, MainPC
    <3>2. CASE ~\E p \in {"root", "service"} : PathExists(s, p)
      BY <1>1, <1>5, <3>2
         DEF CreateListenSocket, CreateListenSocketFails, SkipRegistration, CreateRegistryThrows,
             RegistryReady, AddListenFd, AddListenFdFails, EnterLoop, LoopStep, Signal,
             EnqueueBlocks, EnqueueReturns, EpollWaitFails, LeaveLoop, ShutdownPool, Return,
             Goto, MainTypeOK, Local, MainPC
    <3>3. QED  BY <3>1, <3>2
  <2>2. ServerFits(s)'
    <3> USE <1>1, <1>3 DEF ServerFits, SessionFits, AddressesFit, Alive, Serves, Registers, Goto,
                           MainTypeOK
    <3>1. CASE CreateListenSocket(s) \/ CreateListenSocketFails(s)
      BY <3>1 DEF CreateListenSocket, CreateListenSocketFails
    <3>2. CASE SkipRegistration(s) \/ CreateRegistryThrows(s)
      BY <3>2 DEF SkipRegistration, CreateRegistryThrows
    <3>3. CASE RegistryReady(s)
      BY <3>3 DEF RegistryReady
    <3>4. ASSUME NEW p \in {"root", "service"}, PathExists(s, p)
          PROVE  ServerFits(s)'
      BY <3>4 DEF PathExists, Exists, Below, Create
    <3>5. CASE AddListenFd(s) \/ AddListenFdFails(s)
      BY <3>5 DEF AddListenFd, AddListenFdFails
    <3>6. CASE EnterLoop(s) \/ LeaveLoop(s) \/ ShutdownPool(s)
      BY <3>6 DEF EnterLoop, LeaveLoop, ShutdownPool
    <3>7. CASE Return(s)
      BY <3>7 DEF Return
    <3>8. CASE LoopStep(s)
      BY <3>8 DEF LoopStep, Signal, EnqueueBlocks, EnqueueReturns, EpollWaitFails
    <3>9. QED  BY <1>5, <3>1, <3>2, <3>3, <3>4, <3>5, <3>6, <3>7, <3>8
  <2>3. QED  BY <1>2, <2>1, <2>2, LocalKeepsInv
<1>6. QED  BY <1>4, <1>5

\* Registration.
LEMMA RegisteringKeepsInv ==
    ASSUME MainInv, NEW s \in Server,
           \/ CreateRegistry(s) \/ RegistryNotReady(s)
           \/ (\E p \in {"root", "service"} : PathCreate(s, p))
           \/ RegisterFails(s) \/ RegisterInstance(s) \/ RegisterInstanceFails(s)
    PROVE  MainInv'
<1>1. RegistryTypeOK /\ MainTypeOK /\ ServerFits(s) /\ todo[s] \subseteq Address
  BY DEF MainInv, MainTypeOK
<1>2. UNCHANGED node => Mine(s)' = Mine(s)
  BY <1>1, OwnNodes
<1>3. CASE CreateRegistry(s)
  <2>1. RegistryStep(s)  BY <1>3 DEF CreateRegistry, RegistryStep, OrderlyStep
  <2>2. MainTypeOK' /\ Local(s)
    <3>1. config[s].nodes \subseteq Address
      BY <1>1 DEF MainTypeOK, MainConfig
    <3>2. QED
      BY <1>1, <1>3, <3>1 DEF CreateRegistry, Goto, MainTypeOK, Local, MainPC
  <2>3. Mine(s)' = Mine(s) /\ session' = [session EXCEPT ![s] = "connecting"]
    BY <1>2, <1>3 DEF CreateRegistry, Construct
  <2>4. ServerFits(s)'
    BY <1>1, <1>3, <2>3
       DEF CreateRegistry, Goto, ServerFits, SessionFits, AddressesFit, Alive, Serves, Registers,
           MainTypeOK, RegistryTypeOK
  <2>5. QED  BY <2>1, <2>2, <2>4, LocalKeepsInv
<1>4. CASE RegistryNotReady(s)
  <2>1. RegistryStep(s)  BY <1>4 DEF RegistryNotReady, RegistryStep, OrderlyStep
  <2>2. MainTypeOK' /\ Local(s)
    BY <1>1, <1>4 DEF RegistryNotReady, Goto, MainTypeOK, Local, MainPC
  <2>3. Mine(s)' = {} /\ session' = [session EXCEPT ![s] = "none"]
    BY <1>1, <1>4, OwnNodes DEF RegistryNotReady, Destruct
  <2>4. ServerFits(s)'
    BY <1>1, <1>4, <2>3
       DEF RegistryNotReady, Goto, ServerFits, SessionFits, AddressesFit, Alive, Serves, Registers,
           MainTypeOK, RegistryTypeOK
  <2>5. QED  BY <2>1, <2>2, <2>4, LocalKeepsInv
<1>5. ASSUME NEW p \in {"root", "service"}, PathCreate(s, p)
      PROVE  MainInv'
  <2>1. RegistryStep(s)  BY <1>5 DEF PathCreate, RegistryStep, OrderlyStep
  <2>2. MainTypeOK' /\ Local(s)
    BY <1>1, <1>5 DEF PathCreate, Goto, Below, MainTypeOK, Local, MainPC
  <2>3. Mine(s)' = Mine(s) /\ session' = session /\ found' = found
    BY <1>2, <1>5 DEF PathCreate, CreatePath
  <2>4. ServerFits(s)'
    BY <1>1, <1>5, <2>3
       DEF PathCreate, Goto, Create, Below, ServerFits, SessionFits, AddressesFit, Alive, Serves,
           Registers, MainTypeOK
  <2>5. QED  BY <2>1, <2>2, <2>4, LocalKeepsInv
<1>6. CASE RegisterFails(s)
  <2>1. RegistryStep(s)  BY <1>6 DEF RegisterFails, RegistryStep, OrderlyStep
  <2>2. PICK a \in todo[s] : NextAddress(s, a)
    BY <1>6 DEF RegisterFails
  <2>3. all_success' = [all_success EXCEPT ![s] = FALSE]
    BY <1>6 DEF RegisterFails
  <2>4. PICK to \in {"exists_root", "return"} : pc' = [pc EXCEPT ![s] = to]
    BY <1>1, <2>2, <2>3 DEF NextAddress, MainTypeOK
  <2>5. MainTypeOK' /\ Local(s)
    BY <1>1, <1>6, <2>2, <2>3, <2>4 DEF RegisterFails, NextAddress, MainTypeOK, Local, MainPC
  <2>6. Mine(s)' = Mine(s) /\ session' = session /\ pc[s] \in Registers
    BY <1>2, <1>6 DEF RegisterFails, zkVars, Exists, Create, Registers
  <2>7. ServerFits(s)'
    BY <1>1, <1>6, <2>3, <2>4, <2>6
       DEF RegisterFails, ServerFits, SessionFits, AddressesFit, Alive, Serves, Registers,
           MainTypeOK
  <2>8. QED  BY <2>1, <2>5, <2>7, LocalKeepsInv
<1>7. CASE RegisterInstance(s)
  <2>1. PICK a \in todo[s] : CreateNode(s, a) /\ NextAddress(s, a)
    BY <1>7 DEF RegisterInstance
  <2>2. RegistryStep(s)  BY <1>1, <2>1 DEF RegistryStep, OrderlyStep
  <2>3. PICK to \in {"exists_root", "pool", "return"} :
           /\ pc' = [pc EXCEPT ![s] = to]
           /\ to = "pool" => todo[s] \ {a} = {} /\ all_success[s]
    BY <1>1, <1>7, <2>1 DEF RegisterInstance, NextAddress, MainTypeOK
  <2>4. MainTypeOK' /\ Local(s)
    BY <1>1, <1>7, <2>1, <2>3 DEF RegisterInstance, NextAddress, MainTypeOK, Local, MainPC
  <2>5. /\ Mine(s) \subseteq Mine(s)' /\ a \in Mine(s)' \cup found'[s]
        /\ found[s] \subseteq Mine(s)' \cup found'[s]
        /\ session' = session /\ Alive(s) /\ pc[s] = "create_instance"
        /\ todo'[s] = todo[s] \ {a}
    BY <1>1, <1>7, <2>1, OwnNodes
       DEF CreateNode, IsConnected, Alive, RegisterInstance, NextAddress, MainTypeOK
  <2>6. SessionFits(s)'
    BY <1>1, <1>7, <2>3, <2>5
       DEF RegisterInstance, ServerFits, SessionFits, Alive, Serves, Registers, MainTypeOK
  <2>7. AddressesFit(s)'
    <3>1. all_success[s] => config[s].nodes \subseteq Mine(s) \cup found[s] \cup todo[s]
      BY <1>1, <2>5 DEF ServerFits, AddressesFit, Registers
    <3>2. all_success[s] => config[s].nodes \subseteq Mine(s)' \cup found'[s] \cup todo'[s]
      BY <2>5, <3>1
    <3>3. UNCHANGED <<config, all_success>>
      BY <1>7 DEF RegisterInstance
    <3>4. pc'[s] = to
      BY <1>1, <2>3 DEF MainTypeOK
    <3>5. QED  BY <2>3, <2>5, <3>2, <3>3, <3>4 DEF AddressesFit
  <2>8. QED  BY <2>2, <2>4, <2>6, <2>7, LocalKeepsInv DEF ServerFits
<1>8. CASE RegisterInstanceFails(s)
  <2>1. PICK a \in todo[s] : CreateNodeFails(s, a) /\ NextAddress(s, a)
    BY <1>8 DEF RegisterInstanceFails
  <2>2. RegistryStep(s)  BY <1>1, <2>1 DEF RegistryStep, OrderlyStep
  <2>3. all_success' = [all_success EXCEPT ![s] = FALSE]
    BY <1>8 DEF RegisterInstanceFails
  <2>4. PICK to \in {"exists_root", "return"} : pc' = [pc EXCEPT ![s] = to]
    BY <1>1, <2>1, <2>3 DEF NextAddress, MainTypeOK
  <2>5. MainTypeOK' /\ Local(s)
    BY <1>1, <1>8, <2>1, <2>3, <2>4
       DEF RegisterInstanceFails, NextAddress, MainTypeOK, Local, MainPC
  <2>6. /\ Mine(s)' # {} => Alive(s)'
        /\ session'[s] # "none" => session[s] # "none"
    <3>1. CASE UNCHANGED zkVars
      BY <1>1, <1>2, <3>1 DEF zkVars, ServerFits, SessionFits, Alive
    <3>2. CASE IsConnected(s) /\ session' = [session EXCEPT ![s] = "connecting"]
      BY <1>1, <3>2 DEF IsConnected, RegistryTypeOK, Alive
    <3>3. QED  BY <2>1, <3>1, <3>2 DEF CreateNodeFails
  <2>7. ServerFits(s)'
    BY <1>1, <1>8, <2>3, <2>4, <2>6
       DEF RegisterInstanceFails, ServerFits, SessionFits, AddressesFit, Serves, Registers,
           MainTypeOK
  <2>8. QED  BY <2>2, <2>5, <2>7, LocalKeepsInv
<1>9. QED  BY <1>3, <1>4, <1>5, <1>6, <1>7, <1>8

\* The end of a process, by itself or not.
LEMMA EndKeepsInv ==
    ASSUME MainInv, NEW s \in Server, Cleanup(s) \/ AtExit(s) \/ Dies(s)
    PROVE  MainInv' /\ Mine(s)' = {} /\ session'[s] = "none"
<1>1. RegistryTypeOK /\ MainTypeOK /\ ServerFits(s)
  BY DEF MainInv
<1>2. RegistryStep(s)
  BY DEF Cleanup, AtExit, Dies, RegistryStep, OrderlyStep
<1>3. MainTypeOK' /\ Local(s)
  <2>1. NoConfig \in MainConfig
    BY DEF NoConfig, PoolConfig, MainConfig
  <2>2. CASE Cleanup(s)
    BY <1>1, <2>2 DEF Cleanup, Goto, MainTypeOK, Local, MainPC
  <2>3. CASE AtExit(s)
    BY <1>1, <2>1, <2>3 DEF AtExit, Goto, MainTypeOK, Local, MainPC
  <2>4. CASE Dies(s)
    BY <1>1, <2>1, <2>4 DEF Dies, MainTypeOK, Local, MainPC
  <2>5. QED  BY <2>2, <2>3, <2>4
<1>4. Mine(s)' = {} /\ session'[s] = "none"
  <2>1. CASE session[s] = "none" /\ UNCHANGED zkVars
    <3>1. Mine(s)' = Mine(s)  BY <1>1, <2>1, OwnNodes DEF zkVars
    <3>2. QED  BY <1>1, <2>1, <3>1 DEF zkVars, ServerFits, SessionFits, Alive
  <2>2. CASE Destruct(s) \/ Abandon(s)
    BY <1>1, <2>2, OwnNodes DEF Destruct, Abandon, RegistryTypeOK
  <2>3. QED  BY <2>1, <2>2 DEF Cleanup, AtExit, Dies
<1>5. pc'[s] \in {"return", "off", "dead"}
  BY <1>1 DEF Cleanup, AtExit, Dies, Goto, MainTypeOK
<1>6. ServerFits(s)'
  BY <1>4, <1>5 DEF ServerFits, SessionFits, AddressesFit, Alive, Serves, Registers
<1>7. QED  BY <1>2, <1>3, <1>4, <1>6, LocalKeepsInv

\* Sessions come and go under main().
LEMMA ZooKeeperKeepsInv ==
    ASSUME MainInv, NEW s \in Server, ZooKeeper(s)
    PROVE  MainInv'
<1>1. RegistryTypeOK /\ MainTypeOK /\ ServerFits(s)
  BY DEF MainInv
<1>2. RegistryStep(s)
  BY DEF ZooKeeper, RegistryStep, OrderlyStep
<1>3. UNCHANGED <<pc, config, listening, todo, all_success, running_, calm>>
  BY DEF ZooKeeper, mainVars
<1>4. MainTypeOK' /\ Local(s)
  BY <1>1, <1>3 DEF MainTypeOK, Local
<1>5. CASE Connects(s) \/ Disconnects(s)
  <2>1. /\ Mine(s)' = Mine(s) /\ found' = found /\ Alive(s)
        /\ session'[s] \in {"connecting", "connected"}
    BY <1>1, <1>5, OwnNodes DEF Connects, Disconnects, RegistryTypeOK, Alive
  <2>2. ServerFits(s)'
    BY <1>1, <1>3, <2>1 DEF ServerFits, SessionFits, AddressesFit, Alive
  <2>3. QED  BY <1>2, <1>4, <2>2, LocalKeepsInv
<1>6. CASE TimesOut(s)
  <2>1. Mine(s)' = {} /\ session'[s] = "expired" /\ session[s] # "none"
    BY <1>1, <1>6, OwnNodes DEF TimesOut, RegistryTypeOK
  <2>2. ServerFits(s)'
    BY <1>1, <1>3, <2>1 DEF ServerFits, SessionFits, AddressesFit, Alive
  <2>3. QED  BY <1>2, <1>4, <2>2, LocalKeepsInv
<1>7. CASE OldTimesOut(s)
  <2>1. Mine(s)' = Mine(s) /\ session' = session /\ found' = found
    BY <1>1, <1>7, OwnNodes DEF OldTimesOut
  <2>2. ServerFits(s)'
    BY <1>1, <1>3, <2>1 DEF ServerFits, SessionFits, AddressesFit, Alive
  <2>3. QED  BY <1>2, <1>4, <2>2, LocalKeepsInv
<1>8. QED  BY <1>5, <1>6, <1>7 DEF ZooKeeper

\* MainInv is inductive.
LEMMA MainNext ==
    ASSUME MainInv, [Next]_vars
    PROVE  MainInv'
<1>1. ASSUME UNCHANGED <<pc, config, listening, todo, all_success, running_, zkVars>>,
             calm' \in BOOLEAN
      PROVE  MainInv'
  <2>1. RegistryTypeOK' /\ MainTypeOK'
    BY <1>1 DEF MainInv, RegistryTypeOK, MainTypeOK, zkVars
  <2>2. ASSUME NEW s \in Server
        PROVE  ServerFits(s)'
    <3>1. Mine(s)' = Mine(s) /\ ServerFits(s)
      BY <1>1, OwnNodes DEF zkVars, MainInv
    <3>2. QED
      BY <1>1, <3>1 DEF zkVars, ServerFits, SessionFits, AddressesFit, Alive
  <2>3. QED  BY <2>1, <2>2 DEF MainInv
<1>2. CASE UNCHANGED vars \/ CalmsDown
  BY <1>1, <1>2 DEF vars, mainVars, CalmsDown, MainInv, MainTypeOK
<1>3. ASSUME NEW s \in Server,
             LoadConfig(s) \/ MainStep(s) \/ LoopStep(s) \/ Dies(s) \/ ZooKeeper(s)
      PROVE  MainInv'
  BY <1>3, LocalStepKeepsInv, RegisteringKeepsInv, EndKeepsInv, ZooKeeperKeepsInv
     DEF MainStep, Registering
<1>4. QED  BY <1>2, <1>3 DEF Next

-----------------------------------------------------------------------------
(* What others may rely on *)

\* And so it always holds.
LEMMA MainAlways == Spec => []MainInv
<1>1. MainInv /\ [Next]_vars => MainInv'
  BY MainNext
<1>2. QED  BY <1>1, MainInit, PTL DEF Spec

\* Whoever finds an address in ZooKeeper finds a socket that listens, whatever
\* fails on the way up or down, until main() has returned.
THEOREM RegisteredListens == Spec => []RegisteredIsListening
<1>1. MainInv => RegisteredIsListening
  BY DEF MainInv, RegisteredIsListening, ServerFits, SessionFits, Alive
<1>2. QED  BY <1>1, MainAlways, PTL

\* A server whose loop runs and whose session lives is registered under every
\* address that was not taken, with any number of servers that race for them.
THEOREM RunningRegistered == Spec => []RunningIsRegistered
<1>1. MainInv => RunningIsRegistered
  BY DEF MainInv, RunningIsRegistered, Serving, ServerFits, AddressesFit, Alive
<1>2. QED  BY <1>1, MainAlways, PTL

\* No size in any configuration file passes InitThreadPoolConfig() and leaves
\* the server without a thread: 65536 and its multiples, which the cut to 16
\* bits makes zero, and negative sizes included.
THEOREM ServerHasThreads == Spec => []PoolHasThreads
<1>1. MainInv => PoolHasThreads
  <2> SUFFICES ASSUME MainInv, NEW s \in Server
               PROVE  config[s].pool.core >= 1 \/ config[s].pool = NoThreadPoolConfig
    BY DEF PoolHasThreads
  <2>1. config[s].pool \in PoolConfig
    BY DEF MainInv, MainTypeOK, MainConfig
  <2>2. \A n \in UInt16s \ {0} : n >= 1
    BY DEF UInt16s
  <2>3. QED  BY <2>1, <2>2 DEF PoolConfig
<1>2. QED  BY <1>1, MainAlways, PTL

\* Every step but the death of the process.
LEMMA StepIsOrderly ==
    ASSUME MainInv, NEW s \in Server,
           LoadConfig(s) \/ MainStep(s) \/ LoopStep(s) \/ ZooKeeper(s)
    PROVE  OrderlyStep(s)
<1> USE DEF OrderlyStep
<1>1. CASE ZooKeeper(s)
  BY <1>1 DEF ZooKeeper
<1>2. CASE LoadConfig(s) \/ LoopStep(s)
  BY <1>2 DEF LoadConfig, LoopStep, Signal, EnqueueBlocks, EnqueueReturns, EpollWaitFails
<1>3. CASE MainStep(s) /\ ~Registering(s)
  BY <1>3 DEF MainStep, CreateListenSocket, CreateListenSocketFails, SkipRegistration, AddListenFd,
              AddListenFdFails, EnterLoop, LeaveLoop, ShutdownPool, Cleanup, Return, AtExit
<1>4. CASE Registering(s)
  <2>1. CASE RegisterInstance(s) \/ RegisterInstanceFails(s)
    BY <2>1 DEF RegisterInstance, RegisterInstanceFails, MainInv, MainTypeOK
  <2>2. CASE ~(RegisterInstance(s) \/ RegisterInstanceFails(s))
    BY <1>4, <2>2 DEF Registering, CreateRegistryThrows, CreateRegistry, RegistryReady,
                      RegistryNotReady, PathExists, PathCreate, RegisterFails
  <2>3. QED  BY <2>1, <2>2
<1>5. QED  BY <1>1, <1>2, <1>3, <1>4

\* A session that ZooKeeper hears takes its nodes with it, or keeps them.
LEMMA HeardIsClosed ==
    ASSUME RegistryTypeOK, NEW s \in Server, OrderlyStep(s), IsConnected(s),
           NEW a \in Address, node[a] = Own(s)
    PROVE  node'[a] # Old(s)
<1>0. Own(s) # Old(s) /\ NoOwner # Old(s)
  BY Owners
<1> USE <1>0 DEF RegistryTypeOK
<1>1. CASE UNCHANGED zkVars
  BY <1>1 DEF zkVars
<1>2. CASE Construct(s) \/ Connects(s) \/ Disconnects(s)
  BY <1>2 DEF Construct, Connects, Disconnects
<1>3. CASE Destruct(s)
  BY <1>3 DEF Destruct, HandOver
<1>4. CASE TimesOut(s) \/ OldTimesOut(s)
  BY <1>4 DEF TimesOut, OldTimesOut, HandOver
<1>5. ASSUME NEW p \in {"root", "service"}, CreatePath(s, p)
      PROVE  node'[a] # Old(s)
  BY <1>5 DEF CreatePath
<1>6. ASSUME NEW b \in Address, CreateNode(s, b) \/ CreateNodeFails(s, b)
      PROVE  node'[a] # Old(s)
  BY <1>6 DEF CreateNode, CreateNodeFails, zkVars
<1>7. QED
  BY <1>1, <1>2, <1>3, <1>4, <1>5, <1>6 DEF OrderlyStep

\* On every way that main() can end the session is closed, unless the process
\* dies, and closed so that ZooKeeper hears of it whenever it is connected: the
\* registry that does not connect, cleanup() and the end of the statics.
THEOREM ExitTakesAddressesBack == Spec => ExitDeregisters
<1> DEFINE Deregisters(s) ==
              /\ pc'[s] = "off" => session'[s] = "none"
              /\ pc'[s] # "dead" /\ IsConnected(s) =>
                    \A a \in Address : node[a] = Own(s) => node'[a] # Old(s)
<1>1. ASSUME MainInv, [Next]_vars, NEW s \in Server
      PROVE  Deregisters(s)
  <2>1. ASSUME pc'[s] = "off"
        PROVE  session'[s] = "none"
    <3>1. MainInv'  BY <1>1, MainNext
    <3>2. QED  BY <2>1, <3>1 DEF MainInv, ServerFits, SessionFits, Serves, Registers
  <2>2. ASSUME pc'[s] # "dead", IsConnected(s), NEW a \in Address, node[a] = Own(s)
        PROVE  node'[a] # Old(s)
    <3>0. RegistryTypeOK /\ MainTypeOK /\ Own(s) # Old(s)
      BY <1>1, Owners DEF MainInv
    <3>1. CASE UNCHANGED node
      BY <2>2, <3>0, <3>1
    <3>2. CASE ~UNCHANGED node
      <4>1. PICK t \in Server :
               LoadConfig(t) \/ MainStep(t) \/ LoopStep(t) \/ Dies(t) \/ ZooKeeper(t)
        BY <1>1, <3>2 DEF Next, vars, zkVars, CalmsDown
      <4>2. CASE t = s
        <5>1. ~Dies(s)  BY <2>2, <3>0 DEF Dies, MainTypeOK
        <5>2. OrderlyStep(s)  BY <1>1, <4>1, <4>2, <5>1, StepIsOrderly
        <5>3. QED  BY <2>2, <3>0, <5>2, HeardIsClosed
      <4>3. CASE t # s
        <5>1. RegistryStep(t)
          BY <1>1, <4>1, StepIsOrderly DEF RegistryStep, Dies
        <5>2. a \in Mine(s) /\ Mine(s)' = Mine(s)
          BY <2>2, <3>0, <4>3, <5>1, OthersKeepNodes DEF Mine
        <5>3. node'[a] = Own(s)
          BY <5>2 DEF Mine, Own
        <5>4. QED  BY <3>0, <5>3
      <4>4. QED  BY <4>2, <4>3
    <3>3. QED  BY <3>1, <3>2
  <2>3. QED  BY <2>1, <2>2
<1>2. MainInv /\ [Next]_vars => \A s \in Server : Deregisters(s)
  BY <1>1
<1>3. QED  BY <1>2, MainAlways, PTL DEF Spec, ExitDeregisters

=============================================================================
