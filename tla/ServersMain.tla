----------------------------- MODULE ServersMain -----------------------------
(***************************************************************************)
(* The life of server processes (core/servers_main.cpp): configuration,    *)
(* listening socket, registration, thread pool, event loop, and the way    *)
(* back.  A process may die at any point and be started again.             *)
(***************************************************************************)
EXTENDS ServerConfig, ServiceRegistry

CONSTANTS
    ConfigFile  \* ConfigFile[s]: the files that s may find when it is started

\* nlohmann::json gives an integer for a size, or throws; every string is the
\* name of a node.
ASSUME FileAssumption ==
    \A s \in Server : \A file \in ConfigFile[s] :
       /\ \/ file.thread_pool = Absent
          \/ {file.thread_pool.max_threads, file.thread_pool.core_threads}
                \subseteq Int \cup {Absent, Malformed}
       /\ \/ file.register_config \in {Absent, Malformed}
          \/ file.register_config.registry_nodes = Absent
          \/ file.register_config.registry_nodes \subseteq Address \cup {Malformed}

VARIABLES
    pc,         \* where main() is
    config,     \* what InitRpcServerConfig() has accepted
    listening,  \* the listening socket is open
    todo,       \* addresses that registerServicesFromConfig() has still to register
    all_success,
    running_,   \* MessageCycle::running_
    calm        \* no connection breaks, no call fails and no process dies any more

mainVars == <<pc, config, listening, todo, all_success, running_, calm>>
vars == <<mainVars, zkVars>>

NoConfig == [nodes |-> {}, pool |-> NoThreadPoolConfig, zk |-> FALSE]

MainPC == {"off", "dead", "socket", "registry", "await", "exists_root", "create_root",
           "exists_service", "create_service", "create_instance", "pool",
           "armed", "loop", "enqueue", "shutdown", "cleanup", "return", "atexit"}

Init ==
    /\ RegistryInit
    /\ pc = [s \in Server |-> "off"]
    /\ config = [s \in Server |-> NoConfig]
    /\ listening = [s \in Server |-> FALSE]
    /\ todo = [s \in Server |-> {}]
    /\ all_success = [s \in Server |-> TRUE]
    /\ running_ = [s \in Server |-> FALSE]
    /\ calm = FALSE

Goto(s, from, to) == pc[s] = from /\ pc' = [pc EXCEPT ![s] = to]

\* main() is in MessageCycle::Loop(): in epoll_wait() or with what that returned,
\* or in enqueue(), where it waits for room in the queue of the pool.
Serving(s) == pc[s] \in {"loop", "enqueue"}

-----------------------------------------------------------------------------
(* Start *)

\* main() up to InitRpcServerConfig(), with whatever file is there this time.
LoadConfig(s) ==
    /\ pc[s] \in {"off", "dead"}
    /\ \E file \in ConfigFile[s], zkReached \in (IF calm THEN {TRUE} ELSE BOOLEAN) :
          LET c == InitRpcServerConfig(file, zkReached) IN
          IF c = Refused
          THEN pc' = [pc EXCEPT ![s] = "off"] /\ UNCHANGED config
          ELSE pc' = [pc EXCEPT ![s] = "socket"] /\ config' = [config EXCEPT ![s] = c]
    /\ UNCHANGED <<listening, todo, all_success, running_, calm, zkVars>>

\* CreateSocket::Create(): the socket listens before anything else is done.
CreateListenSocket(s) ==
    /\ Goto(s, "socket", "registry")
    /\ listening' = [listening EXCEPT ![s] = TRUE]
    /\ UNCHANGED <<config, todo, all_success, running_, calm, zkVars>>

\* CreateSocket::Init() fails and closes the socket again.
CreateListenSocketFails(s) ==
    /\ ~calm
    /\ Goto(s, "socket", "return")
    /\ UNCHANGED <<config, listening, todo, all_success, running_, calm, zkVars>>

\* registerServicesFromConfig(): nothing to do without addresses.
SkipRegistration(s) ==
    /\ config[s].nodes = {}
    /\ Goto(s, "registry", "pool")
    /\ UNCHANGED <<config, listening, todo, all_success, running_, calm, zkVars>>

\* The constructor throws: without a scheduler section the host of ZooKeeper is
\* empty and its port 0, which zookeeper_init() does not accept.
CreateRegistryThrows(s) ==
    /\ config[s].nodes # {}
    /\ ~config[s].zk
    /\ Goto(s, "registry", "return")
    /\ UNCHANGED <<config, listening, todo, all_success, running_, calm, zkVars>>

\* getOrCreateServiceRegistry(), for the first time in this process.
CreateRegistry(s) ==
    /\ config[s].nodes # {}
    /\ config[s].zk
    /\ Goto(s, "registry", "await")
    /\ Construct(s)
    /\ todo' = [todo EXCEPT ![s] = config[s].nodes]
    /\ UNCHANGED <<config, listening, all_success, running_, calm>>

\* createServiceRegistryIfNeeded(): up to six seconds to connect.
RegistryReady(s) ==
    /\ IsConnected(s)
    /\ Goto(s, "await", "exists_root")
    /\ UNCHANGED <<config, listening, todo, all_success, running_, calm, zkVars>>

RegistryNotReady(s) ==
    /\ session[s] = "expired" \/ (~calm /\ ~IsConnected(s))
    /\ Goto(s, "await", "return")
    /\ Destruct(s)
    /\ UNCHANGED <<config, listening, todo, all_success, running_, calm>>

\* The path behind the step at p, in the order of the recursion of ensurePath().
Exists(p) == IF p = "root" THEN "exists_root" ELSE "exists_service"
Create(p) == IF p = "root" THEN "create_root" ELSE "create_service"
Below(p)  == IF p = "root" THEN "exists_service" ELSE "create_instance"

\* The loop of registerServicesFromConfig() comes to the next address, or ends.
NextAddress(s, a) ==
    /\ todo' = [todo EXCEPT ![s] = @ \ {a}]
    /\ pc' = [pc EXCEPT ![s] =
                IF todo[s] \ {a} # {} THEN "exists_root"
                ELSE IF all_success'[s] THEN "pool" ELSE "return"]

\* zoo_exists() in ensurePath().
PathExists(s, p) ==
    /\ IsConnected(s)
    /\ Goto(s, Exists(p), IF p \in path THEN Below(p) ELSE Create(p))
    /\ UNCHANGED <<config, listening, todo, all_success, running_, calm, zkVars>>

\* zoo_create() in ensurePath().
PathCreate(s, p) ==
    /\ Goto(s, Create(p), Below(p))
    /\ CreatePath(s, p)
    /\ UNCHANGED <<config, listening, todo, all_success, running_, calm>>

\* registerService() finds the session disconnected, or a call in ensurePath()
\* fails: the address is given up, the others are tried.
RegisterFails(s) ==
    /\ ~IsConnected(s)
    /\ \E p \in {"root", "service"} : pc[s] \in {Exists(p), Create(p)}
    /\ all_success' = [all_success EXCEPT ![s] = FALSE]
    /\ \E a \in todo[s] : NextAddress(s, a)
    /\ UNCHANGED <<config, listening, running_, calm, zkVars>>

RegisterInstance(s) ==
    /\ pc[s] = "create_instance"
    /\ UNCHANGED all_success
    /\ \E a \in todo[s] : CreateNode(s, a) /\ NextAddress(s, a)
    /\ UNCHANGED <<config, listening, running_, calm>>

\* Mutant: what createNode() returns is not looked at.
RegisterInstanceFailureIgnored(s) ==
    /\ pc[s] = "create_instance"
    /\ calm => ~IsConnected(s)
    /\ UNCHANGED all_success
    /\ \E a \in todo[s] : CreateNodeFails(s, a) /\ NextAddress(s, a)
    /\ UNCHANGED <<config, listening, running_, calm>>

RegisterInstanceFails(s) ==
    /\ pc[s] = "create_instance"
    /\ calm => ~IsConnected(s)
    /\ all_success' = [all_success EXCEPT ![s] = FALSE]
    /\ \E a \in todo[s] : CreateNodeFails(s, a) /\ NextAddress(s, a)
    /\ UNCHANGED <<config, listening, running_, calm>>

\* ThreadPoolSingleton::init() with config[s].pool, whatever it holds, and
\* AddListenFd(); then g_message_cycle is set: from here on the handler of SIGINT
\* and SIGTERM reaches the loop.
AddListenFd(s) ==
    /\ Goto(s, "pool", "armed")
    /\ UNCHANGED <<config, listening, todo, all_success, running_, calm, zkVars>>

AddListenFdFails(s) ==
    /\ ~calm
    /\ Goto(s, "pool", "return")
    /\ UNCHANGED <<config, listening, todo, all_success, running_, calm, zkVars>>

\* MessageCycle::Loop() begins by setting running_, whatever a signal has set.
EnterLoop(s) ==
    /\ Goto(s, "armed", "loop")
    /\ running_' = [running_ EXCEPT ![s] = TRUE]
    /\ UNCHANGED <<config, listening, todo, all_success, calm, zkVars>>

\* SignalHandler(); before g_message_cycle is set it does nothing.
Signal(s) ==
    /\ pc[s] = "armed" \/ Serving(s)
    /\ running_' = [running_ EXCEPT ![s] = FALSE]
    /\ UNCHANGED <<pc, config, listening, todo, all_success, calm, zkVars>>

\* HandleRpcRequest() finds the queue full, and the loop waits in enqueue() until
\* a worker takes a task.  Without a thread_pool section the queue has no limit.
EnqueueBlocks(s) ==
    /\ config[s].pool # NoThreadPoolConfig
    /\ Goto(s, "loop", "enqueue")
    /\ UNCHANGED <<config, listening, todo, all_success, running_, calm, zkVars>>

\* It has got room, for one request of this round after another; then the loop
\* looks at running_.
EnqueueReturns(s) ==
    /\ Goto(s, "enqueue", IF running_[s] THEN "loop" ELSE "shutdown")
    /\ UNCHANGED <<config, listening, todo, all_success, running_, calm, zkVars>>

\* epoll_wait() fails, other than with EINTR: the loop ends without a signal.
EpollWaitFails(s) ==
    /\ ~calm
    /\ Goto(s, "loop", "shutdown")
    /\ UNCHANGED <<config, listening, todo, all_success, running_, calm, zkVars>>

-----------------------------------------------------------------------------
(* End *)


\* epoll_wait() returns once a second at least, so the loop sees running_.
LeaveLoop(s) ==
    /\ ~running_[s]
    /\ Goto(s, "loop", "shutdown")
    /\ UNCHANGED <<config, listening, todo, all_success, running_, calm, zkVars>>

\* Mutant: the listening socket is closed together with the pool.
ShutdownPoolAndSocket(s) ==
    /\ Goto(s, "shutdown", "cleanup")
    /\ listening' = [listening EXCEPT ![s] = FALSE]
    /\ UNCHANGED <<config, todo, all_success, running_, calm, zkVars>>

\* ThreadPoolSingleton::shutdown(): returns after ten seconds at the latest,
\* with the pool quiet or not (see ThreadPool).
ShutdownPool(s) ==
    /\ Goto(s, "shutdown", "cleanup")
    /\ UNCHANGED <<config, listening, todo, all_success, running_, calm, zkVars>>

\* Mutant: service_registry_.release(), which does not run the destructor.
CleanupReleases(s) ==
    /\ Goto(s, "cleanup", "return")
    /\ IF session[s] = "none" THEN UNCHANGED zkVars ELSE Abandon(s)
    /\ UNCHANGED <<config, listening, todo, all_success, running_, calm>>

\* ZkConnHandler::cleanup(): service_registry_.reset().
Cleanup(s) ==
    /\ Goto(s, "cleanup", "return")
    /\ IF session[s] = "none" THEN UNCHANGED zkVars ELSE Destruct(s)
    /\ UNCHANGED <<config, listening, todo, all_success, running_, calm>>

\* main() returns: its locals go, the socket among them ...
Return(s) ==
    /\ Goto(s, "return", "atexit")
    /\ listening' = [listening EXCEPT ![s] = FALSE]
    /\ UNCHANGED <<config, todo, all_success, running_, calm, zkVars>>

\* Mutant: ~ZkConnHandler() does not clean up.
AtExitLeavesSession(s) ==
    /\ Goto(s, "atexit", "off")
    /\ Abandon(s)
    /\ running_' = [running_ EXCEPT ![s] = FALSE]
    /\ config' = [config EXCEPT ![s] = NoConfig]
    /\ todo' = [todo EXCEPT ![s] = {}]
    /\ all_success' = [all_success EXCEPT ![s] = TRUE]
    /\ UNCHANGED <<listening, calm>>

\* ... then the statics: ~ZkConnHandler() cleans up if that has not been done.
AtExit(s) ==
    /\ Goto(s, "atexit", "off")
    /\ IF session[s] = "none" THEN UNCHANGED zkVars ELSE Destruct(s)
    /\ running_' = [running_ EXCEPT ![s] = FALSE]
    /\ config' = [config EXCEPT ![s] = NoConfig]
    /\ todo' = [todo EXCEPT ![s] = {}]
    /\ all_success' = [all_success EXCEPT ![s] = TRUE]
    /\ UNCHANGED <<listening, calm>>

\* The process dies: the kernel closes its sockets, nobody closes the session.
Dies(s) ==
    /\ ~calm
    /\ pc[s] \notin {"off", "dead"}
    /\ pc' = [pc EXCEPT ![s] = "dead"]
    /\ Abandon(s)
    /\ listening' = [listening EXCEPT ![s] = FALSE]
    /\ running_' = [running_ EXCEPT ![s] = FALSE]
    /\ config' = [config EXCEPT ![s] = NoConfig]
    /\ todo' = [todo EXCEPT ![s] = {}]
    /\ all_success' = [all_success EXCEPT ![s] = TRUE]
    /\ UNCHANGED calm

-----------------------------------------------------------------------------
CalmsDown == ~calm /\ calm' = TRUE /\ UNCHANGED <<pc, config, listening, todo, all_success, running_, zkVars>>

Registering(s) ==
    \/ CreateRegistryThrows(s) \/ CreateRegistry(s) \/ RegistryReady(s) \/ RegistryNotReady(s)
    \/ (\E p \in {"root", "service"} : PathExists(s, p) \/ PathCreate(s, p))
    \/ RegisterFails(s) \/ RegisterInstance(s) \/ RegisterInstanceFails(s)

\* What main() does once it runs.
MainStep(s) ==
    \/ CreateListenSocket(s) \/ CreateListenSocketFails(s) \/ SkipRegistration(s)
    \/ Registering(s) \/ AddListenFd(s) \/ AddListenFdFails(s)
    \/ EnterLoop(s) \/ LeaveLoop(s) \/ ShutdownPool(s) \/ Cleanup(s) \/ Return(s) \/ AtExit(s)

\* What happens to the loop while it serves.
LoopStep(s) == Signal(s) \/ EnqueueBlocks(s) \/ EnqueueReturns(s) \/ EpollWaitFails(s)

ZooKeeper(s) ==
    /\ \/ Connects(s) \/ OldTimesOut(s)
       \/ ~calm /\ (Disconnects(s) \/ TimesOut(s))
    /\ UNCHANGED mainVars

Next ==
    \/ \E s \in Server :
          LoadConfig(s) \/ MainStep(s) \/ LoopStep(s) \/ Dies(s) \/ ZooKeeper(s)
    \/ CalmsDown

Spec == Init /\ [][Next]_vars

\* ZooKeeper ends the session, left behind by s, that holds the node of a.
OldNodeGoes(s, a) ==
    /\ node[a] = Old(s)
    /\ OldTimesOut(s)
    /\ node'[a] # Old(s)
    /\ UNCHANGED mainVars

\* main() goes on, the client library keeps connecting and ZooKeeper times out
\* what nobody holds any more.  Nobody needs to start or stop a server, and a
\* loop that waits for room in the queue need not get it: every worker may be
\* busy with a client that does not read (see RpcChannel).
Fairness ==
    \A s \in Server :
       /\ WF_vars(MainStep(s))
       /\ WF_vars(Connects(s) /\ UNCHANGED mainVars)
       /\ \A a \in Address : WF_vars(OldNodeGoes(s, a))

FairSpec == Spec /\ Fairness

-----------------------------------------------------------------------------
(* Safety *)

\* The addresses under which the process of s that runs now is registered.
Mine(s) == {a \in Address : node[a] = Own(s)}

\* Whoever finds a server in ZooKeeper can connect to it: the socket listens
\* before the first address is registered and until the last one is taken back.
\* Between the return of main() and the end of the statics this does not hold.
RegisteredIsListening ==
    \A s \in Server : Mine(s) # {} /\ pc[s] # "atexit" => listening[s]

\* A server that serves and whose session lives is registered under all of its
\* addresses, except those that createNode() found taken: by another server, or
\* by the session of its own last life, which takes the node with it.
RunningIsRegistered ==
    \A s \in Server :
       Serving(s) /\ session[s] \in {"connecting", "connected"} =>
          config[s].nodes \subseteq Mine(s) \cup found[s]

\* A server that serves has a thread to do it, if its configuration has a
\* thread_pool section at all: no size passes the checks and is then cut to 0.
PoolHasThreads ==
    \A s \in Server :
       Serving(s) => config[s].pool.core >= 1 \/ config[s].pool = NoThreadPoolConfig

\* A process that does not die closes its session, on whichever way main() ends:
\* when the registry does not connect, in cleanup() after the loop, or as the
\* statics go after an early return.  No session is there when the process has
\* gone, and one that ZooKeeper can hear is never left to time out with nodes.
ExitDeregisters ==
    [][\A s \in Server :
          /\ pc'[s] = "off" => session'[s] = "none"
          /\ pc'[s] # "dead" /\ IsConnected(s) =>
                \A a \in Address : node[a] = Own(s) => node'[a] # Old(s)]_vars

-----------------------------------------------------------------------------
(* Liveness, under FairSpec *)


\* When nothing fails, a server that has come to its registration serves, if it
\* knows where ZooKeeper is: that another one creates the same path, or holds
\* the same address, is no failure.
StartSucceeds ==
    \A s \in Server :
       calm /\ pc[s] = "registry" /\ (config[s].zk \/ config[s].nodes = {}) ~> pc[s] = "loop"

=============================================================================
