---------------------------- MODULE ServerConfig ----------------------------
(***************************************************************************)
(* What a server makes of its configuration files (load_config/).  A file  *)
(* is a record of the entries that matter; Absent stands for an entry that *)
(* is not there, Malformed for one that makes the JSON library throw.      *)
(***************************************************************************)
EXTENDS Integers

CONSTANTS
    Absent,
    Malformed,
    Refused     \* an Init...() that has returned false

\* nlohmann::json::value(key, default): never the default for a malformed entry.
Value(entry, default) == IF entry = Absent THEN default ELSE entry

\* The conversion of the int that value() returns to a uint16_t.
UInt16(n) == n % 65536

\* Mutant: the sizes are checked as the file has them, before they are cut.
InitThreadPoolConfigUncut(tp) ==
    LET max  == Value(tp.max_threads, 10)
        core == Value(tp.core_threads, max)
    IN  IF Malformed \in {tp.max_threads, tp.core_threads, tp.queue_size, tp.keep_alive_time}
        THEN Refused
        ELSE IF max = 0 \/ core = 0 \/ core > max THEN Refused
             ELSE [core |-> UInt16(core), max |-> UInt16(max)]

\* ThreadPoolConfig::InitThreadPoolConfig(): the sizes of the pool.
InitThreadPoolConfig(tp) ==
    LET max   == UInt16(Value(tp.max_threads, 10))
        core  == UInt16(Value(tp.core_threads, max))
        queue == Value(tp.queue_size, 100)
        keep  == Value(tp.keep_alive_time, 60)
    IN  IF Malformed \in {tp.max_threads, tp.core_threads, tp.queue_size, tp.keep_alive_time}
        THEN Refused
        ELSE IF max = 0 \/ core = 0 \/ core > max \/ queue = 0 \/ keep = 0
             THEN Refused
             ELSE [core |-> core, max |-> max]

\* A ThreadPoolConfig that InitThreadPoolConfig() has not been called for.
NoThreadPoolConfig == [core |-> 0, max |-> 0]

\* ServiceRegistryConfig::InitRegistryConfig(): the addresses to register.
InitRegistryConfig(file) ==
    IF \/ file = Malformed
       \/ "" \in {Value(file.service_name, ""), Value(file.service_version, "")}
       \/ file.registry_nodes = Absent
       \/ Malformed \in file.registry_nodes
    THEN Refused
    ELSE file.registry_nodes

\* The names that LoadBalancer::initBalancer() knows; any other makes it return
\* false, with the random balancer in place.
Balancers == {"random", "round", "weight"}

\* RpcServerConfig::InitRpcServerConfig(): what main() goes on with, given
\* whether initZkConnHandler() can reach ZooKeeper.  Only a scheduler section
\* tells the ZkConnHandler where ZooKeeper is (zk).
InitRpcServerConfig(file, zkReached) ==
    LET nodes == IF file.register_config = Absent
                 THEN {} ELSE InitRegistryConfig(file.register_config)
        pool  == IF file.thread_pool = Absent
                 THEN NoThreadPoolConfig ELSE InitThreadPoolConfig(file.thread_pool)
    IN  IF \/ Refused \in {nodes, pool}
           \/ file.scheduler # Absent /\ ~zkReached
           \/ Value(file.load_balance_strategy, "random") \notin Balancers
        THEN Refused
        ELSE [nodes |-> nodes, pool |-> pool, zk |-> file.scheduler # Absent]

=============================================================================
