--------------------------- MODULE MCServersMain ---------------------------
EXTENDS ServersMain, TLC

CONSTANT a

MCServer == {"s1", "s2"}

ThreadPool(max, core) ==
    [max_threads |-> max, core_threads |-> core, queue_size |-> Absent, keep_alive_time |-> Absent]

Register(nodes) ==
    [service_name |-> "myrpc_service", service_version |-> "1.0.0", registry_nodes |-> nodes]

File(nodes, pool, strategy) ==
    [register_config |-> nodes, thread_pool |-> pool, scheduler |-> "zk",
     load_balance_strategy |-> strategy]

\* Two servers that race for one address.  s1 may also find a file with nothing to
\* register and no thread_pool section; one whose sizes are cut to 16 bits, to zero;
\* entries that are not accepted; and an address to register without a scheduler
\* section.
MCConfigFile ==
    [s1 |-> {File(Register({a}), ThreadPool(65537, Absent), "round"),
             File(Absent, Absent, Absent),
             File(Absent, ThreadPool(65537, 65536), "weight"),
             File(Absent, ThreadPool(1, 2), "round"),
             File(Absent, ThreadPool(Malformed, 1), "round"),
             File(Register(Absent), ThreadPool(1, 1), "round"),
             File(Malformed, ThreadPool(1, 1), "round"),
             File(Absent, ThreadPool(1, 1), "least"),
             [File(Register({a}), ThreadPool(1, 1), "round") EXCEPT !.scheduler = Absent]},
     s2 |-> {File(Register({a}), ThreadPool(1, 1), "random")}]

=============================================================================
