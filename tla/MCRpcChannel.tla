---------------------------- MODULE MCRpcChannel ----------------------------
(* Instances of RpcChannel for TLC. *)
EXTENDS RpcChannel, TLC

\* Clients and connections are interchangeable.
Symmetry == Permutations(Client) \cup Permutations(Conn)

\* The clients make two requests together: one client both, or each one.
TwoRequests ==
    Cardinality({r \in Request : r.seq <= sequence_id_[r.from]}) <= 2

\* The behaviours in which no process ends, no connection fails and the clients,
\* which are numbers here as the connections are, call one after another in order.
OneAfterAnother ==
    /\ serving /\ running_ /\ shut = {}
    /\ \A k \in Conn : link[k] \in {"free", "open"}
    /\ \A c \in Client : call[c] # "dead"
    /\ \A c, d \in Client : c < d =>
          \/ call[c] = "idle" /\ sequence_id_[c] = MaxCalls
          \/ call[d] = "construct"
    /\ \A k, l \in Conn : k < l /\ link[l] # "free" => link[k] # "free"

=============================================================================
