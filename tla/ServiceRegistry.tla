--------------------------- MODULE ServiceRegistry ---------------------------
(***************************************************************************)
(* The registration of servers in ZooKeeper (registry/).                   *)
(* Every server process has at most one ServiceRegistry and so one session;*)
(* its instance nodes are ephemeral and go with the session.  ZooKeeper    *)
(* itself is external: what it does to a session and its nodes is modelled *)
(* from the calls of the C client that the code makes.                     *)
(***************************************************************************)
EXTENDS Integers, FiniteSets

CONSTANTS
    Server,     \* the machines that run servers_main
    Address,    \* names of instance nodes, "ip:port"
    NoOwner

VARIABLES
    path,       \* the persistent nodes there are, of "root" and "service"
    node,       \* whose session holds the instance node, NoOwner if there is none
    session,    \* state of the session behind a server's zk_handle_
    found       \* addresses for which createNode() found a node (history)

zkVars == <<path, node, session, found>>

\* The session of the process that runs, or one that an earlier process of the
\* same server has left behind and that ZooKeeper has not timed out yet.
Own(s) == <<s, "own">>
Old(s) == <<s, "old">>
Owner == Server \X {"own", "old"}

ASSUME OwnerAssumption == NoOwner \notin Owner

\* "expired": ZooKeeper has timed the session out; the client need not know yet.
SessionState == {"none", "connecting", "connected", "expired"}

RegistryInit ==
    /\ path = {}
    /\ node = [a \in Address |-> NoOwner]
    /\ session = [s \in Server |-> "none"]
    /\ found = [s \in Server |-> {}]

HandOver(from, to) == [a \in Address |-> IF node[a] = from THEN to ELSE node[a]]

-----------------------------------------------------------------------------
(* ServiceRegistry *)

\* The constructor: zookeeper_init() begins a session.
Construct(s) ==
    /\ session[s] = "none"
    /\ session' = [session EXCEPT ![s] = "connecting"]
    /\ UNCHANGED <<path, node, found>>

\* is_connected_, which globalWatcher() keeps up to date.
IsConnected(s) == session[s] = "connected"

\* The destructor.  zookeeper_close() tells ZooKeeper, if it can reach it;
\* otherwise the nodes stay until the session times out.
Destruct(s) ==
    /\ session' = [session EXCEPT ![s] = "none"]
    /\ node' = HandOver(Own(s), IF IsConnected(s) THEN NoOwner ELSE Old(s))
    /\ found' = [found EXCEPT ![s] = {}]
    /\ UNCHANGED path

\* Mutant: ZNODEEXISTS is taken for a failure.
CreatePathOnlyFirst(s, p) ==
    /\ IsConnected(s)
    /\ p \notin path
    /\ p = "service" => "root" \in path
    /\ path' = path \cup {p}
    /\ UNCHANGED <<node, session, found>>

\* ensurePath(): zoo_create() of a path, after zoo_exists() has not found it.
\* Another server may have been faster: ZNODEEXISTS is fine.
CreatePath(s, p) ==
    /\ IsConnected(s)
    /\ p = "service" => "root" \in path
    /\ path' = path \cup {p}
    /\ UNCHANGED <<node, session, found>>

\* createNode() returns true, also if there is a node already, whoever owns it.
CreateNode(s, a) ==
    /\ IsConnected(s)
    /\ node' = [node EXCEPT ![a] = IF @ = NoOwner THEN Own(s) ELSE @]
    /\ found' = [found EXCEPT ![s] = IF node[a] = NoOwner THEN @ \ {a} ELSE @ \cup {a}]
    /\ UNCHANGED <<path, session>>

\* createNode() returns false: the connection has gone, and zoo_create() may or
\* may not have reached ZooKeeper before.
CreateNodeFails(s, a) ==
    \/ ~IsConnected(s) /\ UNCHANGED zkVars
    \/ /\ IsConnected(s)
       /\ session' = [session EXCEPT ![s] = "connecting"]
       /\ node' = [node EXCEPT ![a] = IF @ = NoOwner THEN Own(s) ELSE @]
       /\ UNCHANGED <<path, found>>

-----------------------------------------------------------------------------
(* ZooKeeper and the network *)

Connects(s) ==
    /\ session[s] = "connecting"
    /\ session' = [session EXCEPT ![s] = "connected"]
    /\ UNCHANGED <<path, node, found>>

Disconnects(s) ==
    /\ session[s] = "connected"
    /\ session' = [session EXCEPT ![s] = "connecting"]
    /\ UNCHANGED <<path, node, found>>

\* No heartbeat for 30 seconds.
TimesOut(s) ==
    /\ session[s] = "connecting"
    /\ session' = [session EXCEPT ![s] = "expired"]
    /\ node' = HandOver(Own(s), NoOwner)
    /\ UNCHANGED <<path, found>>

\* The sessions that a server's dead processes have left end one after another.
OldTimesOut(s) ==
    \E A \in SUBSET {a \in Address : node[a] = Old(s)} :
       /\ A # {}
       /\ node' = [a \in Address |-> IF a \in A THEN NoOwner ELSE node[a]]
       /\ UNCHANGED <<path, session, found>>

\* The process ends without closing the session.
Abandon(s) ==
    /\ session' = [session EXCEPT ![s] = "none"]
    /\ node' = HandOver(Own(s), Old(s))
    /\ found' = [found EXCEPT ![s] = {}]
    /\ UNCHANGED path

=============================================================================
