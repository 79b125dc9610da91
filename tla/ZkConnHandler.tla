---------------------------- MODULE ZkConnHandler ----------------------------
(***************************************************************************)
(* Discovery in a client process (conn_balancer/zk_conn_handler.cpp): one  *)
(* ZkConnHandler that all threads with an RpcClient share.  servers_ has a *)
(* mutex, zk_client_ has none.  The ZooKeeper client library and the nodes *)
(* that servers create and lose (see ServersMain) are external.            *)
(***************************************************************************)
EXTENDS Integers, FiniteSets

CONSTANTS
    Thread,
    NoThread,
    Address,
    NoServer,   \* "", the result of getServer() when there is nobody
    MaxLeaks    \* leaked handles are counted up to this number

ASSUME MaxLeaksAssumption == MaxLeaks \in Nat
ASSUME ThreadAssumption == IsFiniteSet(Thread) /\ Thread # {}

VARIABLES
    zk_client_,     \* nullptr, or the state of the handle it points to
    servers_,
    servers_mutex_, \* the thread that holds it, or NoThread
    cleanup_done,
    leaked,         \* handles that are open and that nothing points to (history)
    registered,     \* the addresses that ZooKeeper has now
    pc, op,         \* where a thread is, and for which call
    list,           \* getAllServers()'s servers
    result,         \* what getServer() has returned last
    since,          \* addresses registered at some time of a getServer() (history)
    recent,         \* ... or of one that was in progress when it began (history)
    init_failed,    \* a zookeeper_init() has returned nullptr (history)
    crashed,        \* the process has died of the use of a closed handle
    calm            \* connections hold, calls succeed and servers stay as they are

sharedVars == <<zk_client_, servers_, servers_mutex_, cleanup_done, leaked, init_failed>>
threadVars == <<pc, op, list, result, since, recent>>
envVars == <<registered, crashed, calm>>
vars == <<sharedVars, threadVars, envVars>>

\* "closed": zookeeper_close() has freed the handle and the pointer is still there.
HandleState == {"nullptr", "connecting", "connected", "expired", "closed"}
Open == {"connecting", "connected", "expired"}
ThreadPC == {"idle", "check", "open", "wait", "cleanup", "close", "clear",
             "children", "data", "store", "select"}

TypeOK ==
    /\ zk_client_ \in HandleState
    /\ servers_ \subseteq Address
    /\ servers_mutex_ \in Thread \cup {NoThread}
    /\ cleanup_done \in BOOLEAN
    /\ leaked \in 0 .. MaxLeaks
    /\ init_failed \in BOOLEAN
    /\ registered \subseteq Address
    /\ pc \in [Thread -> ThreadPC]
    /\ op \in [Thread -> {"init", "get"}]
    /\ list \in [Thread -> SUBSET Address]
    /\ result \in [Thread -> Address \cup {NoServer}]
    /\ since \in [Thread -> SUBSET Address]
    /\ recent \in [Thread -> SUBSET Address]
    /\ crashed \in BOOLEAN
    /\ calm \in BOOLEAN

Init ==
    /\ zk_client_ = "nullptr"
    /\ servers_ = {}
    /\ servers_mutex_ = NoThread
    /\ cleanup_done = FALSE
    /\ leaked = 0
    /\ init_failed = FALSE
    /\ registered \in SUBSET Address
    /\ pc = [t \in Thread |-> "idle"]
    /\ op = [t \in Thread |-> "init"]
    /\ list = [t \in Thread |-> {}]
    /\ result = [t \in Thread |-> NoServer]
    /\ since = [t \in Thread |-> {}]
    /\ recent = [t \in Thread |-> {}]
    /\ crashed = FALSE
    /\ calm = FALSE

\* What zoo_state() and the other calls can find at zk_client_: a closed handle
\* is freed memory, where anything may be.
Seen == IF zk_client_ = "closed" THEN Open \cup {"crash"} ELSE {zk_client_}

\* zk_client_ is assigned, and what it pointed to is forgotten.
Assign(h) ==
    /\ zk_client_' = h
    /\ leaked' = IF zk_client_ \in Open /\ leaked < MaxLeaks THEN leaked + 1 ELSE leaked

Goto(t, from, to) == pc[t] = from /\ pc' = [pc EXCEPT ![t] = to]

-----------------------------------------------------------------------------
(* Calls *)

\* The threads in getServer().
Getting == {t \in Thread : pc[t] # "idle" /\ op[t] = "get"}

\* initZkConnHandler() from the constructor of an RpcClient, or getServer() from
\* Connect().  A call begins while others are in progress.  The configuration that
\* an RpcClient passes on has the right types, so its parsing does not fail.
Begin(t, o) ==
    /\ Goto(t, "idle", "check")
    /\ op' = [op EXCEPT ![t] = o]
    /\ result' = [result EXCEPT ![t] = NoServer]
    /\ since' = [since EXCEPT ![t] = IF o = "get" THEN registered ELSE {}]
    /\ recent' = [recent EXCEPT ![t] =
                    IF o = "get" THEN registered \cup UNION {since[u] : u \in Getting} ELSE {}]
    /\ UNCHANGED <<sharedVars, list, envVars>>

\* ensureZkConnection() returns: initZkConnHandler() is done with it, and
\* getAllServers() goes on, or returns an empty list.
Ensured(t, ok) ==
    /\ pc' = [pc EXCEPT ![t] = IF op[t] = "init" THEN "idle"
                               ELSE IF ok THEN "children" ELSE "store"]
    /\ list' = [list EXCEPT ![t] = {}]
    /\ UNCHANGED <<op, result, since, recent>>

\* ensureZkConnection(): the test of zk_client_, without a lock.
CheckHandle(t) ==
    /\ Goto(t, "check", IF zk_client_ = "nullptr" THEN "open" ELSE "wait")
    /\ UNCHANGED <<sharedVars, op, list, result, since, recent, envVars>>

\* ... and zookeeper_init(), which other threads may have called meanwhile.
OpenHandle(t) ==
    /\ Goto(t, "open", "wait")
    /\ Assign("connecting")
    /\ UNCHANGED <<servers_, servers_mutex_, cleanup_done, init_failed, op, list, result, since, recent, envVars>>

OpenHandleFails(t) ==
    /\ ~calm
    /\ pc[t] = "open"
    /\ Assign("nullptr")
    /\ init_failed' = TRUE
    /\ Ensured(t, FALSE)
    /\ UNCHANGED <<servers_, servers_mutex_, cleanup_done, envVars>>

\* The loop on zoo_state(), three times in 300 milliseconds: connected, or out of
\* patience or of hope.
PollState(t) ==
    /\ pc[t] = "wait"
    /\ \E state \in Seen \ {"crash"} :
          IF state = "connected"
          THEN Ensured(t, TRUE)
          ELSE Goto(t, "wait", "cleanup") /\ UNCHANGED <<op, list, result, since, recent>>
    /\ UNCHANGED <<sharedVars, envVars>>

\* Mutant: cleanup() without cleanup_done.
CleanupEveryTime(t) ==
    /\ Goto(t, "cleanup", "close")
    /\ UNCHANGED <<sharedVars, op, list, result, since, recent, envVars>>

\* Mutant: cleanup() does nothing.
CleanupNever(t) ==
    /\ pc[t] = "cleanup"
    /\ Ensured(t, FALSE)
    /\ UNCHANGED <<sharedVars, envVars>>

\* cleanup(): only the first call of all does anything.
CleanupOnce(t) ==
    /\ pc[t] = "cleanup"
    /\ IF cleanup_done
       THEN Ensured(t, FALSE)
       ELSE Goto(t, "cleanup", "close") /\ UNCHANGED <<op, list, result, since, recent>>
    /\ cleanup_done' = TRUE
    /\ UNCHANGED <<zk_client_, servers_, servers_mutex_, leaked, init_failed, envVars>>

\* zookeeper_close() on what zk_client_ holds now, if anything.
CloseHandle(t) ==
    /\ pc[t] = "close"
    /\ IF zk_client_ = "nullptr"
       THEN Ensured(t, FALSE) /\ UNCHANGED zk_client_
       ELSE /\ Goto(t, "close", "clear")
            /\ zk_client_' = "closed"
            /\ UNCHANGED <<op, list, result, since, recent>>
    /\ UNCHANGED <<servers_, servers_mutex_, cleanup_done, leaked, init_failed, envVars>>

ClearHandle(t) ==
    /\ pc[t] = "clear"
    /\ Assign("nullptr")
    /\ Ensured(t, FALSE)
    /\ UNCHANGED <<servers_, servers_mutex_, cleanup_done, init_failed, envVars>>

\* getAllServers(): zoo_get_children() under servers_mutex_.
GetChildren(t) ==
    /\ servers_mutex_ = NoThread
    /\ \E state \in Seen \ {"crash"} :
          \/ /\ state = "connected"
             /\ Goto(t, "children", "data")
             /\ servers_mutex_' = t
             /\ list' = [list EXCEPT ![t] = registered]
          \/ /\ state # "connected"
             /\ Goto(t, "children", "store")
             /\ UNCHANGED <<servers_mutex_, list>>
    /\ UNCHANGED <<zk_client_, servers_, cleanup_done, leaked, init_failed, op, result, since, recent, envVars>>

\* Mutant: a path out of getAllServers() that keeps servers_mutex_.
GetDataKeepsMutex(t) ==
    /\ Goto(t, "data", "store")
    /\ list' = [list EXCEPT ![t] = @ \cap registered]
    /\ UNCHANGED <<sharedVars, op, result, since, recent, envVars>>

\* zoo_get() of each child: those that have gone are left out, and if the
\* connection breaks those that are still to be read.
GetData(t) ==
    /\ Goto(t, "data", "store")
    /\ \E state \in Seen \ {"crash"} :
       \E L \in IF state = "connected" THEN {list[t] \cap registered}
                ELSE SUBSET (list[t] \cap registered) :
          list' = [list EXCEPT ![t] = L]
    /\ servers_mutex_' = NoThread
    /\ UNCHANGED <<zk_client_, servers_, cleanup_done, leaked, init_failed, op, result, since, recent, envVars>>

\* Mutant: an empty list is not stored, the last one is good enough.
StoreServersUnlessEmpty(t) ==
    /\ servers_mutex_ = NoThread
    /\ Goto(t, "store", "select")
    /\ servers_' = IF list[t] = {} THEN servers_ ELSE list[t]
    /\ list' = [list EXCEPT ![t] = {}]
    /\ UNCHANGED <<zk_client_, servers_mutex_, cleanup_done, leaked, init_failed, op, result, since, recent, envVars>>

\* updateServersFromZk(): servers_mutex_ is taken again to store the list.
StoreServers(t) ==
    /\ servers_mutex_ = NoThread
    /\ Goto(t, "store", "select")
    /\ servers_' = list[t]
    /\ list' = [list EXCEPT ![t] = {}]
    /\ UNCHANGED <<zk_client_, servers_mutex_, cleanup_done, leaked, init_failed, op, result, since, recent, envVars>>

\* getServer(): and once more to select.  In a client nobody calls
\* initBalancer(), so the balancer is the random one.
SelectServer(t) ==
    /\ servers_mutex_ = NoThread
    /\ Goto(t, "select", "idle")
    /\ \E a \in IF servers_ = {} THEN {NoServer} ELSE servers_ :
          result' = [result EXCEPT ![t] = a]
    /\ since' = [since EXCEPT ![t] = {}]
    /\ UNCHANGED <<sharedVars, op, list, recent, envVars>>

\* The process dies of a call on a closed handle.
UseAfterClose(t) ==
    /\ pc[t] \in {"wait", "children", "data"}
    /\ pc[t] = "children" => servers_mutex_ = NoThread
    /\ "crash" \in Seen
    /\ crashed' = TRUE
    /\ UNCHANGED <<sharedVars, threadVars, registered, calm>>

CallStep(t) ==
    \/ CheckHandle(t) \/ OpenHandle(t) \/ OpenHandleFails(t) \/ PollState(t)
    \/ CleanupOnce(t) \/ CloseHandle(t) \/ ClearHandle(t)
    \/ GetChildren(t) \/ GetData(t) \/ StoreServers(t) \/ SelectServer(t)
    \/ UseAfterClose(t)

-----------------------------------------------------------------------------
(* ZooKeeper, the servers and the network *)

HandleEvent(from, to) ==
    /\ zk_client_ = from
    /\ zk_client_' = to
    /\ UNCHANGED <<servers_, servers_mutex_, cleanup_done, leaked, init_failed, threadVars, envVars>>

Connects == HandleEvent("connecting", "connected")
Disconnects == ~calm /\ HandleEvent("connected", "connecting")

\* The session was away for more than 30 seconds and is told so.
Expires == ~calm /\ HandleEvent("connecting", "expired")

ServerComesOrGoes(a) ==
    /\ ~calm
    /\ registered' = IF a \in registered THEN registered \ {a} ELSE registered \cup {a}
    /\ since' = [t \in Thread |-> IF t \in Getting THEN since[t] \cup registered' ELSE since[t]]
    /\ recent' = [t \in Thread |-> IF t \in Getting THEN recent[t] \cup registered' ELSE recent[t]]
    /\ UNCHANGED <<sharedVars, pc, op, list, result, crashed, calm>>

CalmsDown ==
    /\ ~calm
    /\ calm' = TRUE
    /\ UNCHANGED <<sharedVars, threadVars, registered, crashed>>

Next ==
    /\ ~crashed
    /\ \/ \E t \in Thread : CallStep(t) \/ \E o \in {"init", "get"} : Begin(t, o)
       \/ Connects \/ Disconnects \/ Expires
       \/ \E a \in Address : ServerComesOrGoes(a)
       \/ CalmsDown

Spec == Init /\ [][Next]_vars

\* A call goes on: its steps are not blocked for long by a mutex that is held
\* for a few calls to ZooKeeper.  The client library keeps connecting.
Fairness ==
    /\ \A t \in Thread : SF_vars(~crashed /\ CallStep(t))
    /\ WF_vars(~crashed /\ Connects)

FairSpec == Spec /\ Fairness

-----------------------------------------------------------------------------
(* Safety *)

\* getServer() never returns a server that was gone before the call began and
\* before every getServer() in progress then: an older list can be stored over
\* a newer one, but only by a call that has been on its way all the time.  What
\* one call may still return is not passed on to the calls that overlap it.
AnswerIsRecent == \A t \in Thread : result[t] # NoServer => result[t] \in recent[t]

\* zookeeper_close() is never called twice on one handle: zk_client_ holds a
\* closed one only while the thread in cleanup() is on its way to the assignment,
\* and no other thread comes to zookeeper_close() in that time, or later.  In
\* that window other threads may use the handle.
ClosedOnce ==
    zk_client_ = "closed" =>
       /\ \E t \in Thread : pc[t] = "clear"
       /\ \A t \in Thread : pc[t] # "close"

\* The unlocked test of zk_client_ can make every thread open a handle where one
\* is enough, at the start and after the one cleanup(), and no more than that,
\* however often sessions expire (unless zookeeper_init() fails, which overwrites
\* a handle with nullptr).
LeaksBounded == init_failed \/ leaked <= 2 * (Cardinality(Thread) - 1)

-----------------------------------------------------------------------------
(* Liveness, under FairSpec *)

\* Calls return, whatever happens to the sessions.
CallReturns == \A t \in Thread : pc[t] # "idle" ~> pc[t] = "idle" \/ crashed

\* cleanup() has been used up and the handle is dead: it will not be replaced.
Stuck == cleanup_done /\ zk_client_ = "expired"

\* Once ZooKeeper and the servers are back, a process that goes on calling
\* getServer() finds a server again and again, unless it is stuck.
FindsServers ==
    (<>[](calm /\ registered # {} /\ ~Stuck /\ ~crashed)
       /\ \A t \in Thread : []<>(pc[t] = "check" /\ op[t] = "get"))
    => []<>(\E t \in Thread : result[t] # NoServer)

-----------------------------------------------------------------------------
(* What the comments say and the code does not do *)

\* "自动重连机制，提高系统可靠性" (zk_conn_handler.cpp:13): the handler connects
\* again by itself, so that servers are found whatever has happened to sessions.
ReconnectsByItself ==
    (<>[](calm /\ registered # {} /\ ~crashed)
       /\ \A t \in Thread : []<>(pc[t] = "check" /\ op[t] = "get"))
    => []<>(\E t \in Thread : result[t] # NoServer)

=============================================================================
