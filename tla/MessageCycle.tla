---------------------------- MODULE MessageCycle ----------------------------
(***************************************************************************)
(* The server: myrpc::MessageCycle with its ConnectionManager, and the     *)
(* tasks it hands to the thread pool (rpc_src/network/message_cycle.cpp,   *)
(* connection_manager.cpp).  The pool is what TaskService promises: a set  *)
(* of jobs, of which Room may wait and Slots may run.                      *)
(*                                                                         *)
(* A Connection is kept by shared pointers: in connections_, in the local  *)
(* variable of the loop and in each job.  When the last one goes, its      *)
(* destructor closes the descriptor, and accept() may give it out again.   *)
(***************************************************************************)
EXTENDS Connection

CONSTANTS
    Fd,      \* the descriptors the server may have
    NoFd,
    Room,    \* max_queue_size of the pool, 0 for no limit
    Slots,   \* its threads
    Window   \* bound: pieces that fit into the socket buffers towards a client

ASSUME ServerAssumption ==
    /\ Fd \subseteq Nat /\ IsFiniteSet(Fd) /\ NoFd \notin Fd
    /\ Room \in Nat /\ Slots \in Nat \ {0} /\ Window \in Nat \ {0}

VARIABLES
    serving,       \* the server process is there
    running_,
    loop,          \* where Loop() is, with its local conn and request
    connections_,  \* ConnectionManager: descriptor to Connection
    fd_,           \* the descriptor each Connection holds
    sock,          \* the kernel's table: descriptor to TCP connection
    sbuf,          \* read_buffer_ of the server's end of each connection
    state_,        \* whether each Connection is still CONNECTED
    jobs,          \* the tasks in the pool
    executed       \* how often each request was carried out

serverVars == <<serving, running_, loop, connections_, fd_, sock, sbuf, state_,
                jobs, executed>>

NoRequest == [from |-> "nobody", seq |-> 0]

LoopPC == {"wait", "read", "extract", "enqueue", "ended"}

\* A job has its Connection, its request, and how many pieces of the response
\* it has written.
Job == [conn : Conn, id : Request, pc : {"queued", "ran", "writing"}, sent : 0 .. Parts]

ServerTypeOK ==
    /\ serving \in BOOLEAN /\ running_ \in BOOLEAN
    /\ loop \in [pc : LoopPC, conn : Conn \cup {NoConn}, id : Request \cup {NoRequest}]
    /\ connections_ \in [Fd -> Conn \cup {NoConn}]
    /\ fd_ \in [Conn -> Fd \cup {NoFd}]
    /\ sock \in [Fd -> Conn \cup {NoConn}]
    /\ sbuf \in [Conn -> Seq(Piece)]
    /\ state_ \in [Conn -> {"CONNECTED", "DISCONNECTED"}]
    /\ jobs \subseteq Job
    /\ executed \in [Request -> Nat]

LoopAt(pc, k, r) == [pc |-> pc, conn |-> k, id |-> r]

Waiting == LoopAt("wait", NoConn, NoRequest)
Ended == LoopAt("ended", NoConn, NoRequest)

JobAt(j, pc, n) == [conn |-> j.conn, id |-> j.id, pc |-> pc, sent |-> n]

ServerInit ==
    /\ serving = TRUE /\ running_ = TRUE
    /\ loop = Waiting
    /\ connections_ = [f \in Fd |-> NoConn]
    /\ fd_ = [k \in Conn |-> NoFd]
    /\ sock = [f \in Fd |-> NoConn]
    /\ sbuf = [k \in Conn |-> <<>>]
    /\ state_ = [k \in Conn |-> "CONNECTED"]
    /\ jobs = {}
    /\ executed = [r \in Request |-> 0]

-----------------------------------------------------------------------------
(* Shared pointers *)

Referenced(k) ==
    \/ \E f \in Fd : connections_[f] = k
    \/ loop.conn = k
    \/ \E j \in jobs : j.conn = k

\* ~Connection(), on these: the descriptors are free and the peers see the end.
Closing(gone) ==
    /\ fd_' = [k \in Conn |-> IF k \in gone THEN NoFd ELSE fd_[k]]
    /\ sock' = [f \in Fd |-> IF sock[f] \in gone THEN NoConn ELSE sock[f]]
    /\ shut' = shut \cup gone

\* Mutant: a Connection is closed as soon as connections_ has let go of it.
ReleaseEarly == Closing({k \in Conn : fd_[k] # NoFd /\ \A f \in Fd : connections_'[f] # k})

\* The Connections whose last reference this step drops are destroyed.
Release == Closing({k \in Conn : fd_[k] # NoFd /\ ~Referenced(k)'})

-----------------------------------------------------------------------------
(* Loop() *)

\* HandleNewConnection(): accept() gives the lowest free descriptor.
Accept(k) ==
    /\ serving /\ loop.pc = "wait" /\ k \in backlog
    /\ \E f \in Fd :
          /\ sock[f] = NoConn /\ \A g \in Fd : sock[g] = NoConn => f <= g
          /\ fd_' = [fd_ EXCEPT ![k] = f]
          /\ sock' = [sock EXCEPT ![f] = k]
          /\ connections_' = [connections_ EXCEPT ![f] = k]
    /\ backlog' = backlog \ {k}
    /\ UNCHANGED <<serving, running_, loop, sbuf, state_, jobs, executed,
                   link, shut, up, down, edge>>

\* fcntl() or epoll_ctl() fails, and the connection is closed again.
AcceptFail(k) ==
    /\ serving /\ loop.pc = "wait" /\ k \in backlog
    /\ \E f \in Fd : sock[f] = NoConn
    /\ backlog' = backlog \ {k}
    /\ shut' = shut \cup {k}
    /\ UNCHANGED <<serverVars, link, up, down, edge>>

\* RemoveConnection(): out of the epoll set and of connections_.  The handler
\* returns, and its conn goes out of scope.
RemoveConnection(f) ==
    /\ connections_' = [connections_ EXCEPT ![f] = NoConn]
    /\ loop' = Waiting
    /\ UNCHANGED jobs
    /\ Release

\* HandleEpollEvents() on one descriptor.  EPOLLERR and EPOLLHUP come first;
\* a Connection that is not CONNECTED any more cannot Read().
LoopEvent(f) ==
    LET k == connections_[f]
    IN  /\ serving /\ loop.pc = "wait"
        /\ k # NoConn /\ edge[k]
        /\ edge' = [edge EXCEPT ![k] = FALSE]
        /\ IF link[k] = "reset" \/ state_[k] = "DISCONNECTED"
           THEN RemoveConnection(f)
           ELSE /\ loop' = LoopAt("read", k, NoRequest)
                /\ UNCHANGED <<connections_, fd_, sock, jobs, shut>>
        /\ UNCHANGED <<serving, running_, sbuf, state_, executed, link, up, down, backlog>>

\* Read() fails: HandleClientData() removes the connection.
ReadFails(k) ==
    /\ state_' = [state_ EXCEPT ![k] = "DISCONNECTED"]
    /\ RemoveConnection(fd_[k])
    /\ UNCHANGED sbuf

\* Read() returns true: all that is there has been read.
ReadEnds ==
    /\ loop' = LoopAt("extract", loop.conn, NoRequest)
    /\ UNCHANGED <<connections_, fd_, sock, state_, jobs, shut>>

\* One ::read() of the loop in Read(): a short one is the last.
LoopRead ==
    LET k == loop.conn
    IN  /\ serving /\ loop.pc = "read" /\ up[k] # <<>>
        /\ \E r \in Reads(up[k]) :
              /\ up' = [up EXCEPT ![k] = Without(@, r.n)]
              /\ IF Overflows(sbuf[k], r.n) THEN ReadFails(k)
                 ELSE /\ sbuf' = [sbuf EXCEPT ![k] = @ \o First(up[k], r.n)]
                      /\ IF r.full
                         THEN UNCHANGED <<loop, connections_, fd_, sock, state_, jobs, shut>>
                         ELSE ReadEnds
        /\ UNCHANGED <<serving, running_, executed, link, down, edge, backlog>>

\* Mutant: the end of the stream is taken for EAGAIN.
LoopReadNothingGoesOn ==
    LET k == loop.conn
    IN  /\ serving /\ loop.pc = "read" /\ up[k] = <<>>
        /\ IF link[k] # "reset" THEN ReadEnds /\ UNCHANGED sbuf ELSE ReadFails(k)
        /\ UNCHANGED <<serving, running_, executed, link, up, down, edge, backlog>>

\* ::read() has nothing: EAGAIN, or the end of the stream, or an error.
LoopReadNothing ==
    LET k == loop.conn
    IN  /\ serving /\ loop.pc = "read" /\ up[k] = <<>>
        /\ IF link[k] = "open" THEN ReadEnds /\ UNCHANGED sbuf ELSE ReadFails(k)
        /\ UNCHANGED <<serving, running_, executed, link, up, down, edge, backlog>>

\* ExtractFrame() and Deserialize(), until no whole frame is left.
LoopExtract ==
    LET k == loop.conn
        status == FrameStatus(sbuf[k])
    IN  /\ serving /\ loop.pc = "extract"
        /\ sbuf' = IF status = "kIncomplete" THEN sbuf
                                             ELSE [sbuf EXCEPT ![k] = AfterFrame(@)]
        /\ IF status = "kError" THEN RemoveConnection(fd_[k])
           ELSE /\ loop' = IF status = "kIncomplete" THEN Waiting
                           ELSE LoopAt("enqueue", k, sbuf[k][1].id)
                /\ UNCHANGED <<connections_, jobs>>
                /\ Release
        /\ UNCHANGED <<serving, running_, state_, executed, link, up, down, edge, backlog>>

Queued == {j \in jobs : j.pc = "queued"}

\* HandleRpcRequest(): enqueue() blocks the loop while the queue is full.
LoopEnqueue ==
    /\ serving /\ loop.pc = "enqueue"
    /\ Room > 0 => Cardinality(Queued) < Room
    /\ jobs' = jobs \cup {JobAt(loop, "queued", 0)}
    /\ loop' = LoopAt("extract", loop.conn, NoRequest)
    /\ UNCHANGED <<serving, running_, connections_, fd_, sock, sbuf, state_, executed, linkVars>>

Stop ==
    /\ serving /\ running_
    /\ running_' = FALSE
    /\ UNCHANGED <<serving, loop, connections_, fd_, sock, sbuf, state_, jobs, executed, linkVars>>

LoopEnd ==
    /\ serving /\ ~running_ /\ loop.pc = "wait"
    /\ loop' = Ended
    /\ UNCHANGED <<serving, running_, connections_, fd_, sock, sbuf, state_, jobs,
                   executed, linkVars>>

-----------------------------------------------------------------------------
(* HandleRpcRequestSync(), on a thread of the pool *)

\* Mutant: the task captures conn by reference, and the loop has moved on to
\* another connection.
JobRunByReference(j) ==
    LET k == IF loop.conn = NoConn THEN j.conn ELSE loop.conn
    IN  /\ serving /\ j \in Queued
        /\ Cardinality(jobs \ Queued) < Slots
        /\ executed' = [executed EXCEPT ![j.id] = @ + 1]
        /\ jobs' = (jobs \ {j}) \cup {JobAt([j EXCEPT !.conn = k], "ran", 0)}
        /\ UNCHANGED <<serving, running_, loop, connections_, fd_, sock, sbuf, state_, linkVars>>

\* The service carries out the request; an error response is a response too.
JobRun(j) ==
    /\ serving /\ j \in Queued
    /\ Cardinality(jobs \ Queued) < Slots
    /\ executed' = [executed EXCEPT ![j.id] = @ + 1]
    /\ jobs' = (jobs \ {j}) \cup {JobAt(j, "ran", 0)}
    /\ UNCHANGED <<serving, running_, loop, connections_, fd_, sock, sbuf, state_, linkVars>>

\* The job ends and lets go of its Connection.
JobEnd(j) ==
    /\ jobs' = jobs \ {j}
    /\ UNCHANGED <<loop, connections_>>
    /\ Release

\* The response is encoded; then Write() begins with a test of state_, which the
\* loop may have changed.
JobTest(j) ==
    /\ serving /\ j \in jobs /\ j.pc = "ran"
    /\ \/ (CodecFails \/ state_[j.conn] # "CONNECTED") /\ JobEnd(j)
       \/ /\ state_[j.conn] = "CONNECTED"
          /\ jobs' = (jobs \ {j}) \cup {JobAt(j, "writing", 0)}
          /\ UNCHANGED <<loop, connections_, fd_, sock, shut>>
    /\ UNCHANGED <<serving, running_, sbuf, state_, executed, link, up, down, edge, backlog>>

JobWrites(j) == serving /\ j \in jobs /\ j.pc = "writing"

Advance(j) ==
    IF j.sent + 1 = Parts THEN JobEnd(j)
    ELSE /\ jobs' = (jobs \ {j}) \cup {JobAt(j, "writing", j.sent + 1)}
         /\ UNCHANGED <<loop, connections_, fd_, sock, shut>>

\* ::write() of the next piece, on whatever connection has the descriptor.
\* While the send buffer is full it is tried again and again.
JobWrite(j) ==
    LET k == sock[fd_[j.conn]]
    IN  /\ JobWrites(j) /\ link[k] = "open" /\ Len(down[k]) < Window
        /\ down' = [down EXCEPT ![k] = Append(@, [id |-> j.id, part |-> j.sent + 1])]
        /\ Advance(j)
        /\ UNCHANGED <<serving, running_, sbuf, state_, executed, link, up, edge, backlog>>

\* The first ::write() after the client has closed succeeds; the answer to it
\* is a reset, which the epoll set reports.
JobWriteClosed(j) ==
    LET k == sock[fd_[j.conn]]
    IN  /\ JobWrites(j) /\ link[k] = "fin"
        /\ link' = [link EXCEPT ![k] = "reset"]
        /\ edge' = [edge EXCEPT ![k] = TRUE]
        /\ Advance(j)
        /\ UNCHANGED <<serving, running_, sbuf, state_, executed, up, down, backlog>>

\* Mutant: ::write() is tried again whatever the error.
JobWriteFailRetries(j) == FALSE

\* ::write() fails.  (It may also raise SIGPIPE, which ends the process: that
\* is ServerDies.)
JobWriteFail(j) ==
    /\ JobWrites(j) /\ link[sock[fd_[j.conn]]] = "reset"
    /\ state_' = [state_ EXCEPT ![j.conn] = "DISCONNECTED"]
    /\ JobEnd(j)
    /\ UNCHANGED <<serving, running_, sbuf, executed, link, up, down, edge, backlog>>

-----------------------------------------------------------------------------

\* The server process ends, at any point: its kernel closes every socket.
ServerDies ==
    /\ serving /\ serving' = FALSE
    /\ loop' = Ended
    /\ connections_' = [f \in Fd |-> NoConn]
    /\ jobs' = {}
    /\ fd_' = [k \in Conn |-> NoFd]
    /\ sock' = [f \in Fd |-> NoConn]
    /\ shut' = Conn
    /\ backlog' = {}
    /\ UNCHANGED <<running_, sbuf, state_, executed, link, up, down, edge>>

LoopStep == LoopRead \/ LoopReadNothing \/ LoopExtract \/ LoopEnqueue \/ LoopEnd

JobStep(j) ==
    \/ JobRun(j) \/ JobTest(j)
    \/ JobWrite(j) \/ JobWriteClosed(j) \/ JobWriteFail(j)

ServerStep ==
    \/ \E k \in Conn : Accept(k) \/ AcceptFail(k)
    \/ \E f \in Fd : LoopEvent(f)
    \/ LoopStep
    \/ \E j \in jobs : JobStep(j)
    \/ Stop \/ ServerDies

=============================================================================
