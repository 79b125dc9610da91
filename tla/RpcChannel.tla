----------------------------- MODULE RpcChannel -----------------------------
(***************************************************************************)
(* Clients and server together: RpcClient and MessageCycle share the TCP   *)
(* connections of module Connection and nothing else.                      *)
(***************************************************************************)
EXTENDS RpcClient, MessageCycle

vars == <<linkVars, clientVars, serverVars>>

TypeOK == LinkTypeOK /\ ClientTypeOK /\ ServerTypeOK

Init == LinkInit /\ ClientInit /\ ServerInit

ClientStep(c) ==
    CallBegin(c) \/ CallStep(c) \/ Disconnect(c) \/ ClientDies(c)

Next ==
    \/ (\E c \in Client : ClientStep(c)) /\ UNCHANGED serverVars
    \/ ServerStep /\ UNCHANGED clientVars

Spec == Init /\ [][Next]_vars

\* A call that has begun goes on, and select() times out.  epoll_wait() reports
\* every descriptor that is ready, so none is passed over for ever; the pool
\* runs every job.  The processes need not die, and nobody needs to call.
Fairness ==
    /\ \A c \in Client : WF_vars(CallStep(c) /\ UNCHANGED serverVars)
    /\ \A k \in Conn : SF_vars(Accept(k) /\ UNCHANGED clientVars)
    /\ \A f \in Fd : SF_vars(LoopEvent(f) /\ UNCHANGED clientVars)
    /\ WF_vars(LoopStep /\ UNCHANGED clientVars)
    /\ \A k \in Conn :
          SF_vars((\E j \in jobs : j.conn = k /\ JobStep(j)) /\ UNCHANGED clientVars)

FairSpec == Spec /\ Fairness

-----------------------------------------------------------------------------
(* Safety *)

\* Call() never returns the answer to another request: although ReadResponse()
\* does not compare sequence ids, a late response stays on the connection that
\* the time-out has given up.
AnswerMatches ==
    \A c \in Client :
       call[c] = "idle" /\ result[c] # Failed =>
          result[c] = [from |-> c, seq |-> sequence_id_[c]]

\* The requests that pieces belong to.
Ids(pieces) == {pieces[i].id : i \in DOMAIN pieces}

\* What is on the way on k: to be carried out, in a buffer, in the loop or in a
\* job, and carried out, in a job or in a buffer.
JobsOn(k) == {j \in jobs : j.conn = k}
Early(k) ==
    Ids(up[k]) \cup Ids(sbuf[k]) \cup (IF loop.conn = k THEN {loop.id} \ {NoRequest} ELSE {})
       \cup {j.id : j \in {i \in JobsOn(k) : i.pc = "queued"}}
Late(k) ==
    Ids(down[k]) \cup Ids(cbuf[k]) \cup {j.id : j \in {i \in JobsOn(k) : i.pc # "queued"}}
OnTheWay(k) == Early(k) \cup Late(k)

\* A connection carries one request at a time, and a client that may use its
\* connection for the next call has nothing outstanding on it.
OneOutstanding ==
    /\ \A k \in Conn : \A r, s \in OnTheWay(k) : r = s
    /\ \A c \in Client :
          call[c] = "idle" /\ is_connected_[c] => OnTheWay(connection_[c]) = {}

\* No reader finds a broken frame: the pieces that workers write without a
\* lock, and that arrive one by one, never mix with those of another frame.
FramesIntact ==
    \A k \in Conn : FrameStatus(sbuf[k]) # "kError" /\ FrameStatus(cbuf[k]) # "kError"

\* A descriptor that a Connection of the server still uses is its own: a job
\* that answers after RemoveConnection() never writes to the client that
\* accept() has given the number to.
DescriptorsMatch ==
    \A k \in Conn : Referenced(k) => fd_[k] # NoFd /\ sock[fd_[k]] = k

-----------------------------------------------------------------------------
(* Refinement *)

Phase(pc) == CASE pc \in {"construct", "idle", "connect", "request"} -> "idle"
               [] pc = "dead" -> "dead"
               [] OTHER -> "calling"

Calls == INSTANCE RpcCall WITH
    status <- [c \in Client |-> Phase(call[c])], current <- sequence_id_

\* Clients and server implement RpcCall: a call fails or returns the result of
\* its own request, and no request is carried out twice.
ImplementsRpcCall == Calls!Spec

-----------------------------------------------------------------------------
(* Liveness, under FairSpec *)

\* Call() returns, whatever the server does, if the request fits into the socket
\* buffers: ::write() on the client's blocking socket knows no time-out.
CallReturns == \A c \in Client : call[c] = "write" ~> call[c] \in {"idle", "dead"}

Writing(k) == \E j \in jobs : j.conn = k /\ j.pc = "writing"

\* A worker that writes a response to a client that has gone does not try for
\* ever: the descriptor stays this connection's until the job ends, and the
\* kernel reports the reset.
WorkerFreed == \A k \in Conn : Writing(k) /\ link[k] # "open" ~> ~Writing(k)

\* A worker spins in Write() until a client that is still there, and that may
\* have given up reading, makes room.
WorkerHeld == \E k \in Conn : Writing(k) /\ link[k] = "open" /\ Len(down[k]) >= Window

\* What the server has of the connection's stream ends with a whole frame.
WholeFrames(k) == (Len(up[k]) + Len(sbuf[k])) % Parts = 0

\* A connection that its client has closed is forgotten and its descriptor
\* freed, even if Read() stops at the request and does not see the end of the
\* stream behind it: the response brings back a reset.  (A client that closes
\* in the middle of a request may never be noticed.)
ClosedIsForgotten ==
    \A k \in Conn :
       link[k] = "fin" /\ k \notin backlog /\ WholeFrames(k) ~>
          fd_[k] = NoFd \/ ~running_ \/ WorkerHeld

-----------------------------------------------------------------------------
(* What the comments say and the code does not do *)

\* "阻塞等待 timeout_ms 毫秒，一旦可读就调用 Read()；用于客户端同步等响应"
\* (connection.h:39): the client waits for timeout_ms, no longer.
ReadReturns == \A c \in Client : call[c] = "read" ~> call[c] # "read"

\* "把真正的业务处理丢给线程池，epoll 主线程只管收发字节，不被业务逻辑阻塞"
\* (message_cycle.cpp:103): the loop hands a request over and goes on.
LoopGoesOn == loop.pc = "enqueue" ~> loop.pc # "enqueue"

=============================================================================
