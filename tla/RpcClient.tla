----------------------------- MODULE RpcClient ------------------------------
(***************************************************************************)
(* myrpc::RpcClient (rpc_src/core/rpc_client.{h,cpp}).  mutex_ is held for *)
(* the whole of Call(), so a client makes one call at a time.  Its socket  *)
(* is blocking.  state_ of its Connection is not kept: whatever sets it to *)
(* DISCONNECTED makes Call() clear is_connected_ and return false.         *)
(* Disconnect() does not take mutex_; its one caller is the destructor, so *)
(* it is taken to come between calls.                                      *)
(***************************************************************************)
EXTENDS Connection

CONSTANTS
    Fails,    \* the numbers of the requests that are answered with an error code
    UpWindow  \* bound: pieces that fit into the socket buffers towards the server

ASSUME ClientAssumption == Fails \subseteq Nat /\ UpWindow \in Nat \ {0}

VARIABLES
    call,           \* where each client is in its constructor or in Call()
    sequence_id_,
    connection_,
    is_connected_,
    sent,           \* how many pieces of the request are written
    cbuf,           \* read_buffer_ of the client's end of each connection
    result          \* what the last Call() gave: the request answered, or Failed

clientVars == <<call, sequence_id_, connection_, is_connected_, sent, cbuf, result>>

Failed == [from |-> "nobody", seq |-> 0]

CallPC == {"construct", "idle", "connect", "request", "write", "select", "read",
           "extract", "dead"}

ClientTypeOK ==
    /\ call \in [Client -> CallPC]
    /\ sequence_id_ \in [Client -> 0 .. MaxCalls]
    /\ connection_ \in [Client -> Conn \cup {NoConn}]
    /\ is_connected_ \in [Client -> BOOLEAN]
    /\ sent \in [Client -> 0 .. Parts]
    /\ cbuf \in [Conn -> Seq(Piece)]
    /\ result \in [Client -> Request \cup {Failed}]

ClientInit ==
    /\ call = [c \in Client |-> "construct"]
    /\ sequence_id_ = [c \in Client |-> 0]
    /\ connection_ = [c \in Client |-> NoConn]
    /\ is_connected_ = [c \in Client |-> FALSE]
    /\ sent = [c \in Client |-> 0]
    /\ cbuf = [k \in Conn |-> <<>>]
    /\ result = [c \in Client |-> Failed]

-----------------------------------------------------------------------------

\* Call() begins, and connects first if need be.
CallBegin(c) ==
    /\ call[c] = "idle" /\ sequence_id_[c] < MaxCalls
    /\ call' = [call EXCEPT ![c] = IF is_connected_[c] THEN "request" ELSE "connect"]
    /\ UNCHANGED <<sequence_id_, connection_, is_connected_, sent, cbuf, result, linkVars>>

\* Connect() is called by the constructor and by Call().
Connecting(c) == call[c] \in {"construct", "connect"}

Connected(c) ==
    /\ is_connected_' = [is_connected_ EXCEPT ![c] = TRUE]
    /\ call' = [call EXCEPT ![c] = IF @ = "construct" THEN "idle" ELSE "request"]

\* Mutant: the old connection is used again if there is one.
ConnectReuses(c, k) ==
    /\ Connecting(c)
    /\ IF connection_[c] # NoConn THEN k = connection_[c] ELSE link[k] = "free"
    /\ link' = [link EXCEPT ![k] = "open"]
    /\ backlog' = IF connection_[c] = NoConn THEN backlog \cup {k} ELSE backlog
    /\ connection_' = [connection_ EXCEPT ![c] = k]
    /\ Connected(c)
    /\ UNCHANGED <<shut, up, down, edge, sequence_id_, sent, cbuf, result>>

\* One of the attempts of Connect() succeeds.  Assigning connection_ destroys
\* the Connection that was there, which closes its socket.
Connect(c, k) ==
    /\ Connecting(c) /\ link[k] = "free" /\ k \notin shut
    /\ link' = [LinkClosed(connection_[c]) EXCEPT ![k] = "open"]
    /\ ClientEndClosed(connection_[c])
    /\ backlog' = backlog \cup {k}
    /\ connection_' = [connection_ EXCEPT ![c] = k]
    /\ Connected(c)
    /\ UNCHANGED <<shut, up, sequence_id_, sent, cbuf, result>>

\* Call() returns: true with the answer to r, or false.
CallReturn(c, r) ==
    /\ call' = [call EXCEPT ![c] = "idle"]
    /\ result' = [result EXCEPT ![c] = r]

\* All attempts of Connect() fail: the constructor throws, Call() returns false.
ConnectFail(c) ==
    /\ Connecting(c)
    /\ IF call[c] = "construct" THEN call' = [call EXCEPT ![c] = "dead"] /\ UNCHANGED result
                                ELSE CallReturn(c, Failed)
    /\ UNCHANGED <<sequence_id_, connection_, is_connected_, sent, cbuf, linkVars>>

\* The request cannot be serialized; the connection stays as it is.
SerializeFail(c) ==
    /\ call[c] = "request"
    /\ CallReturn(c, Failed)
    /\ UNCHANGED <<sequence_id_, connection_, is_connected_, sent, cbuf, linkVars>>

\* Mutant: the count of written pieces is not reset.
MakeRequestNoReset(c) ==
    /\ call[c] = "request"
    /\ call' = [call EXCEPT ![c] = "write"]
    /\ sequence_id_' = [sequence_id_ EXCEPT ![c] = @ + 1]
    /\ UNCHANGED <<sent, connection_, is_connected_, cbuf, result, linkVars>>

\* rpc_request gets the next number, and Write() begins.
MakeRequest(c) ==
    /\ call[c] = "request"
    /\ call' = [call EXCEPT ![c] = "write"]
    /\ sequence_id_' = [sequence_id_ EXCEPT ![c] = @ + 1]
    /\ sent' = [sent EXCEPT ![c] = 0]
    /\ UNCHANGED <<connection_, is_connected_, cbuf, result, linkVars>>

\* Mutant: the connection stays in use after the call has failed.
BreakOffKeeps(c) ==
    /\ CallReturn(c, Failed)
    /\ UNCHANGED <<sequence_id_, connection_, is_connected_, sent>>

\* Call() returns false and will not use this connection again.
BreakOff(c) ==
    /\ CallReturn(c, Failed)
    /\ is_connected_' = [is_connected_ EXCEPT ![c] = FALSE]
    /\ UNCHANGED <<sequence_id_, connection_, sent>>

\* Write(): the next piece; ::write() blocks while there is no room.  A server
\* end that is gone swallows it at first.
WritePiece(c) ==
    LET k == connection_[c]
        i == sent[c] + 1
        piece == [id |-> [from |-> c, seq |-> sequence_id_[c]], part |-> i]
    IN  /\ call[c] = "write" /\ (k \in shut \/ Len(up[k]) < UpWindow)
        /\ up' = IF k \in shut THEN up ELSE [up EXCEPT ![k] = Append(@, piece)]
        /\ edge' = [edge EXCEPT ![k] = TRUE]
        /\ sent' = [sent EXCEPT ![c] = i]
        /\ call' = IF i = Parts THEN [call EXCEPT ![c] = "select"] ELSE call
        /\ UNCHANGED <<sequence_id_, connection_, is_connected_, cbuf, result,
                       link, shut, down, backlog>>

\* The frame cannot be encoded, or the server's end is known to be gone.
WriteFail(c) ==
    /\ call[c] = "write"
    /\ (CodecFails /\ sent[c] = 0) \/ connection_[c] \in shut
    /\ BreakOff(c)
    /\ UNCHANGED <<cbuf, linkVars>>

-----------------------------------------------------------------------------
(* ReadResponse() *)

Readable(k) == down[k] # <<>> \/ k \in shut

SelectReady(c) ==
    /\ call[c] = "select" /\ Readable(connection_[c])
    /\ call' = [call EXCEPT ![c] = "read"]
    /\ UNCHANGED <<sequence_id_, connection_, is_connected_, sent, cbuf, result, linkVars>>

\* Mutant: select() without a time-out.
SelectTimeoutNever(c) == FALSE

\* timeout_ms_ has passed, or select() failed.
SelectTimeout(c) ==
    /\ call[c] = "select" /\ ~Readable(connection_[c])
    /\ BreakOff(c)
    /\ UNCHANGED <<cbuf, linkVars>>

\* One ::read() of the loop in Read().  With nothing to read it blocks.
ClientRead(c) ==
    LET k == connection_[c]
    IN  /\ call[c] = "read" /\ down[k] # <<>>
        /\ \E r \in Reads(down[k]) :
              /\ down' = [down EXCEPT ![k] = Without(@, r.n)]
              /\ IF Overflows(cbuf[k], r.n)
                 THEN BreakOff(c) /\ UNCHANGED cbuf
                 ELSE /\ cbuf' = [cbuf EXCEPT ![k] = @ \o First(down[k], r.n)]
                      /\ call' = IF r.full THEN call ELSE [call EXCEPT ![c] = "extract"]
                      /\ UNCHANGED <<sequence_id_, connection_, is_connected_, sent, result>>
        /\ UNCHANGED <<link, shut, up, edge, backlog>>

\* ::read() returns 0 or an error: the server's end is closed.
ClientReadEnd(c) ==
    /\ call[c] = "read" /\ down[connection_[c]] = <<>> /\ connection_[c] \in shut
    /\ BreakOff(c)
    /\ UNCHANGED <<cbuf, linkVars>>

\* An error code in the response, or a result that cannot be deserialized, makes
\* Call() return false and keeps the connection.
Answer(r) == IF r.seq \in Fails THEN Failed ELSE r

\* ExtractFrame(), and the answer: sequence ids are not compared.
ClientExtract(c) ==
    LET k == connection_[c]
        status == FrameStatus(cbuf[k])
    IN  /\ call[c] = "extract"
        /\ IF status = "kIncomplete"
           THEN /\ call' = [call EXCEPT ![c] = "select"]
                /\ UNCHANGED <<sequence_id_, connection_, is_connected_, sent, cbuf, result>>
           ELSE /\ cbuf' = [cbuf EXCEPT ![k] = AfterFrame(@)]
                /\ IF status = "kError" THEN BreakOff(c)
                   ELSE /\ CallReturn(c, Answer(cbuf[k][1].id))
                        /\ UNCHANGED <<sequence_id_, connection_, is_connected_, sent>>
        /\ UNCHANGED linkVars

-----------------------------------------------------------------------------

\* Disconnect(), which the destructor calls.
Disconnect(c) ==
    /\ call[c] = "idle" /\ connection_[c] # NoConn
    /\ link' = LinkClosed(connection_[c])
    /\ ClientEndClosed(connection_[c])
    /\ connection_' = [connection_ EXCEPT ![c] = NoConn]
    /\ is_connected_' = [is_connected_ EXCEPT ![c] = FALSE]
    /\ UNCHANGED <<call, sequence_id_, sent, cbuf, result, shut, up, backlog>>

\* The client process ends at any point: its kernel closes the socket.
ClientDies(c) ==
    /\ call[c] # "dead"
    /\ call' = [call EXCEPT ![c] = "dead"]
    /\ link' = LinkClosed(connection_[c])
    /\ ClientEndClosed(connection_[c])
    /\ UNCHANGED <<sequence_id_, connection_, is_connected_, sent, cbuf, result,
                   shut, up, backlog>>

\* The steps of a call that has begun.
CallStep(c) ==
    \/ \E k \in Conn : Connect(c, k)
    \/ ConnectFail(c) \/ SerializeFail(c) \/ MakeRequest(c)
    \/ WritePiece(c) \/ WriteFail(c) \/ SelectReady(c) \/ SelectTimeout(c)
    \/ ClientRead(c) \/ ClientReadEnd(c) \/ ClientExtract(c)

=============================================================================
