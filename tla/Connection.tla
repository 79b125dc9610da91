----------------------------- MODULE Connection -----------------------------
(***************************************************************************)
(* myrpc::Connection (rpc_src/network/connection.cpp) and the TCP sockets  *)
(* under it, as RpcClient and MessageCycle share them.                     *)
(*                                                                         *)
(* Bytes are abstracted to pieces: every frame is cut into Parts pieces,   *)
(* any of which may arrive alone or together with others.  A frame carries *)
(* the request it makes or answers.  What is written is readable at once:  *)
(* a segment that travels slowly is one that is written late.              *)
(***************************************************************************)
EXTENDS Integers, Sequences, FiniteSets

CONSTANTS
    Client,
    MaxCalls,   \* bound: how many requests a client makes
    Conn,       \* the TCP connections that are ever made
    NoConn,
    Parts,      \* the pieces of a frame
    MaxBuffer,  \* MAX_BUFFER_SIZE, in pieces
    MayFill,    \* whether what is readable may fill the 4096 bytes of buf
    CodecFails  \* whether WriteFrame() may fail to compress or to encrypt

ASSUME ConnectionAssumption ==
    /\ MaxCalls \in Nat /\ Parts \in Nat \ {0} /\ MaxBuffer \in Nat
    /\ NoConn \notin Conn /\ MayFill \in BOOLEAN /\ CodecFails \in BOOLEAN

VARIABLES
    link,     \* the client's end of each connection, as the server finds it
    shut,     \* the connections whose server end is closed
    up,       \* what the server can read from each connection
    down,     \* what the client can read
    edge,     \* whether the server's epoll set has an event for it
    backlog   \* the connections that wait to be accepted

linkVars == <<link, shut, up, down, edge, backlog>>

Request == [from : Client, seq : 1 .. MaxCalls]
Piece == [id : Request, part : 1 .. Parts]

\* "fin": the client has closed its end; "reset": the server's kernel has been
\* told that nobody is there any more.
LinkState == {"free", "open", "fin", "reset"}

LinkTypeOK ==
    /\ link \in [Conn -> LinkState]
    /\ shut \subseteq Conn
    /\ up \in [Conn -> Seq(Piece)] /\ down \in [Conn -> Seq(Piece)]
    /\ edge \in [Conn -> BOOLEAN]
    /\ backlog \subseteq Conn

LinkInit ==
    /\ link = [k \in Conn |-> "free"]
    /\ shut = {} /\ backlog = {}
    /\ up = [k \in Conn |-> <<>>] /\ down = [k \in Conn |-> <<>>]
    /\ edge = [k \in Conn |-> FALSE]

-----------------------------------------------------------------------------
(* Read(): one ::read() into buf[4096] *)

\* What ::read() may return of the readable pieces: all of them, or, if they
\* are enough to fill buf, some.  Read() goes on after a full buf only.
Reads(readable) ==
    [n : {Len(readable)}, full : {FALSE}]
       \cup (IF MayFill THEN [n : 1 .. Len(readable), full : {TRUE}] ELSE {})

First(s, n) == SubSeq(s, 1, n)
Without(s, n) == SubSeq(s, n + 1, Len(s))

\* The new bytes would exceed MAX_BUFFER_SIZE.
Overflows(read_buffer_, n) == Len(read_buffer_) + n > MaxBuffer

-----------------------------------------------------------------------------
(* ExtractFrame() *)

\* kComplete if the buffer starts with all pieces of one frame; kError if it
\* starts with anything else of that length, which does not decrypt.
FrameStatus(read_buffer_) ==
    IF Len(read_buffer_) < Parts THEN "kIncomplete"
    ELSE IF \A i \in 1 .. Parts :
               read_buffer_[i] = [id |-> read_buffer_[1].id, part |-> i]
         THEN "kComplete"
         ELSE "kError"

\* Mutant: the frame is not erased from the buffer.
AfterFrameKept(read_buffer_) == read_buffer_

\* Mutant: the length prefix is not counted in what is erased.
AfterFrameShort(read_buffer_) == Without(read_buffer_, Parts - 1)

AfterFrame(read_buffer_) == Without(read_buffer_, Parts)

-----------------------------------------------------------------------------
(* The sockets *)

\* The client's end of k is closed (NoConn: there is none): by FIN, or by RST
\* if something was left unread.  The server's epoll set is told.
LinkClosed(k) ==
    [j \in Conn |-> IF j # k THEN link[j] ELSE IF down[j] = <<>> THEN "fin" ELSE "reset"]

ClientEndClosed(k) ==
    /\ down' = [j \in Conn |-> IF j = k THEN <<>> ELSE down[j]]
    /\ edge' = [j \in Conn |-> j = k \/ edge[j]]

=============================================================================
