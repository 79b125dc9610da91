------------------------------- MODULE Exchange -------------------------------
(***************************************************************************)
(* One call after another over one connection, byte by byte: the client's  *)
(* Call(), the two ends' Connection, the dispatch of the request and the   *)
(* service (core/rpc_client.h, network/, service/, serializer/).           *)
(* RpcChannel shows that a connection never carries two calls at once; here*)
(* the bytes of each arrive in pieces of any size.                         *)
(***************************************************************************)
EXTENDS Frame

CONSTANTS
    RpcServiceName, EchoName,   \* the names "RpcService" and "Echo"
    Calls,          \* calls that a client may make
    SessionKeys,    \* what GenerateRandomBytes() may return
    Chunks,         \* numbers of bytes that may arrive together
    MaxCalls,       \* bound on the number of calls
    NoCall, NoRequest

\* Far enough below 2^32 for lengths and numbers, with all that the encoding adds
\* to them, to fit in the uint32_t they are cast to.
Limit == 1000000000

ASSUME CallAssumption ==
    /\ Calls \subseteq [service : Seq(Byte), method : Seq(Byte), message : Seq(Byte),
                        type : {"object", "array", "protobuf", "mismatch"}]
    /\ \A c \in Calls :
          Len(c.service) + Len(c.method) + Len(c.message) + KEY_LENGTH <= Limit

ASSUME NameAssumption == RpcServiceName # <<>> /\ EchoName # <<>>

ASSUME SessionAssumption ==
    /\ \A k \in SessionKeys : k \in Seq(Byte) /\ Len(k) = KEY_LENGTH
    /\ MaxCalls \in Nat /\ MaxCalls <= Limit

VARIABLES
    pc,             \* whose turn it is: "idle", "server", "handle", "client"
    call,           \* the call in progress or the last one
    sequence_id_,   \* of the client
    wire,           \* bytes written and not yet read
    read_buffer_,   \* of the end whose turn it is; the other one's is empty
    sent,           \* the message on its way: its bytes before compression (history)
    request,        \* the request as the server has it
    answer          \* what Call() has returned

vars == <<pc, call, sequence_id_, wire, read_buffer_, sent, request, answer>>

\* The outcome of a call: result data, an error code, or no use of the connection.
Success(data) == [status |-> "true", data |-> data, code |-> 0]
Error(code) == [status |-> "error", data |-> <<>>, code |-> code]
Lost == [status |-> "lost", data |-> <<>>, code |-> 0]
Pending == [status |-> "pending", data |-> <<>>, code |-> 0]

SERVICE_NOT_FOUND == 3000
INVALID_REQUEST == 6000

Init ==
    /\ pc = "idle"
    /\ call = NoCall
    /\ sequence_id_ = 0
    /\ wire = <<>> /\ read_buffer_ = <<>> /\ sent = <<>>
    /\ request = NoRequest
    /\ answer = Pending

-----------------------------------------------------------------------------
(* Payloads.  JSON and protobuf are external; their first byte stands for   *)
(* what a parser makes of the rest.                                         *)

ObjectTag == 123
ArrayTag == 91
ProtobufTag == 10
EchoTag == 101

\* SerializerManager::serialize(): "mismatch" is a type of data that does not go
\* with the SerializeType, for which it returns "".
SerializePayload(c) ==
    CASE c.type = "object"   -> <<ObjectTag>> \o c.message
      [] c.type = "array"    -> <<ArrayTag>> \o c.message
      [] c.type = "protobuf" -> <<ProtobufTag>> \o c.message
      [] c.type = "mismatch" -> <<>>

\* RpcService::HandleRequest(): Echo, with the message of a JSON object.
HandleRequest(method_name, args) ==
    IF method_name # EchoName THEN Failed
    ELSE IF args = <<>> THEN Failed
    ELSE IF args[1] # ObjectTag THEN Failed
    ELSE <<ObjectTag, EchoTag>> \o Tail(args)

\* ServiceManager::HandleRpcRequest().
HandleRpcRequest(r) ==
    IF r.service_name # RpcServiceName THEN Failed ELSE HandleRequest(r.method_name, r.payload)

\* Mutant: the names are not looked at before they are used.
ResponseUnchecked(r) ==
    LET result == HandleRpcRequest(r) IN
    [sequence_id |-> r.sequence_id,
     error_code |-> IF result = Failed THEN SERVICE_NOT_FOUND ELSE 0,
     error_message |-> <<>>,
     result_data |-> IF result = Failed THEN <<>> ELSE result]

\* HandleRpcRequestSync(): the response.  The text that goes with the code is a
\* byte that depends on it.
Response(r) ==
    LET result == HandleRpcRequest(r)
        code == IF r.service_name = <<>> \/ r.method_name = <<>> THEN INVALID_REQUEST
                ELSE IF result = Failed THEN SERVICE_NOT_FOUND ELSE 0
    IN  [sequence_id |-> r.sequence_id,
         error_code |-> code,
         error_message |-> <<code % 256>>,
         result_data |-> IF code = 0 THEN result ELSE <<>>]

-----------------------------------------------------------------------------

\* A frame is written and the other end reads.
Transmit(data, session_key) ==
    /\ sent' = data
    /\ wire' = WriteFrame(data, session_key)
    /\ read_buffer_' = <<>>

\* The connection is given up: the next call makes a new one.
Drop ==
    /\ pc' = "idle"
    /\ answer' = Lost
    /\ wire' = <<>> /\ read_buffer_' = <<>>

\* Call(): serialize and write.  With an empty payload nothing is sent.
CallBegin(c, session_key) ==
    LET payload == SerializePayload(c) IN
    /\ pc = "idle" /\ sequence_id_ < MaxCalls
    /\ call' = c
    /\ request' = NoRequest
    /\ IF payload = <<>>
       THEN /\ answer' = Error(0)
            /\ UNCHANGED <<pc, sequence_id_, wire, read_buffer_, sent>>
       ELSE /\ answer' = Pending
            /\ pc' = "server"
            /\ sequence_id_' = sequence_id_ + 1
            /\ Transmit(SerializeRequest([sequence_id  |-> sequence_id_',
                                          service_name |-> c.service,
                                          method_name  |-> c.method,
                                          payload      |-> payload]), session_key)

\* Read() of n bytes, by the end whose turn it is; on an overflow either end
\* closes the connection.
Read(n) ==
    /\ pc \in {"server", "client"}
    /\ n \in 1 .. Len(wire)
    /\ FrameLength(read_buffer_) = 0
    /\ IF Overflows(read_buffer_, n)
       THEN Drop
       ELSE /\ read_buffer_' = read_buffer_ \o SubSeq(wire, 1, n)
            /\ wire' = SubSeq(wire, n + 1, Len(wire))
            /\ UNCHANGED <<pc, answer>>
    /\ UNCHANGED <<call, sequence_id_, sent, request>>

\* The frame at the front of the buffer is taken off.
TakeFrame ==
    LET n == FrameLength(read_buffer_) IN
    read_buffer_' = SubSeq(read_buffer_, n + 1, Len(read_buffer_))

\* HandleClientData(): ExtractFrame() and Deserialize() in the server.
ExtractRequest ==
    LET n == FrameLength(read_buffer_)
        content == IF n = Failed THEN Failed ELSE FrameContent(SubSeq(read_buffer_, 1, n))
        r == IF content = Failed THEN Failed ELSE DeserializeRequest(content)
    IN  /\ pc = "server"
        /\ n # 0
        /\ IF r \in {Failed, Overread}
           THEN Drop /\ UNCHANGED request
           ELSE /\ request' = r
                /\ pc' = "handle"
                /\ TakeFrame
                /\ UNCHANGED <<wire, answer>>
        /\ UNCHANGED <<call, sequence_id_, sent>>

\* HandleRpcRequestSync() in a worker.
HandleRpcRequestSync(session_key) ==
    /\ pc = "handle"
    /\ pc' = "client"
    /\ Transmit(SerializeResponse(Response(request)), session_key)
    /\ UNCHANGED <<call, sequence_id_, request, answer>>

\* ReadResponse(): ExtractFrame(), Deserialize() and the payload's parser.  The
\* connection survives a response that does not deserialize.
ExtractResponse ==
    LET n == FrameLength(read_buffer_)
        content == IF n = Failed THEN Failed ELSE FrameContent(SubSeq(read_buffer_, 1, n))
        r == IF content = Failed THEN Failed ELSE DeserializeResponse(content)
    IN  /\ pc = "client"
        /\ n # 0
        /\ IF content = Failed
           THEN Drop
           ELSE /\ pc' = "idle"
                /\ TakeFrame
                /\ answer' = IF r \in {Failed, Overread} THEN Lost
                             ELSE IF r.error_code # 0 THEN Error(r.error_code)
                             ELSE Success(r.result_data)
                /\ UNCHANGED wire
        /\ UNCHANGED <<call, sequence_id_, sent, request>>

\* The calls are over.
Done == pc = "idle" /\ sequence_id_ = MaxCalls /\ UNCHANGED vars

Next ==
    \/ \E c \in Calls, session_key \in SessionKeys : CallBegin(c, session_key)
    \/ \E n \in Chunks \cup {Len(wire)} : Read(n)
    \/ ExtractRequest
    \/ \E session_key \in SessionKeys : HandleRpcRequestSync(session_key)
    \/ ExtractResponse
    \/ Done

Spec == Init /\ [][Next]_vars

-----------------------------------------------------------------------------
(* Safety *)

\* The server works on the request that the client has made: length prefix,
\* cipher, Base64, compression and layout undo each other for every length,
\* byte and key, and wherever the stream is cut.
RequestArrives ==
    request # NoRequest =>
       request = [sequence_id  |-> sequence_id_, service_name |-> call.service,
                  method_name  |-> call.method, payload |-> SerializePayload(call)]

\* What Call() returns is what the service makes of the call: the message of a
\* JSON object echoed, or the code of what is wrong with it.
AnswerIsForCall ==
    pc = "idle" /\ answer.status \in {"true", "error"} =>
       answer =
         CASE call.type = "mismatch" -> Error(0)
           [] call.type # "mismatch" /\ <<>> \in {call.service, call.method} -> Error(INVALID_REQUEST)
           [] /\ call.service = RpcServiceName /\ call.method = EchoName
              /\ call.type = "object" -> Success(<<ObjectTag, EchoTag>> \o call.message)
           [] OTHER -> Error(SERVICE_NOT_FOUND)

\* A call is lost only to a frame that is longer than MAX_BUFFER_SIZE: below
\* that, however it is cut, neither end gives the connection up.
LostOnlyIfTooLong ==
    answer = Lost => \E k \in SessionKeys : Len(WriteFrame(sent, k)) > MAX_BUFFER_SIZE

\* Half a message is never taken for a message, and never read past its end: the
\* checks of Deserialize() refuse every proper prefix of what is sent.
TruncatedIsRefused ==
    pc \in {"server", "client"} /\ read_buffer_ = <<>> =>
       \A n \in 0 .. Len(sent) - 1 :
          LET half == SubSeq(sent, 1, n) IN
          Failed = IF pc = "server" THEN DeserializeRequest(half) ELSE DeserializeResponse(half)

\* The end that reads never waits for more when all has arrived: after the last
\* byte, ExtractFrame() does not say kIncomplete, whatever came before.
WholeFrameIsSeen ==
    pc \in {"server", "client"} /\ wire = <<>> => FrameLength(read_buffer_) # 0

=============================================================================
