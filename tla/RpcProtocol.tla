----------------------------- MODULE RpcProtocol -----------------------------
(***************************************************************************)
(* Requests and responses as bytes (protocol/rpc_protocol.cpp).            *)
(***************************************************************************)
EXTENDS Bytes

MAGIC == 305419896  \* 0x12345678

HeaderSize == 12

\* RpcHeader in front of a body.
WithHeader(sequence_id, body) == Word(MAGIC) \o Word(Len(body)) \o Word(sequence_id) \o body

HeaderOK(in) == Len(in) >= HeaderSize /\ WordAt(in, 0) = MAGIC

RpcRequest ==
    [sequence_id : Nat, service_name : Seq(Byte), method_name : Seq(Byte), payload : Seq(Byte)]
RpcResponse ==
    [sequence_id : Nat, error_code : Nat, error_message : Seq(Byte), result_data : Seq(Byte)]

\* What Deserialize() and its parts return is apart from their failure.
ASSUME MessageFailureAssumption ==
    {Failed, Overread} \cap ([value : Seq(Byte), next : Nat] \cup RpcRequest \cup RpcResponse) = {}

\* A string, after its length.
Field(s) == Word(Len(s)) \o s

-----------------------------------------------------------------------------
(* RpcRequest *)

\* Mutant: the names in the other order.
SerializeRequestSwapped(m) ==
    WithHeader(m.sequence_id, Field(m.method_name) \o Field(m.service_name) \o Field(m.payload))

SerializeRequest(m) ==
    WithHeader(m.sequence_id, Field(m.service_name) \o Field(m.method_name) \o Field(m.payload))

\* Mutant: the length is not compared with what is there, and substr() cuts it.
RequestFieldCut(in, pos) ==
    IF pos + 4 > Len(in) THEN Failed
    ELSE LET end == pos + 4 + WordAt(in, pos)
         IN  [value |-> SubSeq(in, pos + 5, IF end > Len(in) THEN Len(in) ELSE end), next |-> end]

\* One string of a request, at pos: what there is and where the next one begins.
\* Both tests come before the reads that they guard.
RequestField(in, pos) ==
    IF pos + 4 > Len(in) THEN Failed
    ELSE LET len == WordAt(in, pos)
         IN  IF len > Len(in) - (pos + 4) THEN Failed
             ELSE [value |-> SubSeq(in, pos + 5, pos + 4 + len), next |-> pos + 4 + len]

\* message_length is not looked at, nor what follows the payload.
DeserializeRequest(in) ==
    LET service == RequestField(in, HeaderSize)
        method  == IF service = Failed THEN Failed ELSE RequestField(in, service.next)
        payload == IF method = Failed THEN Failed ELSE RequestField(in, method.next)
    IN  IF ~HeaderOK(in) \/ payload = Failed THEN Failed
        ELSE [sequence_id |-> WordAt(in, 8), service_name |-> service.value,
              method_name |-> method.value, payload |-> payload.value]

-----------------------------------------------------------------------------
(* RpcResponse *)

SerializeResponse(m) ==
    WithHeader(m.sequence_id,
               Field(m.result_data) \o Field(m.error_message) \o Word(m.error_code) \o Word(m.sequence_id))

\* One string of a response: the length is read whether there are four bytes or not.
ResponseField(in, pos) ==
    IF pos + 4 > Len(in) THEN Overread
    ELSE LET len == WordAt(in, pos)
         IN  IF pos + 4 + len > Len(in) THEN Failed
             ELSE [value |-> SubSeq(in, pos + 5, pos + 4 + len), next |-> pos + 4 + len]

\* The whole of the input must be header and message_length; the lengths inside
\* are compared with it, the two numbers at the end are not.
DeserializeResponse(in) ==
    LET result == ResponseField(in, HeaderSize)
        error  == IF result \in {Failed, Overread} THEN result ELSE ResponseField(in, result.next)
    IN  IF ~HeaderOK(in) \/ Len(in) # HeaderSize + WordAt(in, 4) THEN Failed
        ELSE IF error \in {Failed, Overread} THEN error
        ELSE IF error.next + 8 > Len(in) THEN Overread
        ELSE [result_data |-> result.value, error_message |-> error.value,
              error_code |-> WordAt(in, error.next), sequence_id |-> WordAt(in, error.next + 4)]

=============================================================================
