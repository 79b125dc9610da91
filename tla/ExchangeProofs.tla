-------------------------- MODULE ExchangeProofs --------------------------
(***************************************************************************)
(* The safety properties of Exchange, for all names, calls, session keys,  *)
(* sizes of buffers and pieces in which the bytes arrive.                  *)
(***************************************************************************)
EXTENDS Exchange, CodecProofs

-----------------------------------------------------------------------------
(* The inductive invariant *)

\* The request that a call stands for.
RequestOf(c, id) ==
    [sequence_id |-> id, service_name |-> c.service,
     method_name |-> c.method, payload |-> SerializePayload(c)]

TypeInv ==
    /\ pc \in {"idle", "server", "handle", "client"}
    /\ sequence_id_ \in Nat /\ sequence_id_ <= MaxCalls
    /\ read_buffer_ \in Seq(Byte) /\ wire \in Seq(Byte)

\* A call on its way is one that has a payload, and has no outcome yet.
CallInv ==
    pc # "idle" => call \in Calls /\ call.type # "mismatch" /\ answer = Pending

\* The server has the request of the call as soon as it has one, and what is on
\* its way is that request or its response.
MessageInv ==
    /\ pc \in {"handle", "client"} => request = RequestOf(call, sequence_id_)
    /\ pc = "server" => sent = SerializeRequest(RequestOf(call, sequence_id_))
    /\ pc = "client" => sent = SerializeResponse(Response(RequestOf(call, sequence_id_)))

\* What has been read and what has not are together the frame that was written.
StreamInv ==
    pc \in {"server", "client"} =>
       \E k \in SessionKeys : read_buffer_ \o wire = WriteFrame(sent, k)

ExchangeInv ==
    /\ TypeInv /\ CallInv /\ MessageInv /\ StreamInv
    /\ RequestArrives /\ AnswerIsForCall /\ LostOnlyIfTooLong

-----------------------------------------------------------------------------
(* The messages of a call *)

\* A message that a frame can carry and ExtractFrame() lets through.
Sendable(d) ==
    d \in Seq(Byte) /\ d # <<>> /\ HeaderOK(d) /\ FrameSize(d) \in UInt32

\* What Serialize() makes passes the check of the header in ExtractFrame().
LEMMA HeaderIsOK ==
  ASSUME NEW id \in Nat, NEW body \in Seq(Byte)
  PROVE  HeaderOK(WithHeader(id, body)) /\ WithHeader(id, body) # <<>>
<1> DEFINE in == WithHeader(id, body)
<1>1. /\ in \in Seq(Byte) /\ Len(in) = HeaderSize + Len(body)
      /\ OccursAt(Word(MAGIC), in, 0)
  BY HeaderOccurs, Zenon
<1> HIDE DEF in
<1>2. MAGIC \in UInt32  BY SMT DEF MAGIC, UInt32
<1>3. WordAt(in, 0) = MAGIC  BY <1>1, <1>2, WordOccurs
<1>4. Len(in) >= HeaderSize /\ Len(in) # 0  BY <1>1 DEF HeaderSize
<1>5. Len(<<>>) = 0  BY EmptySeq
<1> QED  BY <1>3, <1>4, <1>5, Zenon DEF HeaderOK, in

\* A message below the limits of CallAssumption is not too long for a frame.
LEMMA SizeFits ==
  ASSUME NEW d \in Seq(Byte), Len(d) + KEY_LENGTH <= Limit + 100
  PROVE  FrameSize(d) \in UInt32
<1> DEFINE l == Len(d)
<1>1. l \in Nat /\ KEY_LENGTH \in Nat /\ l + KEY_LENGTH <= Limit + 100  BY KeyAssumption
<1> HIDE DEF l
<1>2. 4 + 4 * ((KEY_LENGTH + (5 + l) + 2) \div 3) \in UInt32  BY SMT, <1>1 DEF UInt32, Limit
<1> QED  BY <1>2, Zenon DEF l, FrameSize

\* SerializerManager::serialize() returns "" only for a type that does not go with
\* the data; the first byte tells a JSON object from the rest.
LEMMA PayloadType ==
  ASSUME NEW c \in Calls
  PROVE  LET payload == SerializePayload(c) IN
         /\ c.message \in Seq(Byte) /\ Len(c.message) \in Nat
         /\ payload \in Seq(Byte) /\ Len(payload) <= Len(c.message) + 1
         /\ payload = <<>> <=> c.type = "mismatch"
         /\ c.type = "object" => payload = <<ObjectTag>> \o c.message
         /\ c.type \notin {"object", "mismatch"} => payload # <<>> /\ payload[1] # ObjectTag
         /\ c.type # "mismatch" => Tail(payload) = c.message
<1> DEFINE payload == SerializePayload(c)
<1>1. c.message \in Seq(Byte) /\ c.type \in {"object", "array", "protobuf", "mismatch"}
  BY CallAssumption
<1>2. Len(c.message) \in Nat  BY <1>1
<1>3. \A tag \in Byte :
        LET s == <<tag>> \o c.message IN
        /\ s \in Seq(Byte) /\ Len(s) = Len(c.message) + 1
        /\ s # <<>> /\ s[1] = tag /\ Tail(s) = c.message
  <2> TAKE tag \in Byte
  <2> DEFINE h == <<tag>>
             t == c.message
             s == h \o t
  <2>1. h \in Seq(Byte) /\ Len(h) = 1 /\ h[1] = tag  OBVIOUS
  <2>2. t \in Seq(Byte) /\ Len(t) \in Nat  BY <1>1, <1>2
  <2> HIDE DEF h, t
  <2>3. /\ s \in Seq(Byte) /\ Len(s) = Len(h) + Len(t)
        /\ \A i \in 1 .. Len(h) + Len(t) : s[i] = IF i <= Len(h) THEN h[i] ELSE t[i - Len(h)]
    BY <2>1, <2>2, ConcatProperties
  <2> HIDE DEF s
  <2>4. Len(s) = Len(t) + 1 /\ s # <<>>
    <3>1. Len(s) = Len(t) + 1 /\ Len(s) # 0  BY <2>1, <2>2, <2>3
    <3>2. Len(<<>>) = 0  BY EmptySeq
    <3> QED  BY <3>1, <3>2
  <2>5. s[1] = tag  BY <2>1, <2>2, <2>3
  <2>6. Tail(s) = t
    <3>1. /\ Tail(s) \in Seq(Byte) /\ Len(Tail(s)) = Len(s) - 1
          /\ \A i \in 1 .. Len(Tail(s)) : Tail(s)[i] = s[i + 1]
      BY <2>3, <2>4, HeadTailProperties
    <3>2. Len(Tail(s)) = Len(t)  BY <2>2, <2>4, <3>1
    <3>3. \A i \in 1 .. Len(Tail(s)) : Tail(s)[i] = t[i]
      <4> TAKE i \in 1 .. Len(Tail(s))
      <4> DEFINE j == i + 1
      <4>1. j \in 1 .. Len(h) + Len(t) /\ ~(j <= Len(h)) /\ j - Len(h) = i
        BY <2>1, <2>2, <3>2
      <4>2. Tail(s)[i] = s[j]  BY <3>1
      <4> HIDE DEF j
      <4> QED  BY <2>3, <4>1, <4>2
    <3> QED  BY <2>2, <3>1, <3>2, <3>3, SeqEqual
  <2> QED  BY <2>3, <2>4, <2>5, <2>6 DEF s, h, t
<1>4. ObjectTag \in Byte /\ ArrayTag \in Byte /\ ProtobufTag \in Byte
      /\ ObjectTag # ArrayTag /\ ObjectTag # ProtobufTag
  BY DEF ObjectTag, ArrayTag, ProtobufTag, Byte
<1>5. Len(<<>>) = 0 /\ <<>> \in Seq(Byte)  BY EmptySeq
<1>6. CASE c.type = "object"
  <2>1. payload = <<ObjectTag>> \o c.message  BY <1>6 DEF SerializePayload
  <2> QED  BY <1>1, <1>2, <1>3, <1>4, <1>6, <2>1
<1>7. CASE c.type = "array"
  <2>1. payload = <<ArrayTag>> \o c.message  BY <1>7 DEF SerializePayload
  <2> QED  BY <1>1, <1>2, <1>3, <1>4, <1>7, <2>1
<1>8. CASE c.type = "protobuf"
  <2>1. payload = <<ProtobufTag>> \o c.message  BY <1>8 DEF SerializePayload
  <2> QED  BY <1>1, <1>2, <1>3, <1>4, <1>8, <2>1
<1>9. CASE c.type = "mismatch"
  <2>1. payload = <<>>  BY <1>9 DEF SerializePayload
  <2> QED  BY <1>1, <1>2, <1>5, <1>9, <2>1
<1> QED  BY <1>1, <1>6, <1>7, <1>8, <1>9

\* The request of a call fits into its length fields and can be sent.
LEMMA RequestFits ==
  ASSUME NEW c \in Calls, c.type # "mismatch", NEW id \in UInt32
  PROVE  /\ RequestOf(c, id) \in ClientRequest
         /\ Sendable(SerializeRequest(RequestOf(c, id)))
<1> DEFINE m == RequestOf(c, id)
           a == c.service
           b == c.method
           p == SerializePayload(c)
           in == SerializeRequest(m)
<1>1. /\ a \in Seq(Byte) /\ b \in Seq(Byte) /\ c.message \in Seq(Byte)
      /\ Len(a) + Len(b) + Len(c.message) + KEY_LENGTH <= Limit
  BY CallAssumption
<1>2. p \in Seq(Byte) /\ Len(p) <= Len(c.message) + 1  BY PayloadType, Zenon
<1>3. id \in Nat  BY SMT DEF UInt32
<1>4. /\ m \in RpcRequest /\ m.sequence_id = id
      /\ m.service_name = a /\ m.method_name = b /\ m.payload = p
  BY <1>1, <1>2, <1>3 DEF RequestOf, RpcRequest
<1> HIDE DEF m
<1> DEFINE la == Len(a)
           lb == Len(b)
           lm == Len(c.message)
           lp == Len(p)
<1>5. /\ la \in Nat /\ lb \in Nat /\ lm \in Nat /\ lp \in Nat /\ KEY_LENGTH \in Nat
      /\ lp <= lm + 1 /\ la + lb + lm + KEY_LENGTH <= Limit
  <2>1. la \in Nat /\ lb \in Nat /\ lm \in Nat /\ lp \in Nat /\ KEY_LENGTH \in Nat
    BY <1>1, <1>2, KeyAssumption
  <2>2. lp <= lm + 1 /\ la + lb + lm + KEY_LENGTH <= Limit  BY <1>1, <1>2, Zenon
  <2> QED  BY <2>1, <2>2
<1>6. in \in Seq(Byte) /\ Len(in) = (((((HeaderSize + 4) + la) + 4) + lb) + 4) + lp
  BY <1>4, RequestFieldsOccur, Zenon
<1> HIDE DEF la, lb, lm, lp
<1>7. la + lb + lp + 12 \in UInt32  BY SMT, <1>5 DEF UInt32, Limit
<1>8. m \in ClientRequest  BY <1>3, <1>4, <1>7, Zenon DEF ClientRequest, la, lb, lp
<1>9. FrameSize(in) \in UInt32
  <2>1. Len(in) + KEY_LENGTH <= Limit + 100  BY SMT, <1>5, <1>6 DEF HeaderSize, Limit
  <2> QED  BY <1>6, <2>1, SizeFits
<1>10. HeaderOK(in) /\ in # <<>>
  <2> DEFINE fa == Field(m.service_name)
             fb == Field(m.method_name)
             fp == Field(m.payload)
             body == (fa \o fb) \o fp
  <2>1. in = WithHeader(m.sequence_id, body)  BY Zenon DEF SerializeRequest
  <2>2. fa \in Seq(Byte) /\ fb \in Seq(Byte) /\ fp \in Seq(Byte)  BY <1>1, <1>2, <1>4, FieldType
  <2> HIDE DEF fa, fb, fp
  <2>3. body \in Seq(Byte)  BY <2>2, ConcatProperties
  <2> HIDE DEF body
  <2> QED  BY <1>3, <1>4, <2>1, <2>3, HeaderIsOK
<1> QED  BY <1>6, <1>8, <1>9, <1>10, Zenon DEF Sendable, m

\* What a call returns, by what it asks for: what AnswerIsForCall says.
ResultOf(c) ==
    CASE c.type = "mismatch" -> Error(0)
      [] c.type # "mismatch" /\ <<>> \in {c.service, c.method} -> Error(INVALID_REQUEST)
      [] /\ c.service = RpcServiceName /\ c.method = EchoName
         /\ c.type = "object" -> Success(<<ObjectTag, EchoTag>> \o c.message)
      [] OTHER -> Error(SERVICE_NOT_FOUND)

\* What the service makes of the request of a call.
LEMMA ServiceResult ==
  ASSUME NEW c \in Calls, c.type # "mismatch", NEW id
  PROVE  HandleRpcRequest(RequestOf(c, id)) =
           IF c.service = RpcServiceName /\ c.method = EchoName /\ c.type = "object"
           THEN <<ObjectTag, EchoTag>> \o c.message ELSE Failed
<1> DEFINE r == RequestOf(c, id)
           p == SerializePayload(c)
<1>1. r.service_name = c.service /\ r.method_name = c.method /\ r.payload = p
  BY DEF RequestOf
<1> HIDE DEF r
<1>2. /\ p # <<>> /\ Tail(p) = c.message
      /\ p[1] = ObjectTag <=> c.type = "object"
  <2>1. c.type \in {"object", "array", "protobuf", "mismatch"} /\ c.message \in Seq(Byte)
    BY CallAssumption
  <2>2. p # <<>> /\ Tail(p) = c.message  BY PayloadType, Zenon
  <2>3. c.type # "object" => p[1] # ObjectTag  BY <2>1, PayloadType
  <2>4. c.type = "object" => p[1] = ObjectTag
    <3> HAVE c.type = "object"
    <3>1. p = <<ObjectTag>> \o c.message  BY PayloadType, Zenon
    <3> DEFINE h == <<ObjectTag>>
               t == c.message
    <3>2. h \in Seq(Byte) /\ Len(h) = 1 /\ h[1] = ObjectTag  BY DEF ObjectTag, Byte
    <3>3. t \in Seq(Byte) /\ Len(t) \in Nat  BY <2>1
    <3>4. p = h \o t  BY <3>1
    <3> HIDE DEF h, t
    <3>5. (h \o t)[1] = h[1]  BY <3>2, <3>3, ConcatProperties
    <3> QED  BY <3>2, <3>4, <3>5
  <2> QED  BY <2>2, <2>3, <2>4
<1>3. HandleRequest(c.method, p) =
        IF c.method = EchoName /\ c.type = "object" THEN <<ObjectTag, EchoTag>> \o c.message ELSE Failed
  BY <1>2, Zenon DEF HandleRequest
<1> HIDE DEF p
<1>4. HandleRpcRequest(r) = IF c.service # RpcServiceName THEN Failed ELSE HandleRequest(c.method, p)
  BY <1>1, Zenon DEF HandleRpcRequest
<1> QED  BY <1>3, <1>4 DEF r

\* So does the response, and what Call() makes of it is the result of the call.
LEMMA ResponseFits ==
  ASSUME NEW c \in Calls, c.type # "mismatch", NEW id \in UInt32
  PROVE  LET r == Response(RequestOf(c, id)) IN
         /\ r \in ServerResponse
         /\ Sendable(SerializeResponse(r))
         /\ ResultOf(c) = IF r.error_code # 0 THEN Error(r.error_code) ELSE Success(r.result_data)
<1> DEFINE q == RequestOf(c, id)
           result == HandleRpcRequest(q)
           echo == <<ObjectTag, EchoTag>> \o c.message
           wanted == c.service = RpcServiceName /\ c.method = EchoName /\ c.type = "object"
           code == IF q.service_name = <<>> \/ q.method_name = <<>> THEN INVALID_REQUEST
                   ELSE IF result = Failed THEN SERVICE_NOT_FOUND ELSE 0
           r == Response(q)
           in == SerializeResponse(r)
<1>1. q.sequence_id = id /\ q.service_name = c.service /\ q.method_name = c.method
  BY DEF RequestOf
<1>2. result = IF wanted THEN echo ELSE Failed  BY ServiceResult, Zenon
<1>3. r = [sequence_id |-> q.sequence_id, error_code |-> code,
           error_message |-> <<code % 256>>, result_data |-> IF code = 0 THEN result ELSE <<>>]
  BY Zenon DEF Response
<1>4. c.message \in Seq(Byte) /\ Len(c.message) + KEY_LENGTH <= Limit
  <2>1. /\ c.service \in Seq(Byte) /\ c.method \in Seq(Byte) /\ c.message \in Seq(Byte)
        /\ Len(c.service) + Len(c.method) + Len(c.message) + KEY_LENGTH <= Limit
    BY CallAssumption
  <2> DEFINE la == Len(c.service)
             lb == Len(c.method)
             lm == Len(c.message)
  <2>2. la \in Nat /\ lb \in Nat /\ lm \in Nat /\ KEY_LENGTH \in Nat
    BY <2>1, KeyAssumption
  <2>3. la + lb + lm + KEY_LENGTH <= Limit  BY <2>1, Zenon
  <2> HIDE DEF la, lb, lm
  <2>4. lm + KEY_LENGTH <= Limit  BY SMT, <2>2, <2>3 DEF Limit
  <2> QED  BY <2>1, <2>4 DEF lm
<1>5. echo \in Seq(Byte) /\ Len(echo) = Len(c.message) + 2 /\ echo # Failed
  <2> DEFINE h == <<ObjectTag, EchoTag>>
             t == c.message
  <2>1. h \in Seq(Byte) /\ Len(h) = 2  BY DEF ObjectTag, EchoTag, Byte
  <2>2. t \in Seq(Byte) /\ Len(t) \in Nat  BY <1>4
  <2> HIDE DEF h, t
  <2>3. h \o t \in Seq(Byte) /\ Len(h \o t) = Len(h) + Len(t)  BY <2>1, <2>2, ConcatProperties
  <2>4. Len(h \o t) = Len(t) + 2  BY <2>1, <2>2, <2>3
  <2>5. h \o t # Failed  BY <2>3, FailureAssumption
  <2> QED  BY <2>3, <2>4, <2>5 DEF h, t
<1> HIDE DEF q, echo
<1>6. code = IF c.service = <<>> \/ c.method = <<>> THEN INVALID_REQUEST
             ELSE IF wanted THEN 0 ELSE SERVICE_NOT_FOUND
  BY <1>1, <1>2, <1>5
<1>7. code = 0 => wanted /\ c.service # <<>> /\ c.method # <<>>
  BY <1>6 DEF INVALID_REQUEST, SERVICE_NOT_FOUND
<1>8. code \in {0, 3000, 6000}  BY <1>6 DEF INVALID_REQUEST, SERVICE_NOT_FOUND
<1> DEFINE data == IF code = 0 THEN result ELSE <<>>
           text == <<code % 256>>
<1>9. data \in Seq(Byte) /\ Len(data) <= Len(c.message) + 2 /\ (code = 0 => data = echo)
  <2>1. Len(<<>>) = 0 /\ <<>> \in Seq(Byte) /\ Len(c.message) \in Nat  BY <1>4, EmptySeq
  <2>2. CASE code = 0
    <3>1. data = echo  BY <1>2, <1>7, <2>2
    <3> QED  BY <1>5, <2>1, <3>1
  <2>3. CASE code # 0
    <3>1. data = <<>>  BY <2>3
    <3> QED  BY <2>1, <2>3, <3>1
  <2> QED  BY <2>2, <2>3
<1>10. text \in Seq(Byte) /\ Len(text) = 1
  <2> HIDE DEF code
  <2>1. code % 256 \in Byte  BY SMT, <1>8 DEF Byte
  <2> QED  BY <2>1
<1>11. /\ r.sequence_id = id /\ r.error_code = code /\ r.error_message = text /\ r.result_data = data
       /\ r \in RpcResponse
  <2>1. id \in Nat /\ code \in Nat  BY SMT, <1>8 DEF UInt32
  <2> HIDE DEF code, text, data
  <2>2. r = [sequence_id |-> id, error_code |-> code, error_message |-> text, result_data |-> data]
    BY <1>1, <1>3 DEF text, data
  <2> QED  BY <1>9, <1>10, <2>1, <2>2 DEF RpcResponse
<1> HIDE DEF code, text, data, r
<1> DEFINE ld == Len(data)
           lt == Len(text)
           lm == Len(c.message)
<1>12. ld \in Nat /\ lt \in Nat /\ lm \in Nat /\ KEY_LENGTH \in Nat /\ lm + KEY_LENGTH <= Limit
       /\ ld <= lm + 2 /\ lt = 1
  BY <1>4, <1>9, <1>10, KeyAssumption
<1>13. in \in Seq(Byte) /\ Len(in) = ((((HeaderSize + 4) + ld) + 4) + lt) + 8
  BY <1>11, ResponseFieldsOccur, Zenon
<1> HIDE DEF ld, lt, lm
<1>14. r \in ServerResponse
  <2>1. ld + lt + 16 \in UInt32  BY SMT, <1>12 DEF UInt32, Limit
  <2>2. code \in UInt32  BY SMT, <1>8 DEF UInt32
  <2> QED  BY <1>11, <2>1, <2>2, Zenon DEF ServerResponse, ld, lt
<1>15. FrameSize(in) \in UInt32
  <2>1. Len(in) + KEY_LENGTH <= Limit + 100  BY SMT, <1>12, <1>13 DEF HeaderSize, Limit
  <2> QED  BY <1>13, <2>1, SizeFits
<1>16. HeaderOK(in) /\ in # <<>>
  <2> DEFINE fa == Field(r.result_data)
             fb == Field(r.error_message)
             fc == Word(r.error_code)
             fd == Word(r.sequence_id)
             body == ((fa \o fb) \o fc) \o fd
  <2>1. in = WithHeader(r.sequence_id, body)  BY Zenon DEF SerializeResponse
  <2>2. r.sequence_id \in Nat /\ r.error_code \in Nat  BY <1>11 DEF RpcResponse
  <2>3. fa \in Seq(Byte) /\ fb \in Seq(Byte) /\ fc \in Seq(Byte) /\ fd \in Seq(Byte)
    BY <1>9, <1>10, <1>11, <2>2, FieldType, WordType
  <2> HIDE DEF fa, fb, fc, fd
  <2>4. body \in Seq(Byte)  BY <2>3, ConcatProperties
  <2> HIDE DEF body
  <2> QED  BY <2>1, <2>2, <2>4, HeaderIsOK
<1>17. Sendable(in)  BY <1>13, <1>15, <1>16, Zenon DEF Sendable
<1>18. ResultOf(c) = IF r.error_code # 0 THEN Error(r.error_code) ELSE Success(r.result_data)
  <2>1. <<>> \in {c.service, c.method} <=> c.service = <<>> \/ c.method = <<>>
    <3> QED  BY Zenon
  <2>2. CASE c.service = <<>> \/ c.method = <<>>
    <3>1. ResultOf(c) = Error(INVALID_REQUEST)
      <4>1. ~(c.service = RpcServiceName /\ c.method = EchoName)  BY <2>2, NameAssumption
      <4> QED  BY <2>1, <2>2, <4>1, Zenon DEF ResultOf
    <3>2. code = INVALID_REQUEST /\ code # 0  BY <1>6, <1>7, <2>2 DEF code
    <3> QED  BY <1>11, <3>1, <3>2
  <2>3. CASE ~(c.service = <<>> \/ c.method = <<>>) /\ wanted
    <3>1. ResultOf(c) = Success(echo)  BY <2>1, <2>3, Zenon DEF ResultOf, echo
    <3>2. code = 0  BY <1>6, <2>3 DEF code
    <3> QED  BY <1>9, <1>11, <3>1, <3>2
  <2>4. CASE ~(c.service = <<>> \/ c.method = <<>>) /\ ~wanted
    <3>1. ResultOf(c) = Error(SERVICE_NOT_FOUND)  BY <2>1, <2>4, Zenon DEF ResultOf
    <3>2. code = SERVICE_NOT_FOUND /\ code # 0  BY <1>6, <1>7, <2>4 DEF code
    <3> QED  BY <1>11, <3>1, <3>2
  <2> QED  BY <2>2, <2>3, <2>4
<1> QED  BY <1>14, <1>17, <1>18, Zenon DEF r, q

-----------------------------------------------------------------------------
(* What the buffer of the end that reads has *)

\* What is on its way in a state of the invariant.
LEMMA SentIsSendable ==
  ASSUME TypeInv, CallInv, MessageInv, pc # "idle"
  PROVE  /\ sequence_id_ \in UInt32 /\ call \in Calls /\ call.type # "mismatch"
         /\ pc \in {"server", "client"} => Sendable(sent)
<1>1. sequence_id_ \in UInt32
  <2>1. sequence_id_ \in Nat /\ sequence_id_ <= MaxCalls /\ MaxCalls \in Nat /\ MaxCalls <= Limit
    BY SessionAssumption DEF TypeInv
  <2> QED  BY SMT, <2>1 DEF UInt32, Limit
<1>2. call \in Calls /\ call.type # "mismatch"  BY DEF CallInv
<1>3. CASE pc = "server"
  <2>1. sent = SerializeRequest(RequestOf(call, sequence_id_))  BY <1>3 DEF MessageInv
  <2> QED  BY <1>1, <1>2, <2>1, RequestFits, Zenon
<1>4. CASE pc = "client"
  <2>1. sent = SerializeResponse(Response(RequestOf(call, sequence_id_)))  BY <1>4 DEF MessageInv
  <2> QED  BY <1>1, <1>2, <2>1, ResponseFits, Zenon
<1> QED  BY <1>1, <1>2, <1>3, <1>4

\* ExtractFrame() sees a prefix of the frame: what FrameLength() makes of it depends
\* on how much has arrived only.
LEMMA BufferIs ==
  ASSUME TypeInv, StreamInv, pc \in {"server", "client"}, Sendable(sent)
  PROVE  LET l == Len(read_buffer_)
             size == FrameSize(sent)
         IN  /\ size \in Nat /\ l \in Nat /\ Len(wire) \in Nat /\ size = l + Len(wire) /\ size > 4
             /\ FrameLength(read_buffer_) =
                  IF l < 4 THEN 0
                  ELSE IF size - 4 > MAX_FRAME_SIZE THEN Failed
                  ELSE IF l < size THEN 0 ELSE size
             /\ wire = <<>> => FrameContent(read_buffer_) = sent
             /\ \E k \in SessionKeys : Len(WriteFrame(sent, k)) = size
<1> PICK k \in SessionKeys : read_buffer_ \o wire = WriteFrame(sent, k)
  BY DEF StreamInv
<1> DEFINE b == read_buffer_
           l == Len(b)
           size == FrameSize(sent)
           frame == WriteFrame(sent, k)
<1>1. /\ k \in SessionKey /\ sent \in Seq(Byte) /\ sent # <<>> /\ HeaderOK(sent)
      /\ FrameSize(sent) \in UInt32
  BY SessionAssumption DEF SessionKey, Sendable
<1>2. b \in Seq(Byte) /\ wire \in Seq(Byte)  BY DEF TypeInv
<1>3. frame \in Seq(Byte) /\ Len(frame) = size  BY <1>1, FrameType, Zenon
<1>4. Len(b \o wire) = l + Len(wire) /\ frame = b \o wire  BY <1>2, ConcatProperties
<1>5. l \in Nat /\ Len(wire) \in Nat  BY <1>2
<1>6. size = l + Len(wire) /\ size \in Nat
  <2>1. size = l + Len(wire)  BY <1>3, <1>4
  <2> HIDE DEF size, b
  <2> QED  BY <1>5, <2>1
<1>7. size > 4
  <2> DEFINE n == Len(sent)
  <2>1. n \in Nat /\ KEY_LENGTH \in Nat  BY <1>1, KeyAssumption
  <2> HIDE DEF n
  <2>2. 4 + 4 * ((KEY_LENGTH + (5 + n) + 2) \div 3) > 4  BY SMT, <2>1
  <2> QED  BY <2>2 DEF n, FrameSize
<1>8. b = SubSeq(frame, 1, l)
  <2>1. OccursAt(frame, frame, 0)  BY <1>3, OccursInItself
  <2>2. OccursAt(b, frame, 0)  BY <1>2, <1>3, <1>4, <2>1, OccursHalves
  <2> HIDE DEF frame, b
  <2>3. SubSeq(frame, 0 + 1, 0 + l) = b  BY <1>2, <1>3, <2>2, OccursIsSubSeq
  <2>4. 0 + 1 = 1 /\ 0 + l = l  BY <1>5
  <2> QED  BY <2>3, <2>4
<1>9. FrameLength(b) = IF l < 4 THEN 0
                       ELSE IF size - 4 > MAX_FRAME_SIZE THEN Failed
                       ELSE IF l < size THEN 0 ELSE size
  <2>1. l \in 0 .. FrameSize(sent)
    <3> HIDE DEF l, size
    <3>1. l \in 0 .. size  BY <1>5, <1>6
    <3> QED  BY <3>1 DEF size
  <2> HIDE DEF l
  <2> QED  BY <1>1, <1>8, <2>1, FrameLengthOfPrefix
<1>10. ASSUME wire = <<>> PROVE FrameContent(b) = sent
  <2>1. frame = b  BY <1>2, <1>4, <1>10, ConcatEmptySeq
  <2>2. FrameContent(frame) = sent  BY <1>1, FrameRoundTrip, Zenon
  <2> QED  BY <2>1, <2>2
<1> QED  BY <1>3, <1>5, <1>6, <1>7, <1>9, <1>10, Zenon

\* ExtractFrame() finds nothing yet, or the whole frame and no more than it, or a
\* length that no buffer can hold.
LEMMA ExtractFinds ==
  ASSUME TypeInv, StreamInv, pc \in {"server", "client"}, Sendable(sent),
         FrameLength(read_buffer_) # 0
  PROVE  LET n == FrameLength(read_buffer_) IN
         \/ n = Failed /\ \E k \in SessionKeys : Len(WriteFrame(sent, k)) > MAX_BUFFER_SIZE
         \/ /\ n # Failed /\ n = Len(read_buffer_) /\ wire = <<>>
            /\ FrameContent(SubSeq(read_buffer_, 1, n)) = sent
            /\ SubSeq(read_buffer_, n + 1, Len(read_buffer_)) = <<>>
<1> DEFINE b == read_buffer_
           l == Len(b)
           size == FrameSize(sent)
           n == FrameLength(b)
<1>1. /\ size \in Nat /\ l \in Nat /\ Len(wire) \in Nat /\ size = l + Len(wire) /\ size > 4
      /\ n = IF l < 4 THEN 0 ELSE IF size - 4 > MAX_FRAME_SIZE THEN Failed
             ELSE IF l < size THEN 0 ELSE size
      /\ wire = <<>> => FrameContent(b) = sent
      /\ \E k \in SessionKeys : Len(WriteFrame(sent, k)) = size
  BY BufferIs, Zenon
<1>2. b \in Seq(Byte) /\ wire \in Seq(Byte) /\ n # 0  BY DEF TypeInv
<1>3. size # Failed  BY <1>1, FailureAssumption
<1> HIDE DEF b, l, size, n
<1>4. CASE size - 4 > MAX_FRAME_SIZE
  <2>1. n = Failed  BY <1>1, <1>2, <1>4, Zenon
  <2>2. size > MAX_BUFFER_SIZE  BY <1>1, <1>4, SizeAssumption
  <2> QED  BY <1>1, <2>1, <2>2, Zenon DEF n, b
<1>5. CASE ~(size - 4 > MAX_FRAME_SIZE)
  <2>1. n = size /\ ~(l < size)  BY <1>1, <1>2, <1>5, Zenon
  <2>2. n = l /\ Len(wire) = 0  BY <1>1, <2>1
  <2>3. wire = <<>>  BY <1>2, <2>2, EmptySeq
  <2>4. SubSeq(b, 1, n) = b  BY <1>2, <2>2, SubSeqFull DEF l
  <2>5. SubSeq(b, n + 1, l) = <<>>
    <3>1. n + 1 \in Int /\ l \in Int /\ l < n + 1  BY <1>1, <2>2
    <3> QED  BY <3>1, SubSeqEmpty
  <2>6. FrameContent(SubSeq(b, 1, n)) = sent  BY <1>1, <2>3, <2>4
  <2> QED  BY <1>3, <2>1, <2>2, <2>3, <2>5, <2>6 DEF n, b, l
<1> QED  BY <1>4, <1>5

-----------------------------------------------------------------------------
(* ExchangeInv is inductive: one lemma for each action *)

\* The outcomes that are told apart.
LEMMA Outcomes ==
  /\ Pending # Lost /\ Pending.status = "pending" /\ Lost.status = "lost"
  /\ \A code : Error(code) # Lost /\ Error(code).status = "error"
  /\ \A data : Success(data) # Lost
<1> QED  BY DEF Pending, Lost, Error, Success

\* The whole of the frame is on its way when it has been written.
LEMMA TransmitStarts ==
  ASSUME NEW d, Sendable(d), NEW k \in SessionKeys, Transmit(d, k)
  PROVE  /\ sent' = d
         /\ read_buffer_' \in Seq(Byte) /\ wire' \in Seq(Byte)
         /\ read_buffer_' \o wire' = WriteFrame(d, k)
<1> DEFINE frame == WriteFrame(d, k)
<1>1. sent' = d /\ wire' = frame /\ read_buffer_' = <<>>  BY Zenon DEF Transmit
<1>2. k \in SessionKey /\ d \in Seq(Byte) /\ d # <<>> /\ FrameSize(d) \in UInt32
  BY SessionAssumption DEF SessionKey, Sendable
<1>3. frame \in Seq(Byte)  BY <1>2, FrameType, Zenon
<1> HIDE DEF frame
<1>4. <<>> \o frame = frame /\ <<>> \in Seq(Byte)  BY <1>3, ConcatEmptySeq, EmptySeq
<1> QED  BY <1>1, <1>3, <1>4 DEF frame

\* At the start there is no call, no request and nothing on its way.
LEMMA InitInv ==
  ASSUME Init
  PROVE  ExchangeInv
<1> USE DEF Init
<1>1. TypeInv
  <2>1. MaxCalls \in Nat  BY SessionAssumption
  <2>2. 0 <= MaxCalls /\ 0 \in Nat  BY <2>1
  <2> QED  BY <2>2, EmptySeq DEF TypeInv
<1>2. CallInv /\ MessageInv /\ StreamInv  BY DEF CallInv, MessageInv, StreamInv
<1>3. RequestArrives  BY DEF RequestArrives
<1>4. AnswerIsForCall  BY Outcomes DEF AnswerIsForCall
<1>5. LostOnlyIfTooLong  BY Outcomes DEF LostOnlyIfTooLong
<1> QED  BY <1>1, <1>2, <1>3, <1>4, <1>5, Zenon DEF ExchangeInv

\* Call() writes its request, or returns at once if it has no payload.
LEMMA CallBeginKeepsInv ==
  ASSUME ExchangeInv, NEW c \in Calls, NEW k \in SessionKeys, CallBegin(c, k)
  PROVE  ExchangeInv'
<1> DEFINE payload == SerializePayload(c)
           id == sequence_id_ + 1
           m == RequestOf(c, id)
<1>1. TypeInv  BY Zenon DEF ExchangeInv
<1>2. payload = <<>> <=> c.type = "mismatch"  BY PayloadType, Zenon
<1>3. pc = "idle" /\ sequence_id_ < MaxCalls /\ call' = c /\ request' = NoRequest
  BY Zenon DEF CallBegin
<1>4. RequestArrives'  BY <1>3 DEF RequestArrives
<1>5. CASE payload = <<>>
  <2>1. answer' = Error(0) /\ UNCHANGED <<pc, sequence_id_, wire, read_buffer_, sent>>
    BY <1>5, Zenon DEF CallBegin
  <2>2. TypeInv'  BY <1>1, <2>1 DEF TypeInv
  <2>3. CallInv' /\ MessageInv' /\ StreamInv'
    BY <1>3, <2>1 DEF CallInv, MessageInv, StreamInv
  <2>4. AnswerIsForCall'
    <3>1. answer' = Error(0) /\ call'.type = "mismatch"  BY <1>2, <1>3, <1>5, <2>1
    <3> QED  BY <3>1, Zenon DEF AnswerIsForCall
  <2>5. LostOnlyIfTooLong'  BY <2>1, Outcomes, Zenon DEF LostOnlyIfTooLong
  <2> QED  BY <1>4, <2>2, <2>3, <2>4, <2>5, Zenon DEF ExchangeInv
<1>6. CASE payload # <<>>
  <2>1. answer' = Pending /\ pc' = "server" /\ sequence_id_' = id
    BY <1>6, Zenon DEF CallBegin
  <2>2. Transmit(SerializeRequest(m), k)
    <3>1. Transmit(SerializeRequest([sequence_id |-> sequence_id_', service_name |-> c.service,
                                     method_name |-> c.method, payload |-> payload]), k)
      BY <1>6, Zenon DEF CallBegin
    <3> QED  BY <2>1, <3>1, Zenon DEF RequestOf
  <2>3. id \in Nat /\ id <= MaxCalls /\ id \in UInt32
    <3>1. /\ sequence_id_ \in Nat /\ MaxCalls \in Nat /\ MaxCalls <= Limit
          /\ sequence_id_ < MaxCalls
      BY <1>1, <1>3, SessionAssumption DEF TypeInv
    <3> QED  BY SMT, <3>1 DEF UInt32, Limit
  <2>4. c.type # "mismatch"  BY <1>2, <1>6
  <2> HIDE DEF id
  <2>5. Sendable(SerializeRequest(m))  BY <2>3, <2>4, RequestFits, Zenon
  <2>6. /\ sent' = SerializeRequest(m)
        /\ read_buffer_' \in Seq(Byte) /\ wire' \in Seq(Byte)
        /\ read_buffer_' \o wire' = WriteFrame(SerializeRequest(m), k)
    BY <2>2, <2>5, TransmitStarts, Zenon
  <2>7. TypeInv'  BY <2>1, <2>3, <2>6 DEF TypeInv
  <2>8. CallInv'  BY <1>3, <2>1, <2>4 DEF CallInv
  <2>9. MessageInv'
    <3>1. sent' = SerializeRequest(RequestOf(call', sequence_id_'))  BY <1>3, <2>1, <2>6
    <3> QED  BY <2>1, <3>1 DEF MessageInv
  <2>10. StreamInv'  BY <2>6, Zenon DEF StreamInv
  <2>11. AnswerIsForCall'  BY <2>1 DEF AnswerIsForCall
  <2>12. LostOnlyIfTooLong'  BY <2>1, Outcomes, Zenon DEF LostOnlyIfTooLong
  <2> QED  BY <1>4, <2>7, <2>8, <2>9, <2>10, <2>11, <2>12, Zenon DEF ExchangeInv
<1> QED  BY <1>5, <1>6

\* A connection that is given up for a frame that is too long for any buffer.
LEMMA DropKeepsInv ==
  ASSUME ExchangeInv, Drop, UNCHANGED <<call, sequence_id_, sent, request>>,
         \E k \in SessionKeys : Len(WriteFrame(sent, k)) > MAX_BUFFER_SIZE
  PROVE  ExchangeInv'
<1>1. TypeInv /\ RequestArrives  BY Zenon DEF ExchangeInv
<1>2. pc' = "idle" /\ answer' = Lost /\ wire' = <<>> /\ read_buffer_' = <<>>
  BY Zenon DEF Drop
<1>3. TypeInv'  BY <1>1, <1>2, EmptySeq DEF TypeInv
<1>4. CallInv' /\ MessageInv' /\ StreamInv'  BY <1>2 DEF CallInv, MessageInv, StreamInv
<1>5. RequestArrives'  BY <1>1 DEF RequestArrives
<1>6. AnswerIsForCall'
  <2>1. answer'.status = "lost"  BY <1>2, Outcomes
  <2> QED  BY <2>1 DEF AnswerIsForCall
<1>7. LostOnlyIfTooLong'  BY Zenon DEF LostOnlyIfTooLong
<1> QED  BY <1>3, <1>4, <1>5, <1>6, <1>7, Zenon DEF ExchangeInv

\* Read() moves bytes from the wire to the buffer, or finds the buffer too small,
\* which it is only for a frame longer than MAX_BUFFER_SIZE.
LEMMA ReadKeepsInv ==
  ASSUME ExchangeInv, NEW n, Read(n)
  PROVE  ExchangeInv'
<1>1. TypeInv /\ CallInv /\ MessageInv /\ StreamInv /\ RequestArrives
  BY Zenon DEF ExchangeInv
<1>2. /\ pc \in {"server", "client"} /\ n \in 1 .. Len(wire)
      /\ UNCHANGED <<call, sequence_id_, sent, request>>
  BY Zenon DEF Read
<1>3. pc # "idle" /\ answer = Pending  BY <1>1, <1>2 DEF CallInv
<1>4. Sendable(sent)  BY <1>1, <1>2, <1>3, SentIsSendable
<1>5. read_buffer_ \in Seq(Byte) /\ wire \in Seq(Byte)  BY <1>1 DEF TypeInv
<1>6. CASE Overflows(read_buffer_, n)
  <2> DEFINE l == Len(read_buffer_)
             w == Len(wire)
             size == FrameSize(sent)
  <2>1. /\ l \in Nat /\ w \in Nat /\ size = l + w
        /\ \E k \in SessionKeys : Len(WriteFrame(sent, k)) = size
    BY <1>1, <1>2, <1>4, BufferIs, Zenon
  <2>2. l + n > MAX_BUFFER_SIZE  BY <1>6, Zenon DEF Overflows
  <2>3. n \in 1 .. w  BY <1>2
  <2> HIDE DEF l, w, size
  <2>4. size > MAX_BUFFER_SIZE  BY <2>1, <2>2, <2>3, SizeAssumption
  <2>5. Drop  BY <1>6, Zenon DEF Read
  <2>6. \E k \in SessionKeys : Len(WriteFrame(sent, k)) > MAX_BUFFER_SIZE  BY <2>1, <2>4
  <2> QED  BY <1>2, <2>5, <2>6, DropKeepsInv
<1>7. CASE ~Overflows(read_buffer_, n)
  <2> DEFINE new == SubSeq(wire, 1, n)
             rest == SubSeq(wire, n + 1, Len(wire))
  <2>1. read_buffer_' = read_buffer_ \o new /\ wire' = rest /\ UNCHANGED <<pc, answer>>
    BY <1>7, Zenon DEF Read
  <2>2. new \in Seq(Byte) /\ rest \in Seq(Byte) /\ new \o rest = wire
    <3>1. Len(wire) \in Nat /\ n \in Int /\ \A i \in 1 .. Len(wire) : wire[i] \in Byte
      BY <1>2, <1>5, ElementOfSeq
    <3>2. \A i \in 1 .. n : wire[i] \in Byte  BY <1>2, <3>1
    <3>3. \A i \in n + 1 .. Len(wire) : wire[i] \in Byte  BY <1>2, <3>1
    <3>4. new \in Seq(Byte)  BY <3>1, <3>2, SubSeqProperties
    <3>5. rest \in Seq(Byte)  BY <3>1, <3>3, SubSeqProperties
    <3>6. new \o rest = SubSeq(wire, 1, Len(wire))
      <4> DEFINE w == Len(wire)
      <4>1. 1 \in 1 .. w + 1 /\ n \in 1 - 1 .. w /\ w \in n .. w  BY <1>2, <3>1
      <4> QED  BY <1>5, <4>1, ConcatAdjacentSubSeq
    <3>7. SubSeq(wire, 1, Len(wire)) = wire  BY <1>5, SubSeqFull
    <3> QED  BY <3>4, <3>5, <3>6, <3>7
  <2> HIDE DEF new, rest
  <2>3. read_buffer_' \in Seq(Byte) /\ wire' \in Seq(Byte)
    BY <1>5, <2>1, <2>2, ConcatProperties
  <2>4. read_buffer_' \o wire' = read_buffer_ \o wire
    <3>1. (read_buffer_ \o new) \o rest = read_buffer_ \o (new \o rest)
      <4> DEFINE b == read_buffer_
      <4>1. b \in Seq(Byte) /\ new \in Seq(Byte) /\ rest \in Seq(Byte)  BY <1>5, <2>2
      <4> HIDE DEF b
      <4>2. (b \o new) \o rest = b \o (new \o rest)  BY <4>1, ConcatAssociative
      <4> QED  BY <4>2, Zenon DEF b
    <3> QED  BY <2>1, <2>2, <3>1
  <2>5. TypeInv'  BY <1>1, <1>2, <2>1, <2>3 DEF TypeInv
  <2>6. CallInv' /\ MessageInv'  BY <1>1, <1>2, <2>1 DEF CallInv, MessageInv
  <2>7. StreamInv'
    <3>1. \E k \in SessionKeys : read_buffer_ \o wire = WriteFrame(sent, k)
      BY <1>1, <1>2 DEF StreamInv
    <3> QED  BY <1>2, <2>4, <3>1, Zenon DEF StreamInv
  <2>8. RequestArrives'  BY <1>1, <1>2 DEF RequestArrives
  <2>9. AnswerIsForCall'  BY <1>3, <2>1 DEF AnswerIsForCall
  <2>10. LostOnlyIfTooLong'  BY <1>3, <2>1, Outcomes DEF LostOnlyIfTooLong
  <2> QED  BY <2>5, <2>6, <2>7, <2>8, <2>9, <2>10, Zenon DEF ExchangeInv
<1> QED  BY <1>6, <1>7

\* The prefix that ends where the string does is the string.
LEMMA SubSeqToEnd ==
  ASSUME NEW s \in Seq(Byte)
  PROVE  Len(s) \in 0 .. Len(s) /\ SubSeq(s, 1, Len(s)) = s
<1>1. Len(s) \in 0 .. Len(s)  OBVIOUS
<1> QED  BY <1>1, SubSeqFull

\* A whole message is given back by Deserialize(), and is not a failure.
LEMMA RequestRead ==
  ASSUME NEW m \in ClientRequest, SerializeRequest(m) \in Seq(Byte)
  PROVE  DeserializeRequest(SerializeRequest(m)) = m /\ m \notin {Failed, Overread}
<1> DEFINE in == SerializeRequest(m)
           n == Len(in)
<1>1. n \in 0 .. n /\ SubSeq(in, 1, n) = in  BY SubSeqToEnd, Zenon
<1>2. ~(n < n)  BY <1>1
<1>3. DeserializeRequest(SubSeq(in, 1, n)) = IF n < n THEN Failed ELSE m
  BY <1>1, RequestRoundTrip, Zenon
<1>4. m \notin {Failed, Overread}  BY MessageFailureAssumption DEF ClientRequest
<1> QED  BY <1>1, <1>2, <1>3, <1>4, Zenon

LEMMA ResponseRead ==
  ASSUME NEW m \in ServerResponse, SerializeResponse(m) \in Seq(Byte)
  PROVE  DeserializeResponse(SerializeResponse(m)) = m /\ m \notin {Failed, Overread}
<1> DEFINE in == SerializeResponse(m)
           n == Len(in)
<1>1. n \in 0 .. n /\ SubSeq(in, 1, n) = in  BY SubSeqToEnd, Zenon
<1>2. ~(n < n)  BY <1>1
<1>3. DeserializeResponse(SubSeq(in, 1, n)) = IF n < n THEN Failed ELSE m
  BY <1>1, ResponseRoundTrip, Zenon
<1>4. m \notin {Failed, Overread}  BY MessageFailureAssumption DEF ServerResponse
<1> QED  BY <1>1, <1>2, <1>3, <1>4, Zenon

\* HandleClientData() takes off the whole frame, and nothing is left behind it.
LEMMA ExtractRequestKeepsInv ==
  ASSUME ExchangeInv, ExtractRequest
  PROVE  ExchangeInv'
<1> DEFINE n == FrameLength(read_buffer_)
           content == IF n = Failed THEN Failed ELSE FrameContent(SubSeq(read_buffer_, 1, n))
           r == IF content = Failed THEN Failed ELSE DeserializeRequest(content)
           m == RequestOf(call, sequence_id_)
<1>1. TypeInv /\ CallInv /\ MessageInv /\ StreamInv  BY Zenon DEF ExchangeInv
<1>2. pc = "server" /\ n # 0 /\ UNCHANGED <<call, sequence_id_, sent>>
  BY Zenon DEF ExtractRequest
<1>3. pc # "idle" /\ pc \in {"server", "client"}  BY <1>2
<1>4. call \in Calls /\ call.type # "mismatch" /\ answer = Pending  BY <1>1, <1>3 DEF CallInv
<1>5. sequence_id_ \in UInt32 /\ Sendable(sent)  BY <1>1, <1>3, SentIsSendable, Zenon
<1>6. sent = SerializeRequest(m)  BY <1>1, <1>2 DEF MessageInv
<1>7. \/ n = Failed /\ \E k \in SessionKeys : Len(WriteFrame(sent, k)) > MAX_BUFFER_SIZE
      \/ /\ n # Failed /\ n = Len(read_buffer_) /\ wire = <<>>
         /\ FrameContent(SubSeq(read_buffer_, 1, n)) = sent
         /\ SubSeq(read_buffer_, n + 1, Len(read_buffer_)) = <<>>
  BY <1>1, <1>2, <1>3, <1>5, ExtractFinds, Zenon
<1>8. IF r \in {Failed, Overread}
      THEN Drop /\ UNCHANGED request
      ELSE request' = r /\ pc' = "handle" /\ TakeFrame /\ UNCHANGED <<wire, answer>>
  BY Zenon DEF ExtractRequest
<1>9. CASE n = Failed
  <2>1. r = Failed  BY <1>9
  <2>2. Drop /\ UNCHANGED request  BY <1>8, <2>1
  <2>3. \E k \in SessionKeys : Len(WriteFrame(sent, k)) > MAX_BUFFER_SIZE  BY <1>7, <1>9
  <2> QED  BY <1>2, <2>2, <2>3, DropKeepsInv
<1>10. CASE n # Failed
  <2>1. /\ wire = <<>> /\ FrameContent(SubSeq(read_buffer_, 1, n)) = sent
        /\ SubSeq(read_buffer_, n + 1, Len(read_buffer_)) = <<>>
    BY <1>7, <1>10, Zenon
  <2>2. sent \in Seq(Byte) /\ sent # Failed
    <3>1. sent \in Seq(Byte)  BY <1>5, Zenon DEF Sendable
    <3> QED  BY <3>1, FailureAssumption
  <2>3. m \in ClientRequest  BY <1>4, <1>5, RequestFits, Zenon
  <2>4. r = m /\ r \notin {Failed, Overread}
    <3>1. content = sent  BY <1>10, <2>1, Zenon
    <3>2. r = DeserializeRequest(sent)  BY <2>2, <3>1, Zenon
    <3> HIDE DEF r, m
    <3>3. DeserializeRequest(sent) = m /\ m \notin {Failed, Overread}
      BY <1>6, <2>2, <2>3, RequestRead, Zenon
    <3> QED  BY <3>2, <3>3
  <2> HIDE DEF r
  <2>5. request' = m /\ pc' = "handle" /\ UNCHANGED <<wire, answer>>  BY <1>8, <2>4
  <2>6. read_buffer_' = <<>>
    <3>1. TakeFrame  BY <1>8, <2>4
    <3> QED  BY <2>1, <3>1, Zenon DEF TakeFrame
  <2>7. TypeInv'  BY <1>1, <1>2, <2>5, <2>6, EmptySeq DEF TypeInv
  <2>8. CallInv'  BY <1>2, <1>4, <2>5 DEF CallInv
  <2>9. request' = RequestOf(call', sequence_id_')  BY <1>2, <2>5
  <2>10. MessageInv' /\ StreamInv'  BY <2>5, <2>9 DEF MessageInv, StreamInv
  <2>11. RequestArrives'  BY <2>9, Zenon DEF RequestArrives, RequestOf
  <2>12. AnswerIsForCall'  BY <2>5 DEF AnswerIsForCall
  <2>13. LostOnlyIfTooLong'  BY <1>4, <2>5, Outcomes DEF LostOnlyIfTooLong
  <2> QED  BY <2>7, <2>8, <2>10, <2>11, <2>12, <2>13, Zenon DEF ExchangeInv
<1> QED  BY <1>9, <1>10

\* A worker writes the response to the request that the server has.
LEMMA HandleKeepsInv ==
  ASSUME ExchangeInv, NEW k \in SessionKeys, HandleRpcRequestSync(k)
  PROVE  ExchangeInv'
<1> DEFINE d == SerializeResponse(Response(RequestOf(call, sequence_id_)))
<1>1. TypeInv /\ CallInv /\ MessageInv /\ RequestArrives  BY Zenon DEF ExchangeInv
<1>2. /\ pc = "handle" /\ pc' = "client" /\ Transmit(SerializeResponse(Response(request)), k)
      /\ UNCHANGED <<call, sequence_id_, request, answer>>
  BY Zenon DEF HandleRpcRequestSync
<1>3. pc # "idle" /\ answer = Pending  BY <1>1, <1>2 DEF CallInv
<1>4. sequence_id_ \in UInt32 /\ call \in Calls /\ call.type # "mismatch"
  BY <1>1, <1>3, SentIsSendable, Zenon
<1>5. request = RequestOf(call, sequence_id_)  BY <1>1, <1>2 DEF MessageInv
<1>6. Sendable(d)  BY <1>4, ResponseFits, Zenon
<1>7. Transmit(d, k)  BY <1>2, <1>5
<1>8. /\ sent' = d /\ read_buffer_' \in Seq(Byte) /\ wire' \in Seq(Byte)
      /\ read_buffer_' \o wire' = WriteFrame(d, k)
  BY <1>6, <1>7, TransmitStarts, Zenon
<1> HIDE DEF d
<1>9. TypeInv'  BY <1>1, <1>2, <1>8 DEF TypeInv
<1>10. CallInv'  BY <1>2, <1>3, <1>4 DEF CallInv
<1>11. MessageInv'
  <2>1. request' = RequestOf(call', sequence_id_')  BY <1>2, <1>5
  <2>2. sent' = SerializeResponse(Response(RequestOf(call', sequence_id_')))
    BY <1>2, <1>8 DEF d
  <2> QED  BY <1>2, <2>1, <2>2 DEF MessageInv
<1>12. StreamInv'  BY <1>8, Zenon DEF StreamInv
<1>13. RequestArrives'  BY <1>1, <1>2 DEF RequestArrives
<1>14. AnswerIsForCall'  BY <1>2 DEF AnswerIsForCall
<1>15. LostOnlyIfTooLong'  BY <1>2, <1>3, Outcomes DEF LostOnlyIfTooLong
<1> QED  BY <1>9, <1>10, <1>11, <1>12, <1>13, <1>14, <1>15, Zenon DEF ExchangeInv

\* ReadResponse() takes off the whole frame and Call() returns what it says.
LEMMA ExtractResponseKeepsInv ==
  ASSUME ExchangeInv, ExtractResponse
  PROVE  ExchangeInv'
<1> DEFINE n == FrameLength(read_buffer_)
           content == IF n = Failed THEN Failed ELSE FrameContent(SubSeq(read_buffer_, 1, n))
           r == IF content = Failed THEN Failed ELSE DeserializeResponse(content)
           m == Response(RequestOf(call, sequence_id_))
           result == IF r \in {Failed, Overread} THEN Lost
                     ELSE IF r.error_code # 0 THEN Error(r.error_code)
                     ELSE Success(r.result_data)
<1>1. TypeInv /\ CallInv /\ MessageInv /\ StreamInv /\ RequestArrives
  BY Zenon DEF ExchangeInv
<1>2. pc = "client" /\ n # 0 /\ UNCHANGED <<call, sequence_id_, sent, request>>
  BY Zenon DEF ExtractResponse
<1>3. pc # "idle" /\ pc \in {"server", "client"}  BY <1>2
<1>4. call \in Calls /\ call.type # "mismatch"  BY <1>1, <1>3 DEF CallInv
<1>5. sequence_id_ \in UInt32 /\ Sendable(sent)  BY <1>1, <1>3, SentIsSendable, Zenon
<1>6. sent = SerializeResponse(m)  BY <1>1, <1>2 DEF MessageInv
<1>7. \/ n = Failed /\ \E k \in SessionKeys : Len(WriteFrame(sent, k)) > MAX_BUFFER_SIZE
      \/ /\ n # Failed /\ n = Len(read_buffer_) /\ wire = <<>>
         /\ FrameContent(SubSeq(read_buffer_, 1, n)) = sent
         /\ SubSeq(read_buffer_, n + 1, Len(read_buffer_)) = <<>>
  BY <1>1, <1>2, <1>3, <1>5, ExtractFinds, Zenon
<1>8. IF content = Failed
      THEN Drop
      ELSE pc' = "idle" /\ TakeFrame /\ answer' = result /\ UNCHANGED wire
  BY Zenon DEF ExtractResponse
<1>9. CASE n = Failed
  <2>1. Drop  BY <1>8, <1>9
  <2>2. \E k \in SessionKeys : Len(WriteFrame(sent, k)) > MAX_BUFFER_SIZE  BY <1>7, <1>9
  <2> QED  BY <1>2, <2>1, <2>2, DropKeepsInv
<1>10. CASE n # Failed
  <2>1. /\ wire = <<>> /\ FrameContent(SubSeq(read_buffer_, 1, n)) = sent
        /\ SubSeq(read_buffer_, n + 1, Len(read_buffer_)) = <<>>
    BY <1>7, <1>10, Zenon
  <2>2. sent \in Seq(Byte) /\ sent # Failed
    <3>1. sent \in Seq(Byte)  BY <1>5, Zenon DEF Sendable
    <3> QED  BY <3>1, FailureAssumption
  <2>3. /\ m \in ServerResponse
        /\ ResultOf(call) = IF m.error_code # 0 THEN Error(m.error_code) ELSE Success(m.result_data)
    BY <1>4, <1>5, ResponseFits, Zenon
  <2>4. content = sent  BY <1>10, <2>1, Zenon
  <2>5. r = m /\ r \notin {Failed, Overread}
    <3>1. r = DeserializeResponse(sent)  BY <2>2, <2>4, Zenon
    <3> HIDE DEF r, m
    <3>2. DeserializeResponse(sent) = m /\ m \notin {Failed, Overread}
      BY <1>6, <2>2, <2>3, ResponseRead, Zenon
    <3> QED  BY <3>1, <3>2
  <2>6. pc' = "idle" /\ TakeFrame /\ answer' = result /\ UNCHANGED wire
    <3> HIDE DEF content, result
    <3> QED  BY <1>8, <2>2, <2>4
  <2> HIDE DEF r
  <2>7. answer' = ResultOf(call)  BY <2>3, <2>5, <2>6, Zenon
  <2>8. read_buffer_' = <<>>  BY <2>1, <2>6, Zenon DEF TakeFrame
  <2>9. TypeInv'  BY <1>1, <1>2, <2>6, <2>8, EmptySeq DEF TypeInv
  <2>10. CallInv' /\ MessageInv' /\ StreamInv'
    BY <2>6 DEF CallInv, MessageInv, StreamInv
  <2>11. RequestArrives'  BY <1>1, <1>2 DEF RequestArrives
  <2>12. AnswerIsForCall'  BY <1>2, <2>7, Zenon DEF AnswerIsForCall, ResultOf
  <2>13. LostOnlyIfTooLong'
    <3>1. answer' # Lost  BY <2>3, <2>7, Outcomes
    <3> QED  BY <3>1, Zenon DEF LostOnlyIfTooLong
  <2> QED  BY <2>9, <2>10, <2>11, <2>12, <2>13, Zenon DEF ExchangeInv
<1> QED  BY <1>9, <1>10

\* Every step of Next keeps the invariant.
LEMMA StepKeepsInv ==
  ASSUME ExchangeInv, [Next]_vars
  PROVE  ExchangeInv'
<1>1. CASE UNCHANGED vars
  <2> USE <1>1 DEF vars
  <2>1. TypeInv' /\ CallInv' /\ MessageInv' /\ StreamInv'
    BY DEF ExchangeInv, TypeInv, CallInv, MessageInv, StreamInv
  <2>2. RequestArrives' /\ AnswerIsForCall' /\ LostOnlyIfTooLong'
    BY DEF ExchangeInv, RequestArrives, AnswerIsForCall, LostOnlyIfTooLong
  <2> QED  BY <2>1, <2>2, Zenon DEF ExchangeInv
<1>2. ASSUME NEW c \in Calls, NEW k \in SessionKeys, CallBegin(c, k) PROVE ExchangeInv'
  BY <1>2, CallBeginKeepsInv
<1>3. ASSUME NEW n \in Chunks \cup {Len(wire)}, Read(n) PROVE ExchangeInv'
  BY <1>3, ReadKeepsInv
<1>4. CASE ExtractRequest  BY <1>4, ExtractRequestKeepsInv
<1>5. ASSUME NEW k \in SessionKeys, HandleRpcRequestSync(k) PROVE ExchangeInv'
  BY <1>5, HandleKeepsInv
<1>6. CASE ExtractResponse  BY <1>6, ExtractResponseKeepsInv
<1>7. CASE Done  BY <1>1, <1>7, Zenon DEF Done
<1> QED  BY <1>1, <1>2, <1>3, <1>4, <1>5, <1>6, <1>7, Zenon DEF Next

\* The inductive invariant holds in every state of Exchange: at each moment the
\* bytes read and the bytes still on their way make up the frame of the request or
\* of the response of the call in progress.
THEOREM ExchangeInvariant == Spec => []ExchangeInv
<1>1. Init => ExchangeInv  BY InitInv
<1>2. ExchangeInv /\ [Next]_vars => ExchangeInv'  BY StepKeepsInv
<1> QED  BY <1>1, <1>2, PTL DEF Spec

-----------------------------------------------------------------------------
(* The properties *)

\* The server works on the request that the client has made: whatever its strings
\* and the session key are, and wherever the stream is cut, Deserialize() in
\* HandleClientData() gives back what Call() has serialized.
THEOREM RequestsArrive == Spec => []RequestArrives
<1>1. ExchangeInv => RequestArrives  BY Zenon DEF ExchangeInv
<1> QED  BY <1>1, ExchangeInvariant, PTL

\* Call() returns what the service makes of the call it was given: the echo, or the
\* code that HandleRpcRequestSync() has for what is wrong with it.
THEOREM AnswersAreForCalls == Spec => []AnswerIsForCall
<1>1. ExchangeInv => AnswerIsForCall  BY Zenon DEF ExchangeInv
<1> QED  BY <1>1, ExchangeInvariant, PTL

\* Read() and ExtractFrame() give a connection up only for a frame longer than
\* MAX_BUFFER_SIZE, however the bytes of it arrive.
THEOREM LostOnlyWhenTooLong == Spec => []LostOnlyIfTooLong
<1>1. ExchangeInv => LostOnlyIfTooLong  BY Zenon DEF ExchangeInv
<1> QED  BY <1>1, ExchangeInvariant, PTL

\* Deserialize() of either side refuses every proper prefix of a message that it
\* may be sent, and RpcResponse's never reads past the end of one.
THEOREM TruncatedAlwaysRefused == Spec => []TruncatedIsRefused
<1>1. ASSUME ExchangeInv PROVE TruncatedIsRefused
  <2> SUFFICES ASSUME pc \in {"server", "client"}, NEW n \in 0 .. Len(sent) - 1
               PROVE  Failed = IF pc = "server" THEN DeserializeRequest(SubSeq(sent, 1, n))
                               ELSE DeserializeResponse(SubSeq(sent, 1, n))
    BY Zenon DEF TruncatedIsRefused
  <2> DEFINE l == Len(sent)
             q == RequestOf(call, sequence_id_)
             a == Response(q)
  <2>1. TypeInv /\ CallInv /\ MessageInv  BY <1>1, Zenon DEF ExchangeInv
  <2>2. pc # "idle"  OBVIOUS
  <2>3. /\ sequence_id_ \in UInt32 /\ call \in Calls /\ call.type # "mismatch"
        /\ Sendable(sent)
    BY <2>1, <2>2, SentIsSendable, Zenon
  <2>4. l \in Nat
    <3>1. sent \in Seq(Byte)  BY <2>3, Zenon DEF Sendable
    <3> QED  BY <3>1
  <2>5. n \in 0 .. l /\ n < l  BY <2>4
  <2>6. CASE pc = "server"
    <3>1. sent = SerializeRequest(q)  BY <2>1, <2>6 DEF MessageInv
    <3>2. q \in ClientRequest  BY <2>3, RequestFits, Zenon
    <3>3. DeserializeRequest(SubSeq(sent, 1, n)) = IF n < l THEN Failed ELSE q
      BY <2>5, <3>1, <3>2, RequestRoundTrip, Zenon
    <3> QED  BY <2>5, <2>6, <3>3, Zenon
  <2>7. CASE pc = "client"
    <3>1. sent = SerializeResponse(a)  BY <2>1, <2>7 DEF MessageInv
    <3>2. a \in ServerResponse  BY <2>3, ResponseFits, Zenon
    <3>3. DeserializeResponse(SubSeq(sent, 1, n)) = IF n < l THEN Failed ELSE a
      BY <2>5, <3>1, <3>2, ResponseRoundTrip, Zenon
    <3>4. pc # "server"  BY <2>7
    <3> QED  BY <2>5, <3>3, <3>4, Zenon
  <2> QED  BY <2>6, <2>7
<1> QED  BY <1>1, ExchangeInvariant, PTL

\* ExtractFrame() does not wait for more once the last byte of a frame has been
\* read, so neither end blocks in Read() with nothing on its way.
THEOREM WholeFrameAlwaysSeen == Spec => []WholeFrameIsSeen
<1>1. ASSUME ExchangeInv PROVE WholeFrameIsSeen
  <2> SUFFICES ASSUME pc \in {"server", "client"}, wire = <<>>
               PROVE  FrameLength(read_buffer_) # 0
    BY Zenon DEF WholeFrameIsSeen
  <2> DEFINE l == Len(read_buffer_)
             size == FrameSize(sent)
             n == FrameLength(read_buffer_)
  <2>1. TypeInv /\ CallInv /\ MessageInv /\ StreamInv  BY <1>1, Zenon DEF ExchangeInv
  <2>2. pc # "idle"  OBVIOUS
  <2>3. Sendable(sent)  BY <2>1, <2>2, SentIsSendable, Zenon
  <2>4. /\ size \in Nat /\ l \in Nat /\ size = l + Len(wire) /\ size > 4
        /\ n = IF l < 4 THEN 0
               ELSE IF size - 4 > MAX_FRAME_SIZE THEN Failed
               ELSE IF l < size THEN 0 ELSE size
    BY <2>1, <2>3, BufferIs, Zenon
  <2>5. Len(wire) = 0  BY EmptySeq
  <2>6. Failed # 0
    <3>1. Failed \notin Int  BY FailureAssumption
    <3> QED  BY <3>1
  <2> HIDE DEF l, size, n
  <2>7. l = size /\ ~(l < 4) /\ ~(l < size) /\ size # 0  BY <2>4, <2>5
  <2>8. n = Failed \/ n = size  BY <2>4, <2>7, Zenon
  <2> QED  BY <2>6, <2>7, <2>8 DEF n
<1> QED  BY <1>1, ExchangeInvariant, PTL

=============================================================================
