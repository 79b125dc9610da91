----------------------------- MODULE CodecProofs -----------------------------
(***************************************************************************)
(* Decoding undoes encoding, layer by layer: numbers, Base64, the shift,   *)
(* the two keys, the compression, the frame and the messages in it.        *)
(***************************************************************************)
EXTENDS Frame, SequenceTheorems, TLAPS

UInt32 == {n \in Nat : n < 4294967296}

-----------------------------------------------------------------------------
(* Numbers *)

\* The four bytes of a number give it back.
LEMMA FourBytes ==
  ASSUME NEW n \in UInt32
  PROVE  n = (n % 256) + 256 * ((n \div 256) % 256) + 65536 * ((n \div 65536) % 256)
             + 16777216 * ((n \div 16777216) % 256)
<1> DEFINE a == n \div 256
           b == n \div 65536
           c == n \div 16777216
<1>1. n \in Nat /\ n < 4294967296  BY SMT DEF UInt32
<1>2. n = 256 * a + (n % 256) /\ (n % 256) \in Nat  BY SMT, <1>1
<1>3. a \in Nat /\ a = 256 * b + (a % 256) /\ (a % 256) \in Nat  BY SMT, <1>1
<1>4. b \in Nat /\ b = 256 * c + (b % 256) /\ (b % 256) \in Nat  BY SMT, <1>1
<1>5. c \in Nat /\ c <= 255  BY SMT, <1>1
<1>6. (c % 256) = c  BY SMT, <1>5
<1> HIDE DEF a, b, c
<1>7. n = (n % 256) + 256 * (a % 256) + 65536 * (b % 256) + 16777216 * (c % 256)
  BY SMT, <1>1, <1>2, <1>3, <1>4, <1>5, <1>6
<1> QED  BY SMT, <1>7 DEF a, b, c

\* A number is four bytes.
LEMMA WordType ==
  ASSUME NEW n \in Nat
  PROVE  Word(n) \in Seq(Byte) /\ Len(Word(n)) = 4
  BY SMT DEF Word, Byte

\* Reading the four bytes of a number, wherever they are, gives the number.
LEMMA WordRoundTrip ==
  ASSUME NEW n \in UInt32, NEW s, NEW pos \in Nat,
         \A i \in 1 .. 4 : s[pos + i] = Word(n)[i]
  PROVE  WordAt(s, pos) = n
  BY SMT, FourBytes DEF Word, WordAt

\* A sequence is determined by its length and its elements.
LEMMA IndexedIsSeq ==
  ASSUME NEW S, NEW n \in Nat, NEW f, f = [i \in 1 .. n |-> f[i]], \A i \in 1 .. n : f[i] \in S
  PROVE  f \in Seq(S) /\ Len(f) = n
  BY SeqDef

-----------------------------------------------------------------------------
(* Where one string of bytes is found in another *)

\* s is in the string in, from position pos (from 0) on.
OccursAt(s, in, pos) ==
    /\ pos \in Nat /\ pos + Len(s) <= Len(in)
    /\ \A i \in 1 .. Len(s) : in[pos + i] = s[i]

\* Nor does cutting off what comes after it move it.
LEMMA OccursInPrefix ==
  ASSUME NEW s \in Seq(Byte), NEW in \in Seq(Byte), NEW pos, OccursAt(s, in, pos),
         NEW n \in 0 .. Len(in), pos + Len(s) <= n
  PROVE  OccursAt(s, SubSeq(in, 1, n), pos)
<1>1. Len(in) \in Nat /\ Len(s) \in Nat /\ \A i \in 1 .. n : in[i] \in Byte
  BY ElementOfSeq
<1>2. /\ Len(SubSeq(in, 1, n)) = n
      /\ \A i \in 1 .. n : SubSeq(in, 1, n)[i] = in[i]
  BY <1>1, SubSeqProperties
<1> QED  BY <1>1, <1>2 DEF OccursAt

\* What is found is what substr() returns.
LEMMA OccursIsSubSeq ==
  ASSUME NEW s \in Seq(Byte), NEW in \in Seq(Byte), NEW pos, OccursAt(s, in, pos)
  PROVE  SubSeq(in, pos + 1, pos + Len(s)) = s
<1> DEFINE t == SubSeq(in, pos + 1, pos + Len(s))
<1>1. /\ Len(in) \in Nat /\ Len(s) \in Nat /\ pos \in Nat /\ pos + Len(s) <= Len(in)
      /\ \A i \in 1 .. Len(s) : in[pos + i] = s[i]
  BY DEF OccursAt
<1>2. \A i \in pos + 1 .. pos + Len(s) : in[i] \in Byte
  BY <1>1, ElementOfSeq
<1>3. /\ t \in Seq(Byte)
      /\ Len(t) = Len(s)
      /\ \A i \in 1 .. Len(s) : t[i] = in[pos + i]
  <2>1. /\ t \in Seq(Byte)
        /\ Len(t) = IF pos + 1 <= pos + Len(s) THEN (pos + Len(s)) - (pos + 1) + 1 ELSE 0
        /\ \A i \in 1 .. (pos + Len(s)) - (pos + 1) + 1 : t[i] = in[(pos + 1) + i - 1]
    BY <1>1, <1>2, SubSeqProperties
  <2> QED  BY <1>1, <2>1
<1>4. \A i \in 1 .. Len(t) : t[i] = s[i]  BY <1>1, <1>3
<1> QED  BY <1>3, <1>4, SeqEqual

\* A number is read where its four bytes are.
LEMMA WordOccurs ==
  ASSUME NEW n \in UInt32, NEW in, NEW pos, OccursAt(Word(n), in, pos)
  PROVE  WordAt(in, pos) = n
<1>1. n \in Nat  BY SMT DEF UInt32
<1>2. Len(Word(n)) = 4  BY <1>1, WordType
<1> QED  BY <1>2, WordRoundTrip DEF OccursAt

\* A string is found in itself, and with a concatenation both of its halves are.
LEMMA OccursInItself ==
  ASSUME NEW s \in Seq(Byte)
  PROVE  OccursAt(s, s, 0)
<1>1. Len(s) \in Nat  OBVIOUS
<1> QED  BY <1>1 DEF OccursAt

LEMMA OccursHalves ==
  ASSUME NEW a \in Seq(Byte), NEW b \in Seq(Byte), NEW in \in Seq(Byte), NEW pos,
         OccursAt(a \o b, in, pos)
  PROVE  OccursAt(a, in, pos) /\ OccursAt(b, in, pos + Len(a))
<1>1. Len(a) \in Nat /\ Len(b) \in Nat /\ Len(in) \in Nat /\ Len(a \o b) = Len(a) + Len(b)
  BY ConcatProperties
<1>2. /\ pos \in Nat /\ pos + (Len(a) + Len(b)) <= Len(in)
      /\ \A i \in 1 .. Len(a) + Len(b) : in[pos + i] = (a \o b)[i]
  BY <1>1 DEF OccursAt
<1>3. \A i \in 1 .. Len(a) : in[pos + i] = a[i]
  <2> TAKE i \in 1 .. Len(a)
  <2>1. i \in 1 .. Len(a) + Len(b) /\ i <= Len(a)  BY <1>1
  <2> QED  BY <1>2, <2>1, ConcatProperties
<1>4. \A i \in 1 .. Len(b) : in[(pos + Len(a)) + i] = b[i]
  <2> TAKE i \in 1 .. Len(b)
  <2> DEFINE j == Len(a) + i
  <2>1. /\ j \in 1 .. Len(a) + Len(b) /\ ~(j <= Len(a))
        /\ j - Len(a) = i /\ (pos + Len(a)) + i = pos + j
    BY <1>1, <1>2
  <2> HIDE DEF j
  <2>2. in[pos + j] = b[j - Len(a)]  BY <1>2, <2>1, ConcatProperties
  <2> QED  BY <2>1, <2>2
<1>5. OccursAt(a, in, pos)  BY <1>1, <1>2, <1>3 DEF OccursAt
<1>6. OccursAt(b, in, pos + Len(a))  BY <1>1, <1>2, <1>4 DEF OccursAt
<1> QED  BY <1>5, <1>6

-----------------------------------------------------------------------------
(* Requests *)

\* A field is a string after the four bytes of its length.
LEMMA FieldType ==
  ASSUME NEW s \in Seq(Byte)
  PROVE  Field(s) \in Seq(Byte) /\ Len(Field(s)) = 4 + Len(s)
<1>1. Len(s) \in Nat  OBVIOUS
<1> DEFINE w == Word(Len(s))
<1>2. w \in Seq(Byte) /\ Len(w) = 4  BY <1>1, WordType
<1> HIDE DEF w
<1>3. w \o s \in Seq(Byte) /\ Len(w \o s) = Len(w) + Len(s)  BY <1>2, ConcatProperties
<1> QED  BY <1>2, <1>3 DEF Field, w

\* What Deserialize() makes of one string, when n bytes of the message are there.
LEMMA RequestFieldOfPrefix ==
  ASSUME NEW s \in Seq(Byte), Len(s) \in UInt32,
         NEW in \in Seq(Byte), NEW pos, OccursAt(Field(s), in, pos),
         NEW n \in 0 .. Len(in)
  PROVE  RequestField(SubSeq(in, 1, n), pos) =
           IF n < (pos + 4) + Len(s) THEN Failed
           ELSE [value |-> s, next |-> (pos + 4) + Len(s)]
<1> DEFINE w == Word(Len(s))
           half == SubSeq(in, 1, n)
           end == (pos + 4) + Len(s)
<1>1. Len(s) \in Nat /\ Len(in) \in Nat /\ pos \in Nat  BY DEF OccursAt
<1>2. w \in Seq(Byte) /\ Len(w) = 4  BY <1>1, WordType
<1>3. OccursAt(w, in, pos) /\ OccursAt(s, in, pos + 4)
  BY <1>2, OccursHalves DEF Field
<1>4. half \in Seq(Byte) /\ Len(half) = n
  <2>1. \A i \in 1 .. n : in[i] \in Byte  BY <1>1, ElementOfSeq
  <2> QED  BY <1>1, <2>1, SubSeqProperties
<1> HIDE DEF w, half, end
<1>5. CASE pos + 4 > n
  <2>1. n < end  BY <1>1, <1>5 DEF end
  <2>2. RequestField(half, pos) = Failed  BY <1>4, <1>5 DEF RequestField
  <2> QED  BY <2>1, <2>2 DEF half, end
<1>6. CASE ~(pos + 4 > n)
  <2>1. OccursAt(w, half, pos)
    <3>1. pos + Len(w) <= n  BY <1>1, <1>2, <1>6
    <3> QED  BY <1>2, <1>3, <3>1, OccursInPrefix DEF half
  <2>2. WordAt(half, pos) = Len(s)  BY <2>1, WordOccurs DEF w
  <2>3. CASE n < end
    <3>1. Len(s) > n - (pos + 4)  BY <1>1, <2>3 DEF end
    <3>2. RequestField(half, pos) = Failed  BY <1>4, <1>6, <2>2, <3>1 DEF RequestField
    <3> QED  BY <2>3, <3>2 DEF half, end
  <2>4. CASE ~(n < end)
    <3>1. ~(Len(s) > n - (pos + 4))  BY <1>1, <2>4 DEF end
    <3>2. SubSeq(half, (pos + 4) + 1, (pos + 4) + Len(s)) = s
      <4>1. OccursAt(s, half, pos + 4)
        <5>1. (pos + 4) + Len(s) <= n  BY <1>1, <2>4 DEF end
        <5> QED  BY <1>3, <5>1, OccursInPrefix DEF half
      <4> QED  BY <1>4, <4>1, OccursIsSubSeq
    <3>3. (pos + 4) + 1 = pos + 5  BY <1>1
    <3>4. SubSeq(half, pos + 5, pos + 4 + Len(s)) = s  BY <3>2, <3>3
    <3>5. RequestField(half, pos) = [value |-> s, next |-> end]
      BY <1>4, <1>6, <2>2, <3>1, <3>4 DEF RequestField, end
    <3> QED  BY <2>4, <3>5 DEF half, end
  <2> QED  BY <2>3, <2>4
<1> QED  BY <1>5, <1>6

\* Where the numbers of the header are, and the body.
LEMMA HeaderOccurs ==
  ASSUME NEW id \in Nat, NEW body \in Seq(Byte)
  PROVE  /\ WithHeader(id, body) \in Seq(Byte)
         /\ Len(WithHeader(id, body)) = HeaderSize + Len(body)
         /\ OccursAt(Word(MAGIC), WithHeader(id, body), 0)
         /\ OccursAt(Word(Len(body)), WithHeader(id, body), 4)
         /\ OccursAt(Word(id), WithHeader(id, body), 8)
         /\ OccursAt(body, WithHeader(id, body), HeaderSize)
<1> DEFINE m == Word(MAGIC)
           l == Word(Len(body))
           w == Word(id)
           in == ((m \o l) \o w) \o body
<1>1. Len(body) \in Nat  OBVIOUS
<1>2. MAGIC \in Nat  BY SMT DEF MAGIC
<1>3. /\ m \in Seq(Byte) /\ Len(m) = 4
      /\ l \in Seq(Byte) /\ Len(l) = 4
      /\ w \in Seq(Byte) /\ Len(w) = 4
  BY <1>1, <1>2, WordType
<1>4. in = WithHeader(id, body)  BY Zenon DEF WithHeader
<1> HIDE DEF m, l, w
<1>5. m \o l \in Seq(Byte) /\ Len(m \o l) = 8
  <2>1. m \o l \in Seq(Byte) /\ Len(m \o l) = Len(m) + Len(l)  BY <1>3, ConcatProperties
  <2> QED  BY <1>3, <2>1
<1>6. (m \o l) \o w \in Seq(Byte) /\ Len((m \o l) \o w) = 12  BY <1>3, <1>5, ConcatProperties
<1>7. in \in Seq(Byte) /\ Len(in) = 12 + Len(body)
  <2> DEFINE h == (m \o l) \o w
  <2>1. h \in Seq(Byte) /\ Len(h) = 12  BY <1>6
  <2> HIDE DEF h
  <2>2. h \o body \in Seq(Byte) /\ Len(h \o body) = Len(h) + Len(body)
    BY <2>1, ConcatProperties
  <2> QED  BY <2>1, <2>2 DEF h
<1>8. OccursAt(in, in, 0)  BY <1>7, OccursInItself
<1>9. OccursAt((m \o l) \o w, in, 0) /\ OccursAt(body, in, 0 + 12)
  <2>1. OccursAt((m \o l) \o w, in, 0) /\ OccursAt(body, in, 0 + Len((m \o l) \o w))
    BY <1>6, <1>7, <1>8, OccursHalves
  <2> QED  BY <1>6, <2>1
<1>10. OccursAt(m \o l, in, 0) /\ OccursAt(w, in, 0 + 8)
  <2>1. OccursAt(m \o l, in, 0) /\ OccursAt(w, in, 0 + Len(m \o l))
    BY <1>3, <1>5, <1>7, <1>9, OccursHalves
  <2> QED  BY <1>5, <2>1
<1>11. OccursAt(m, in, 0) /\ OccursAt(l, in, 0 + 4)
  <2>1. OccursAt(m, in, 0) /\ OccursAt(l, in, 0 + Len(m))
    BY <1>3, <1>7, <1>10, OccursHalves
  <2> QED  BY <1>3, <2>1
<1> HIDE DEF in
<1>12. 0 + 4 = 4 /\ 0 + 8 = 8 /\ 0 + 12 = 12  OBVIOUS
<1>13. OccursAt(l, in, 4) /\ OccursAt(w, in, 8) /\ OccursAt(body, in, 12)
  BY <1>9, <1>10, <1>11, <1>12
<1> QED  BY <1>4, <1>7, <1>11, <1>13, Zenon DEF m, l, w, HeaderSize

\* What the tests of the header say, when n bytes of the message are there.
LEMMA HeaderOfPrefix ==
  ASSUME NEW id \in UInt32, NEW body \in Seq(Byte), Len(body) \in UInt32,
         NEW n \in 0 .. Len(WithHeader(id, body))
  PROVE  LET half == SubSeq(WithHeader(id, body), 1, n) IN
         /\ half \in Seq(Byte) /\ Len(half) = n
         /\ HeaderOK(half) <=> n >= HeaderSize
         /\ n >= HeaderSize => WordAt(half, 4) = Len(body) /\ WordAt(half, 8) = id
<1> DEFINE in == WithHeader(id, body)
           half == SubSeq(in, 1, n)
<1>1. id \in Nat /\ Len(body) \in Nat /\ MAGIC \in UInt32 /\ MAGIC \in Nat
  BY SMT DEF UInt32, MAGIC
<1>2. /\ in \in Seq(Byte)
      /\ OccursAt(Word(MAGIC), in, 0)
      /\ OccursAt(Word(Len(body)), in, 4)
      /\ OccursAt(Word(id), in, 8)
  BY <1>1, HeaderOccurs
<1> HIDE DEF in
<1>3. half \in Seq(Byte) /\ Len(half) = n
  <2>1. Len(in) \in Nat /\ n \in 0 .. Len(in)  BY <1>2 DEF in
  <2>2. \A i \in 1 .. n : in[i] \in Byte  BY <1>2, <2>1, ElementOfSeq
  <2> QED  BY <2>1, <2>2, SubSeqProperties
<1>4. n \in Nat  BY <1>2 DEF in
<1> HIDE DEF half
<1>5. ASSUME n >= HeaderSize
      PROVE  WordAt(half, 0) = MAGIC /\ WordAt(half, 4) = Len(body) /\ WordAt(half, 8) = id
  <2>1. \A k \in UInt32, pos \in {0, 4, 8} : OccursAt(Word(k), in, pos) => WordAt(half, pos) = k
    <3> TAKE k \in UInt32, pos \in {0, 4, 8}
    <3> HAVE OccursAt(Word(k), in, pos)
    <3>1. k \in Nat  BY SMT DEF UInt32
    <3>2. Word(k) \in Seq(Byte) /\ Len(Word(k)) = 4  BY <3>1, WordType
    <3>3. pos + 4 <= n  BY <1>4, <1>5 DEF HeaderSize
    <3>4. n \in 0 .. Len(in)  BY DEF in
    <3>5. OccursAt(Word(k), half, pos)
      BY <1>2, <3>2, <3>3, <3>4, OccursInPrefix DEF half
    <3> QED  BY <3>5, WordOccurs
  <2> QED  BY <1>1, <1>2, <2>1
<1>6. HeaderOK(half) <=> n >= HeaderSize
  BY <1>3, <1>5 DEF HeaderOK
<1> QED  BY <1>3, <1>5, <1>6 DEF half, in

\* A request as the client can make it: its lengths and its number fit.
ClientRequest ==
    {m \in RpcRequest : /\ m.sequence_id \in UInt32
                        /\ Len(m.service_name) + Len(m.method_name) + Len(m.payload) + 12 \in UInt32}

\* Where the three strings of a request are.
LEMMA RequestFieldsOccur ==
  ASSUME NEW m \in RpcRequest
  PROVE  LET in == SerializeRequest(m)
             p  == HeaderSize
             q  == (p + 4) + Len(m.service_name)
             r  == (q + 4) + Len(m.method_name)
         IN  /\ in \in Seq(Byte)
             /\ Len(in) = (r + 4) + Len(m.payload)
             /\ OccursAt(Field(m.service_name), in, p)
             /\ OccursAt(Field(m.method_name), in, q)
             /\ OccursAt(Field(m.payload), in, r)
<1> DEFINE a == m.service_name
           b == m.method_name
           c == m.payload
           body == (Field(a) \o Field(b)) \o Field(c)
           in == WithHeader(m.sequence_id, body)
           fa == Field(a)
           fb == Field(b)
           fc == Field(c)
<1>1. m.sequence_id \in Nat /\ a \in Seq(Byte) /\ b \in Seq(Byte) /\ c \in Seq(Byte)
  BY DEF RpcRequest
<1>2. in = SerializeRequest(m)  BY Zenon DEF SerializeRequest
<1>3. body = (fa \o fb) \o fc  OBVIOUS
<1> HIDE DEF a, b, c
<1>4. /\ fa \in Seq(Byte) /\ Len(fa) = 4 + Len(a) /\ Len(a) \in Nat
      /\ fb \in Seq(Byte) /\ Len(fb) = 4 + Len(b) /\ Len(b) \in Nat
      /\ fc \in Seq(Byte) /\ Len(fc) = 4 + Len(c) /\ Len(c) \in Nat
  <2>1. Len(a) \in Nat /\ Len(b) \in Nat /\ Len(c) \in Nat  BY <1>1
  <2> QED  BY <1>1, <2>1, FieldType
<1> HIDE DEF fa, fb, fc, body
<1>5. fa \o fb \in Seq(Byte) /\ Len(fa \o fb) = Len(fa) + Len(fb)  BY <1>4, ConcatProperties
<1>6. body \in Seq(Byte) /\ Len(body) = Len(fa \o fb) + Len(fc)
  BY <1>4, <1>3, <1>5, ConcatProperties
<1>7. Len(body) = (Len(fa) + Len(fb)) + Len(fc)  BY <1>5, <1>6
<1>8. in \in Seq(Byte) /\ Len(in) = HeaderSize + Len(body) /\ OccursAt(body, in, HeaderSize)
  BY <1>1, <1>6, HeaderOccurs
<1> HIDE DEF in
<1>9. OccursAt(fa \o fb, in, HeaderSize) /\ OccursAt(fc, in, HeaderSize + Len(fa \o fb))
  BY <1>4, <1>3, <1>5, <1>8, OccursHalves
<1>10. OccursAt(fa, in, HeaderSize) /\ OccursAt(fb, in, HeaderSize + Len(fa))
  BY <1>4, <1>8, <1>9, OccursHalves
<1>11. /\ HeaderSize + Len(fa) = (HeaderSize + 4) + Len(a)
       /\ HeaderSize + Len(fa \o fb) = (((HeaderSize + 4) + Len(a)) + 4) + Len(b)
       /\ Len(in) = (((((HeaderSize + 4) + Len(a)) + 4) + Len(b)) + 4) + Len(c)
  BY <1>4, <1>5, <1>7, <1>8 DEF HeaderSize
<1>12. /\ OccursAt(fb, in, (HeaderSize + 4) + Len(a))
       /\ OccursAt(fc, in, (((HeaderSize + 4) + Len(a)) + 4) + Len(b))
  BY <1>9, <1>10, <1>11
<1> QED  BY <1>2, <1>8, <1>10, <1>11, <1>12, Zenon DEF fa, fb, fc, a, b, c

\* Deserialize() refuses a request that is cut short anywhere, and gives back one
\* that is there (RpcRequest::Deserialize).
THEOREM RequestRoundTrip ==
  ASSUME NEW m \in ClientRequest, NEW n \in 0 .. Len(SerializeRequest(m))
  PROVE  DeserializeRequest(SubSeq(SerializeRequest(m), 1, n)) =
           IF n < Len(SerializeRequest(m)) THEN Failed ELSE m
<1> DEFINE in == SerializeRequest(m)
           half == SubSeq(in, 1, n)
           a == m.service_name
           b == m.method_name
           c == m.payload
           q == (HeaderSize + 4) + Len(a)
           r == (q + 4) + Len(b)
           end == (r + 4) + Len(c)
           service == RequestField(half, HeaderSize)
           method  == IF service = Failed THEN Failed ELSE RequestField(half, service.next)
           payload == IF method = Failed THEN Failed ELSE RequestField(half, method.next)
<1>1. /\ m \in RpcRequest /\ m.sequence_id \in UInt32
      /\ a \in Seq(Byte) /\ b \in Seq(Byte) /\ c \in Seq(Byte)
      /\ Len(a) + Len(b) + Len(c) + 12 \in UInt32
  BY DEF ClientRequest, RpcRequest
<1>2. /\ in \in Seq(Byte) /\ Len(in) = end
      /\ OccursAt(Field(a), in, HeaderSize)
      /\ OccursAt(Field(b), in, q)
      /\ OccursAt(Field(c), in, r)
  BY <1>1, RequestFieldsOccur, Zenon
<1>3. /\ Len(a) \in Nat /\ Len(b) \in Nat /\ Len(c) \in Nat
      /\ Len(a) \in UInt32 /\ Len(b) \in UInt32 /\ Len(c) \in UInt32
  <2> DEFINE la == Len(a)
             lb == Len(b)
             lc == Len(c)
  <2>1. la \in Nat /\ lb \in Nat /\ lc \in Nat  BY <1>1
  <2>2. la + lb + lc + 12 \in UInt32  BY <1>1
  <2> HIDE DEF la, lb, lc
  <2>3. la \in UInt32 /\ lb \in UInt32 /\ lc \in UInt32  BY SMT, <2>1, <2>2 DEF UInt32
  <2> QED  BY <2>1, <2>3 DEF la, lb, lc
<1>4. n \in 0 .. Len(in)  OBVIOUS
<1>5. /\ HeaderOK(half) <=> n >= HeaderSize
      /\ n >= HeaderSize => WordAt(half, 8) = m.sequence_id
  <2> DEFINE body == (Field(a) \o Field(b)) \o Field(c)
  <2>1. in = WithHeader(m.sequence_id, body)  BY Zenon DEF SerializeRequest
  <2>2. body \in Seq(Byte) /\ Len(body) \in UInt32
    <3> DEFINE fa == Field(a)
               fb == Field(b)
               fc == Field(c)
    <3>1. /\ fa \in Seq(Byte) /\ Len(fa) = 4 + Len(a)
          /\ fb \in Seq(Byte) /\ Len(fb) = 4 + Len(b)
          /\ fc \in Seq(Byte) /\ Len(fc) = 4 + Len(c)
      BY <1>1, FieldType
    <3> HIDE DEF fa, fb, fc
    <3>2. fa \o fb \in Seq(Byte) /\ Len(fa \o fb) = Len(fa) + Len(fb)  BY <3>1, ConcatProperties
    <3>3. (fa \o fb) \o fc \in Seq(Byte) /\ Len((fa \o fb) \o fc) = Len(fa \o fb) + Len(fc)
      BY <3>1, <3>2, ConcatProperties
    <3>4. Len((fa \o fb) \o fc) = Len(a) + Len(b) + Len(c) + 12
      <4>1. Len((fa \o fb) \o fc) = ((4 + Len(a)) + (4 + Len(b))) + (4 + Len(c))
        BY <3>1, <3>2, <3>3, Zenon
      <4> HIDE DEF a, b, c
      <4> QED  BY <1>3, <4>1
    <3> QED  BY <1>1, <3>3, <3>4 DEF fa, fb, fc
  <2> HIDE DEF body
  <2> QED  BY <1>1, <1>4, <2>1, <2>2, HeaderOfPrefix
<1> HIDE DEF half, a, b, c
<1>6. service = IF n < q THEN Failed ELSE [value |-> a, next |-> q]
  BY <1>1, <1>2, <1>3, <1>4, RequestFieldOfPrefix DEF half, a
<1>7. RequestField(half, q) = IF n < r THEN Failed ELSE [value |-> b, next |-> r]
  BY <1>1, <1>2, <1>3, <1>4, RequestFieldOfPrefix DEF half, b
<1>8. RequestField(half, r) = IF n < end THEN Failed ELSE [value |-> c, next |-> end]
  BY <1>1, <1>2, <1>3, <1>4, RequestFieldOfPrefix DEF half, c
<1>9. q \in Nat /\ r \in Nat /\ end \in Nat /\ HeaderSize < q /\ q < r /\ r < end /\ n \in Nat
  BY <1>2, <1>3, <1>4 DEF HeaderSize
<1>10. \A v \in Seq(Byte), k \in Nat : [value |-> v, next |-> k] # Failed
  <2> TAKE v \in Seq(Byte), k \in Nat
  <2>1. [value |-> v, next |-> k] \in [value : Seq(Byte), next : Nat]  OBVIOUS
  <2> QED  BY <2>1, MessageFailureAssumption
<1> HIDE DEF q, r, end, in
<1>11. DeserializeRequest(half) =
         IF ~HeaderOK(half) \/ payload = Failed THEN Failed
         ELSE [sequence_id |-> WordAt(half, 8), service_name |-> service.value,
               method_name |-> method.value, payload |-> payload.value]
  BY Zenon DEF DeserializeRequest
<1>12. CASE n < end
  <2>1. payload = Failed
    <3>1. CASE n < q  BY <1>6, <3>1
    <3>2. CASE ~(n < q) /\ n < r  BY <1>1, <1>6, <1>7, <1>9, <1>10, <3>2
    <3>3. CASE ~(n < q) /\ ~(n < r)  BY <1>1, <1>6, <1>7, <1>8, <1>9, <1>10, <1>12, <3>3
    <3> QED  BY <3>1, <3>2, <3>3
  <2> HIDE DEF payload
  <2>2. DeserializeRequest(half) = Failed  BY <1>11, <2>1, Zenon
  <2> QED  BY <1>2, <1>12, <2>2 DEF half, in
<1>13. CASE ~(n < end)
  <2>1. ~(n < q) /\ ~(n < r) /\ n >= HeaderSize  BY <1>9, <1>13 DEF HeaderSize
  <2>2. service = [value |-> a, next |-> q] /\ service # Failed  BY <1>1, <1>6, <1>9, <1>10, <2>1
  <2>3. method = [value |-> b, next |-> r] /\ method # Failed  BY <1>1, <1>7, <1>9, <1>10, <2>1, <2>2
  <2>4. payload = [value |-> c, next |-> end] /\ payload # Failed  BY <1>1, <1>8, <1>9, <1>10, <1>13, <2>3
  <2> HIDE DEF payload, method, service
  <2>5. WordAt(half, 8) = m.sequence_id  BY <1>5, <2>1
  <2>6. DeserializeRequest(half) = m
    BY <1>1, <1>5, <1>11, <2>1, <2>2, <2>3, <2>4, <2>5 DEF RpcRequest, a, b, c
  <2> QED  BY <1>2, <1>13, <2>6 DEF half, in
<1> QED  BY <1>12, <1>13

-----------------------------------------------------------------------------
(* Responses *)

\* A response as the server can make it.
ServerResponse ==
    {m \in RpcResponse : /\ m.sequence_id \in UInt32 /\ m.error_code \in UInt32
                         /\ Len(m.result_data) + Len(m.error_message) + 16 \in UInt32}

\* A field of a response is read where it was written.
LEMMA ResponseFieldRead ==
  ASSUME NEW s \in Seq(Byte), Len(s) \in UInt32,
         NEW in \in Seq(Byte), NEW pos, OccursAt(Field(s), in, pos)
  PROVE  ResponseField(in, pos) = [value |-> s, next |-> (pos + 4) + Len(s)]
<1> DEFINE w == Word(Len(s))
<1>1. Len(s) \in Nat /\ Len(in) \in Nat /\ pos \in Nat  BY DEF OccursAt
<1>2. w \in Seq(Byte) /\ Len(w) = 4  BY <1>1, WordType
<1>3. OccursAt(w, in, pos) /\ OccursAt(s, in, pos + 4)
  BY <1>2, OccursHalves DEF Field
<1> HIDE DEF w
<1>4. WordAt(in, pos) = Len(s)  BY <1>3, WordOccurs DEF w
<1>5. SubSeq(in, (pos + 4) + 1, (pos + 4) + Len(s)) = s  BY <1>3, OccursIsSubSeq
<1>6. (pos + 4) + 1 = pos + 5 /\ (pos + 4) + Len(s) <= Len(in)  BY <1>1, <1>3 DEF OccursAt
<1>7. ~(pos + 4 > Len(in)) /\ ~(pos + 4 + Len(s) > Len(in))  BY <1>1, <1>6
<1> QED  BY <1>4, <1>5, <1>6, <1>7 DEF ResponseField

\* Where the parts of a response are.
LEMMA ResponseFieldsOccur ==
  ASSUME NEW m \in RpcResponse
  PROVE  LET in == SerializeResponse(m)
             p  == HeaderSize
             q  == (p + 4) + Len(m.result_data)
             r  == (q + 4) + Len(m.error_message)
         IN  /\ in \in Seq(Byte)
             /\ Len(in) = r + 8
             /\ OccursAt(Field(m.result_data), in, p)
             /\ OccursAt(Field(m.error_message), in, q)
             /\ OccursAt(Word(m.error_code), in, r)
             /\ OccursAt(Word(m.sequence_id), in, r + 4)
<1> DEFINE a == m.result_data
           b == m.error_message
           fa == Field(a)
           fb == Field(b)
           fc == Word(m.error_code)
           fd == Word(m.sequence_id)
           body == ((fa \o fb) \o fc) \o fd
           in == WithHeader(m.sequence_id, body)
<1>1. m.sequence_id \in Nat /\ m.error_code \in Nat /\ a \in Seq(Byte) /\ b \in Seq(Byte)
  BY DEF RpcResponse
<1>2. in = SerializeResponse(m)  BY Zenon DEF SerializeResponse
<1>3. Len(a) \in Nat /\ Len(b) \in Nat  BY <1>1
<1> HIDE DEF a, b
<1>4. /\ fa \in Seq(Byte) /\ Len(fa) = 4 + Len(a)
      /\ fb \in Seq(Byte) /\ Len(fb) = 4 + Len(b)
      /\ fc \in Seq(Byte) /\ Len(fc) = 4
      /\ fd \in Seq(Byte) /\ Len(fd) = 4
  BY <1>1, FieldType, WordType
<1> HIDE DEF fa, fb, fc, fd
<1>5. fa \o fb \in Seq(Byte) /\ Len(fa \o fb) = Len(fa) + Len(fb)  BY <1>4, ConcatProperties
<1>6. (fa \o fb) \o fc \in Seq(Byte) /\ Len((fa \o fb) \o fc) = Len(fa \o fb) + Len(fc)
  BY <1>4, <1>5, ConcatProperties
<1>7. body = ((fa \o fb) \o fc) \o fd  OBVIOUS
<1> HIDE DEF body
<1>8. body \in Seq(Byte) /\ Len(body) = Len((fa \o fb) \o fc) + Len(fd)
  BY <1>4, <1>6, <1>7, ConcatProperties
<1>9. in \in Seq(Byte) /\ Len(in) = HeaderSize + Len(body) /\ OccursAt(body, in, HeaderSize)
  BY <1>1, <1>8, HeaderOccurs
<1> HIDE DEF in
<1>10. OccursAt((fa \o fb) \o fc, in, HeaderSize) /\ OccursAt(fd, in, HeaderSize + Len((fa \o fb) \o fc))
  BY <1>4, <1>6, <1>7, <1>9, OccursHalves
<1>11. OccursAt(fa \o fb, in, HeaderSize) /\ OccursAt(fc, in, HeaderSize + Len(fa \o fb))
  BY <1>4, <1>5, <1>9, <1>10, OccursHalves
<1>12. OccursAt(fa, in, HeaderSize) /\ OccursAt(fb, in, HeaderSize + Len(fa))
  BY <1>4, <1>9, <1>11, OccursHalves
<1>13. /\ Len(fa \o fb) = (4 + Len(a)) + (4 + Len(b))
       /\ Len((fa \o fb) \o fc) = ((4 + Len(a)) + (4 + Len(b))) + 4
       /\ Len(body) = (((4 + Len(a)) + (4 + Len(b))) + 4) + 4
  BY <1>4, <1>5, <1>6, <1>8, Zenon
<1>14. /\ HeaderSize + Len(fa) = (HeaderSize + 4) + Len(a)
       /\ HeaderSize + Len(fa \o fb) = (((HeaderSize + 4) + Len(a)) + 4) + Len(b)
       /\ HeaderSize + Len((fa \o fb) \o fc) = ((((HeaderSize + 4) + Len(a)) + 4) + Len(b)) + 4
       /\ Len(in) = ((((HeaderSize + 4) + Len(a)) + 4) + Len(b)) + 8
  BY <1>3, <1>4, <1>9, <1>13 DEF HeaderSize
<1>15. /\ OccursAt(fb, in, (HeaderSize + 4) + Len(a))
       /\ OccursAt(fc, in, (((HeaderSize + 4) + Len(a)) + 4) + Len(b))
       /\ OccursAt(fd, in, ((((HeaderSize + 4) + Len(a)) + 4) + Len(b)) + 4)
  BY <1>10, <1>11, <1>12, <1>14
<1> QED  BY <1>2, <1>9, <1>12, <1>14, <1>15, Zenon DEF fa, fb, fc, fd, a, b

\* The same for a response, whose message_length must be that of what is there
\* (RpcResponse::Deserialize).
THEOREM ResponseRoundTrip ==
  ASSUME NEW m \in ServerResponse, NEW n \in 0 .. Len(SerializeResponse(m))
  PROVE  DeserializeResponse(SubSeq(SerializeResponse(m), 1, n)) =
           IF n < Len(SerializeResponse(m)) THEN Failed ELSE m
<1> DEFINE in == SerializeResponse(m)
           half == SubSeq(in, 1, n)
           a == m.result_data
           b == m.error_message
           q == (HeaderSize + 4) + Len(a)
           r == (q + 4) + Len(b)
           body == ((Field(a) \o Field(b)) \o Word(m.error_code)) \o Word(m.sequence_id)
<1>1. /\ m \in RpcResponse /\ m.sequence_id \in UInt32 /\ m.error_code \in UInt32
      /\ a \in Seq(Byte) /\ b \in Seq(Byte)
      /\ Len(a) + Len(b) + 16 \in UInt32
  BY DEF ServerResponse, RpcResponse
<1>2. /\ in \in Seq(Byte) /\ Len(in) = r + 8
      /\ OccursAt(Field(a), in, HeaderSize)
      /\ OccursAt(Field(b), in, q)
      /\ OccursAt(Word(m.error_code), in, r)
      /\ OccursAt(Word(m.sequence_id), in, r + 4)
  BY <1>1, ResponseFieldsOccur, Zenon
<1>3. in = WithHeader(m.sequence_id, body)  BY Zenon DEF SerializeResponse
<1>4. Len(a) \in Nat /\ Len(b) \in Nat  BY <1>1
<1> HIDE DEF a, b
<1>5. Len(a) \in UInt32 /\ Len(b) \in UInt32 /\ (r + 8) - HeaderSize \in UInt32
  BY SMT, <1>1, <1>4 DEF UInt32, HeaderSize
<1>6. body \in Seq(Byte) /\ Len(in) = HeaderSize + Len(body) /\ Len(body) \in Nat
  <2> DEFINE fa == Field(a)
             fb == Field(b)
             fc == Word(m.error_code)
             fd == Word(m.sequence_id)
  <2>1. m.error_code \in Nat /\ m.sequence_id \in Nat  BY <1>1 DEF RpcResponse
  <2>2. fa \in Seq(Byte) /\ fb \in Seq(Byte) /\ fc \in Seq(Byte) /\ fd \in Seq(Byte)
    BY <1>1, <2>1, FieldType, WordType
  <2> HIDE DEF fa, fb, fc, fd
  <2>3. ((fa \o fb) \o fc) \o fd \in Seq(Byte)  BY <2>2, ConcatProperties
  <2>4. body \in Seq(Byte)  BY <2>3 DEF fa, fb, fc, fd
  <2> HIDE DEF body, in
  <2>5. Len(in) = HeaderSize + Len(body)  BY <1>3, <2>1, <2>4, HeaderOccurs
  <2> QED  BY <2>4, <2>5
<1> HIDE DEF body
<1>7. Len(body) = (r + 8) - HeaderSize  BY <1>2, <1>4, <1>6 DEF HeaderSize
<1>8. Len(body) \in UInt32  BY <1>5, <1>7
<1>9. n \in 0 .. Len(in) /\ n \in Nat /\ r \in Nat  BY <1>2, <1>4 DEF HeaderSize
<1> HIDE DEF half
<1>10. /\ half \in Seq(Byte) /\ Len(half) = n
       /\ HeaderOK(half) <=> n >= HeaderSize
       /\ n >= HeaderSize => WordAt(half, 4) = Len(body)
  BY <1>1, <1>3, <1>6, <1>8, <1>9, HeaderOfPrefix DEF half
<1> HIDE DEF in
<1>11. CASE n < Len(in)
  <2>1. ~HeaderOK(half) \/ Len(half) # HeaderSize + WordAt(half, 4)
    <3>1. CASE n >= HeaderSize
      <4>1. HeaderSize + WordAt(half, 4) = Len(in)  BY <1>6, <1>10, <3>1
      <4>2. Len(half) # Len(in)  BY <1>9, <1>10, <1>11
      <4> QED  BY <4>1, <4>2
    <3>2. CASE ~(n >= HeaderSize)  BY <1>10, <3>2
    <3> QED  BY <3>1, <3>2
  <2>2. DeserializeResponse(half) = Failed  BY <2>1, Zenon DEF DeserializeResponse
  <2> QED  BY <1>11, <2>2 DEF half, in
<1>12. CASE ~(n < Len(in))
  <2>1. n = Len(in) /\ n >= HeaderSize  BY <1>2, <1>4, <1>9, <1>12 DEF HeaderSize
  <2>2. half = in  BY <1>2, <2>1, SubSeqFull DEF half
  <2> DEFINE result == ResponseField(in, HeaderSize)
             error == IF result \in {Failed, Overread} THEN result
                      ELSE ResponseField(in, result.next)
  <2>3. \A v \in Seq(Byte), k \in Nat : [value |-> v, next |-> k] \notin {Failed, Overread}
    <3> TAKE v \in Seq(Byte), k \in Nat
    <3>1. [value |-> v, next |-> k] \in [value : Seq(Byte), next : Nat]  OBVIOUS
    <3> QED  BY <3>1, MessageFailureAssumption
  <2>4. q \in Nat  BY <1>4 DEF HeaderSize
  <2> HIDE DEF q, r
  <2>5. result = [value |-> a, next |-> q] /\ result \notin {Failed, Overread}
    <3>1. result = [value |-> a, next |-> q]  BY <1>1, <1>2, <1>5, ResponseFieldRead DEF q
    <3> QED  BY <1>1, <2>3, <2>4, <3>1
  <2>6. error = [value |-> b, next |-> r] /\ error \notin {Failed, Overread}
    <3>1. ResponseField(in, q) = [value |-> b, next |-> r]
      BY <1>1, <1>2, <1>5, ResponseFieldRead DEF r
    <3>2. result.next = q  BY <2>5
    <3>3. error = [value |-> b, next |-> r]  BY <2>5, <3>1, <3>2
    <3> QED  BY <1>1, <1>9, <2>3, <3>3
  <2>7. HeaderOK(in) /\ Len(in) = HeaderSize + WordAt(in, 4)  BY <1>6, <1>10, <2>1, <2>2
  <2>8. ~(error.next + 8 > Len(in))  BY <1>2, <1>9, <2>6 DEF r
  <2>9. WordAt(in, r) = m.error_code /\ WordAt(in, r + 4) = m.sequence_id
    BY <1>1, <1>2, WordOccurs DEF r
  <2>10. DeserializeResponse(in) =
           [result_data |-> result.value, error_message |-> error.value,
            error_code |-> WordAt(in, error.next), sequence_id |-> WordAt(in, error.next + 4)]
    BY <2>5, <2>6, <2>7, <2>8, Zenon DEF DeserializeResponse
  <2> HIDE DEF result, error
  <2>11. DeserializeResponse(in) = m
    BY <1>1, <2>5, <2>6, <2>9, <2>10 DEF RpcResponse, a, b
  <2> QED  BY <1>12, <2>2, <2>11 DEF half, in
<1> QED  BY <1>11, <1>12

-----------------------------------------------------------------------------
(* Base64 *)

\* What one of the 64 characters stands for.
Sixbit == {v \in Nat : v < 64}

\* Four characters give back the three bytes they were made of.
LEMMA GroupRoundTrip ==
  ASSUME NEW b0 \in Byte, NEW b1 \in Byte, NEW b2 \in Byte
  PROVE  LET v0 == b0 \div 4
             v1 == (b0 % 4) * 16 + b1 \div 16
             v2 == (b1 % 16) * 4 + b2 \div 64
             v3 == b2 % 64
         IN  /\ v0 \in Sixbit /\ v1 \in Sixbit /\ v2 \in Sixbit /\ v3 \in Sixbit
             /\ (v0 * 4 + ((v1 \div 16) % 4)) % 256 = b0
             /\ ((v1 % 16) * 16 + ((v2 \div 4) % 16)) % 256 = b1
             /\ ((v2 % 4) * 64 + v3) % 256 = b2
<1> DEFINE v0 == b0 \div 4
           v1 == (b0 % 4) * 16 + b1 \div 16
           v2 == (b1 % 16) * 4 + b2 \div 64
           v3 == b2 % 64
<1>1. /\ b0 \in Nat /\ b0 < 256 /\ b1 \in Nat /\ b1 < 256 /\ b2 \in Nat /\ b2 < 256
  BY DEF Byte
<1>2. v0 \in Sixbit /\ v3 \in Sixbit  BY SMT, <1>1 DEF Sixbit
<1>3. v1 \in Sixbit /\ v1 \div 16 = b0 % 4 /\ v1 % 16 = b1 \div 16  BY SMT, <1>1 DEF Sixbit
<1>4. v2 \in Sixbit /\ v2 \div 4 = b1 % 16 /\ v2 % 4 = b2 \div 64  BY SMT, <1>1 DEF Sixbit
<1> HIDE DEF v1, v2
<1>5. (v0 * 4 + ((v1 \div 16) % 4)) % 256 = b0  BY SMT, <1>1, <1>3
<1>6. ((v1 % 16) * 16 + ((v2 \div 4) % 16)) % 256 = b1  BY SMT, <1>1, <1>3, <1>4
<1>7. ((v2 % 4) * 64 + v3) % 256 = b2
  <2>1. (b2 \div 64) * 64 + (b2 % 64) = b2  BY SMT, <1>1
  <2>2. b2 % 256 = b2  BY SMT, <1>1
  <2> QED  BY <1>4, <2>1, <2>2, Zenon
<1> QED  BY <1>2, <1>3, <1>4, <1>5, <1>6, <1>7, Zenon DEF v1, v2

\* The number of characters before the first '='.
CharCount(s) == (4 * Len(s) + 2) \div 3

\* How many characters of the Base64 text are not '=', and which.
LEMMA CharCounts ==
  ASSUME NEW s \in Seq(Byte)
  PROVE  LET c == CharCount(s)
             e == 4 * ((Len(s) + 2) \div 3)
         IN  /\ c \in Nat /\ e \in Nat /\ c <= e
             /\ 3 * (c \div 4) + (IF c % 4 = 0 THEN 0 ELSE (c % 4) - 1) = Len(s)
             /\ \A j \in 0 .. e - 1 : 3 * (j \div 4) + (j % 4) > Len(s) <=> j >= c
             /\ \A i \in 0 .. Len(s) - 1 : 4 * (i \div 3) + (i % 3) + 1 < c
<1> DEFINE n == Len(s)
<1>1. n \in Nat  OBVIOUS
<1> HIDE DEF n
<1> DEFINE c == (4 * n + 2) \div 3
           e == 4 * ((n + 2) \div 3)
<1>2. c \in Nat /\ e \in Nat /\ c <= e  BY SMT, <1>1
<1>3. 3 * (c \div 4) + (IF c % 4 = 0 THEN 0 ELSE (c % 4) - 1) = n  BY SMT, <1>1
<1>4. \A j \in 0 .. e - 1 : 3 * (j \div 4) + (j % 4) > n <=> j >= c  BY SMT, <1>1
<1>5. \A i \in 0 .. n - 1 : 4 * (i \div 3) + (i % 3) + 1 < c  BY SMT, <1>1
<1> HIDE DEF c, e
<1> QED  BY <1>2, <1>3, <1>4, <1>5, Zenon DEF n, c, e, CharCount

\* What is past the end of the input of Base64 counts as zero.
LEMMA AtType ==
  ASSUME NEW s \in Seq(Byte), NEW i \in Nat
  PROVE  At(s, i, 0) \in Byte
<1>1. Len(s) \in Nat /\ 0 \in Byte  BY DEF Byte
<1>2. CASE i < Len(s)
  <2>1. i + 1 \in 1 .. Len(s)  BY <1>1, <1>2
  <2> QED  BY <1>2, <2>1, ElementOfSeq DEF At
<1>3. CASE ~(i < Len(s))  BY <1>1, <1>3 DEF At
<1> QED  BY <1>2, <1>3

\* The characters of a group, one by one.
LEMMA SextetIs ==
  ASSUME NEW s \in Seq(Byte), NEW j \in Nat
  PROVE  LET g  == 3 * (j \div 4)
             b0 == At(s, g, 0)
             b1 == At(s, g + 1, 0)
             b2 == At(s, g + 2, 0)
         IN  /\ g + (j % 4) > Len(s) => Sextet(s, j) = Pad
             /\ ~(g + (j % 4) > Len(s)) =>
                  /\ j % 4 = 0 => Sextet(s, j) = b0 \div 4
                  /\ j % 4 = 1 => Sextet(s, j) = (b0 % 4) * 16 + b1 \div 16
                  /\ j % 4 = 2 => Sextet(s, j) = (b1 % 16) * 4 + b2 \div 64
                  /\ j % 4 = 3 => Sextet(s, j) = b2 % 64
  BY SMT DEF Sextet

\* A character is one of 64, or '=' past the end of the input.
LEMMA SextetRange ==
  ASSUME NEW s \in Seq(Byte), NEW j \in Nat
  PROVE  /\ Sextet(s, j) \in 0 .. 64
         /\ Sextet(s, j) = Pad <=> 3 * (j \div 4) + (j % 4) > Len(s)
<1> DEFINE g  == 3 * (j \div 4)
           b0 == At(s, g, 0)
           b1 == At(s, g + 1, 0)
           b2 == At(s, g + 2, 0)
<1>1. g \in Nat /\ g + 1 \in Nat /\ g + 2 \in Nat /\ j % 4 \in 0 .. 3  OBVIOUS
<1> HIDE DEF g
<1>2. b0 \in Byte /\ b1 \in Byte /\ b2 \in Byte  BY <1>1, AtType
<1> HIDE DEF b0, b1, b2
<1>3. CASE g + (j % 4) > Len(s)
  <2>1. Sextet(s, j) = Pad  BY <1>3, SextetIs DEF g
  <2> QED  BY <1>3, <2>1 DEF Pad, g
<1>4. CASE ~(g + (j % 4) > Len(s))
  <2>1. /\ j % 4 = 0 => Sextet(s, j) = b0 \div 4
        /\ j % 4 = 1 => Sextet(s, j) = (b0 % 4) * 16 + b1 \div 16
        /\ j % 4 = 2 => Sextet(s, j) = (b1 % 16) * 4 + b2 \div 64
        /\ j % 4 = 3 => Sextet(s, j) = b2 % 64
    BY <1>4, SextetIs, Zenon DEF g, b0, b1, b2
  <2>2. /\ b0 \div 4 \in Sixbit /\ (b0 % 4) * 16 + b1 \div 16 \in Sixbit
        /\ (b1 % 16) * 4 + b2 \div 64 \in Sixbit /\ b2 % 64 \in Sixbit
    BY SMT, <1>2, GroupRoundTrip
  <2>3. j % 4 = 0 \/ j % 4 = 1 \/ j % 4 = 2 \/ j % 4 = 3  BY <1>1
  <2>4. Sextet(s, j) \in Sixbit  BY <2>1, <2>2, <2>3, Zenon
  <2>5. \A v \in Sixbit : v \in 0 .. 64 /\ v # Pad  BY SMT DEF Pad, Sixbit
  <2> QED  BY <1>4, <2>4, <2>5, Zenon DEF g
<1> QED  BY <1>3, <1>4 DEF g

\* The Base64 text has four characters for every three bytes begun.
LEMMA EncodedType ==
  ASSUME NEW s \in Seq(Byte)
  PROVE  /\ Base64Encode(s) \in Seq(Byte)
         /\ Len(Base64Encode(s)) = 4 * ((Len(s) + 2) \div 3)
         /\ \A n \in 1 .. Len(Base64Encode(s)) : Base64Encode(s)[n] = Sextet(s, n - 1)
<1> DEFINE e == 4 * ((Len(s) + 2) \div 3)
           f == Base64Encode(s)
<1>1. e \in Nat  BY SMT
<1>2. f = [n \in 1 .. e |-> Sextet(s, n - 1)]  BY DEF Base64Encode
<1> HIDE DEF e, f
<1>3. f = [n \in 1 .. e |-> f[n]]  BY <1>2
<1>4. \A n \in 1 .. e : f[n] \in Byte
  <2> TAKE n \in 1 .. e
  <2>1. n - 1 \in Nat /\ f[n] = Sextet(s, n - 1)  BY <1>1, <1>2
  <2>2. Sextet(s, n - 1) \in 0 .. 64  BY <2>1, SextetRange
  <2> QED  BY <2>1, <2>2 DEF Byte
<1>5. f \in Seq(Byte) /\ Len(f) = e  BY <1>1, <1>3, <1>4, IndexedIsSeq
<1> QED  BY <1>2, <1>5 DEF e, f

\* Decoding finds the characters before the padding, as they were put there.
LEMMA UnpaddedIs ==
  ASSUME NEW s \in Seq(Byte)
  PROVE  LET c == Unpadded(Base64Encode(s)) IN
         /\ Len(c) = CharCount(s)
         /\ \A n \in 1 .. CharCount(s) : c[n] = Sextet(s, n - 1)
<1> DEFINE e == Base64Encode(s)
           k == CharCount(s)
           l == Len(e)
           pads == {n \in 1 .. l : e[n] = Pad}
<1>1. /\ e \in Seq(Byte) /\ l \in Nat /\ l = 4 * ((Len(s) + 2) \div 3)
      /\ \A n \in 1 .. l : e[n] = Sextet(s, n - 1)
  BY EncodedType
<1>2. /\ k \in Nat /\ k <= l
      /\ \A j \in 0 .. l - 1 : 3 * (j \div 4) + (j % 4) > Len(s) <=> j >= k
  BY <1>1, CharCounts, Zenon
<1>3. Unpadded(e) = IF pads = {} THEN e ELSE SubSeq(e, 1, Min(pads) - 1)
  BY DEF Unpadded
<1> HIDE DEF e, k, l
<1>4. \A n \in 1 .. l : n \in pads <=> n > k
  <2> TAKE n \in 1 .. l
  <2> DEFINE j == n - 1
  <2>1. j \in 0 .. l - 1 /\ j \in Nat /\ (n > k <=> j >= k)  BY <1>1, <1>2
  <2> HIDE DEF j
  <2>2. Sextet(s, j) = Pad <=> j >= k  BY <1>2, <2>1, SextetRange, Zenon
  <2>3. e[n] = Sextet(s, j)  BY <1>1, Zenon DEF j
  <2> QED  BY <2>1, <2>2, <2>3
<1>5. CASE k = l
  <2>1. pads = {}  BY <1>1, <1>2, <1>4, <1>5
  <2> HIDE DEF pads
  <2>2. Unpadded(e) = e  BY <1>3, <2>1
  <2> QED  BY <1>1, <1>5, <2>2, Zenon DEF e, k, l
<1>6. CASE k # l
  <2>1. k + 1 \in pads /\ \A n \in pads : k + 1 <= n  BY <1>1, <1>2, <1>4, <1>6
  <2>2. \A n \in pads : n \in Int  BY <1>1
  <2> HIDE DEF pads
  <2>3. Min(pads) = k + 1
    <3>1. \A x \in pads : (\A n \in pads : x <= n) => x = k + 1
      BY <1>2, <2>1, <2>2
    <3> QED  BY <2>1, <3>1, Zenon DEF Min
  <2>4. Unpadded(e) = SubSeq(e, 1, k)
    <3>1. pads # {} /\ Min(pads) - 1 = k  BY <1>2, <2>1, <2>3
    <3> QED  BY <1>3, <3>1
  <2>5. \A n \in 1 .. k : e[n] \in Byte
    <3> TAKE n \in 1 .. k
    <3>1. n \in 1 .. l  BY <1>1, <1>2
    <3> QED  BY <1>1, <3>1, ElementOfSeq DEF l
  <2>6. Len(SubSeq(e, 1, k)) = k /\ \A n \in 1 .. k : SubSeq(e, 1, k)[n] = e[n]
    BY <1>2, <2>5, SubSeqProperties
  <2>7. \A n \in 1 .. k : n \in 1 .. l  BY <1>1, <1>2
  <2> QED  BY <1>1, <2>4, <2>6, <2>7, Zenon DEF e, k
<1> QED  BY <1>5, <1>6

\* One byte of what is decoded, from the characters of its group.
LEMMA OctetIs ==
  ASSUME NEW c, NEW i \in Nat
  PROVE  LET g  == 4 * (i \div 3)
             v0 == At(c, g, Invalid)
             v1 == At(c, g + 1, Invalid)
             v2 == At(c, g + 2, Invalid)
             v3 == At(c, g + 3, Invalid)
         IN  /\ i % 3 = 0 => Octet(c, i) = (v0 * 4 + ((v1 \div 16) % 4)) % 256
             /\ i % 3 = 1 => Octet(c, i) = ((v1 % 16) * 16 + ((v2 \div 4) % 16)) % 256
             /\ i % 3 = 2 => Octet(c, i) = ((v2 % 4) * 64 + v3) % 256
  BY SMT DEF Octet

\* Each byte comes back from the characters that hold its bits.
LEMMA OctetRoundTrip ==
  ASSUME NEW s \in Seq(Byte), NEW c,
         Len(c) = CharCount(s), \A n \in 1 .. CharCount(s) : c[n] = Sextet(s, n - 1),
         NEW i \in 0 .. Len(s) - 1
  PROVE  Octet(c, i) = s[i + 1]
<1> DEFINE p == i \div 3
           g == 4 * p
           b0 == At(s, 3 * p, 0)
           b1 == At(s, 3 * p + 1, 0)
           b2 == At(s, 3 * p + 2, 0)
           k == CharCount(s)
<1>1. /\ Len(s) \in Nat /\ i \in Nat /\ p \in Nat /\ i = 3 * p + (i % 3) /\ i % 3 \in 0 .. 2
      /\ k \in Nat /\ g + (i % 3) + 1 < k
  <2>1. Len(s) \in Nat /\ i \in Nat  OBVIOUS
  <2>2. p \in Nat /\ i = 3 * p + (i % 3) /\ i % 3 \in 0 .. 2  BY SMT, <2>1
  <2>3. k \in Nat /\ g + (i % 3) + 1 < k  BY CharCounts, Zenon
  <2> QED  BY <2>1, <2>2, <2>3
<1> HIDE DEF p, k
<1>2. b0 \in Byte /\ b1 \in Byte /\ b2 \in Byte
  <2>1. 3 * p \in Nat /\ 3 * p + 1 \in Nat /\ 3 * p + 2 \in Nat  BY <1>1
  <2> QED  BY <2>1, AtType
<1>3. \A m \in 0 .. 3 : m <= (i % 3) + 1 =>
        /\ At(c, g + m, Invalid) = Sextet(s, g + m)
        /\ (g + m) \div 4 = p /\ (g + m) % 4 = m
        /\ ~(3 * p + m > Len(s))
  <2> TAKE m \in 0 .. 3
  <2> HAVE m <= (i % 3) + 1
  <2>1. g + m \in Nat /\ g + m < k /\ (g + m) + 1 \in 1 .. k /\ ((g + m) + 1) - 1 = g + m  BY <1>1
  <2>2. c[(g + m) + 1] = Sextet(s, g + m)
    <3> DEFINE n == (g + m) + 1
    <3>1. n \in 1 .. k /\ n - 1 = g + m  BY <2>1
    <3> HIDE DEF n
    <3>2. c[n] = Sextet(s, n - 1)  BY <3>1 DEF k
    <3> QED  BY <3>1, <3>2 DEF n
  <2>3. At(c, g + m, Invalid) = Sextet(s, g + m)  BY <2>1, <2>2, Zenon DEF At, k
  <2>4. (g + m) \div 4 = p /\ (g + m) % 4 = m  BY SMT, <1>1
  <2>5. ~(3 * p + m > Len(s))  BY <1>1
  <2> QED  BY <2>3, <2>4, <2>5
<1>4. \A m \in 0 .. 3 : m <= (i % 3) + 1 =>
        /\ m = 0 => At(c, g + m, Invalid) = b0 \div 4
        /\ m = 1 => At(c, g + m, Invalid) = (b0 % 4) * 16 + b1 \div 16
        /\ m = 2 => At(c, g + m, Invalid) = (b1 % 16) * 4 + b2 \div 64
        /\ m = 3 => At(c, g + m, Invalid) = b2 % 64
  <2> TAKE m \in 0 .. 3
  <2> HAVE m <= (i % 3) + 1
  <2> DEFINE j == g + m
  <2>1. /\ At(c, j, Invalid) = Sextet(s, j) /\ j \div 4 = p /\ j % 4 = m /\ ~(3 * p + m > Len(s))
    BY <1>3
  <2>2. j \in Nat  BY <1>1
  <2> HIDE DEF j
  <2>3. /\ m = 0 => Sextet(s, j) = b0 \div 4
        /\ m = 1 => Sextet(s, j) = (b0 % 4) * 16 + b1 \div 16
        /\ m = 2 => Sextet(s, j) = (b1 % 16) * 4 + b2 \div 64
        /\ m = 3 => Sextet(s, j) = b2 % 64
    <3>1. ~(3 * (j \div 4) + (j % 4) > Len(s))  BY <2>1
    <3>2. /\ j % 4 = 0 => Sextet(s, j) = At(s, 3 * (j \div 4), 0) \div 4
          /\ j % 4 = 1 => Sextet(s, j) = (At(s, 3 * (j \div 4), 0) % 4) * 16
                                           + At(s, 3 * (j \div 4) + 1, 0) \div 16
          /\ j % 4 = 2 => Sextet(s, j) = (At(s, 3 * (j \div 4) + 1, 0) % 16) * 4
                                           + At(s, 3 * (j \div 4) + 2, 0) \div 64
          /\ j % 4 = 3 => Sextet(s, j) = At(s, 3 * (j \div 4) + 2, 0) % 64
      BY <2>2, <3>1, SextetIs, Zenon
    <3> QED  BY <2>1, <3>2, Zenon
  <2> QED  BY <2>1, <2>3, Zenon DEF j
<1>5. /\ ((b0 \div 4) * 4 + ((((b0 % 4) * 16 + b1 \div 16) \div 16) % 4)) % 256 = b0
      /\ ((((b0 % 4) * 16 + b1 \div 16) % 16) * 16 + ((((b1 % 16) * 4 + b2 \div 64) \div 4) % 16)) % 256 = b1
      /\ ((((b1 % 16) * 4 + b2 \div 64) % 4) * 64 + (b2 % 64)) % 256 = b2
  BY SMT, <1>2, GroupRoundTrip
<1>6. g + 0 = g  BY <1>1
<1> DEFINE v0 == At(c, g, Invalid)
           v1 == At(c, g + 1, Invalid)
           v2 == At(c, g + 2, Invalid)
           v3 == At(c, g + 3, Invalid)
<1>7. /\ i % 3 = 0 => Octet(c, i) = (v0 * 4 + ((v1 \div 16) % 4)) % 256
      /\ i % 3 = 1 => Octet(c, i) = ((v1 % 16) * 16 + ((v2 \div 4) % 16)) % 256
      /\ i % 3 = 2 => Octet(c, i) = ((v2 % 4) * 64 + v3) % 256
  <2> DEFINE w(m) == At(c, 4 * (i \div 3) + m, Invalid)
             w0 == At(c, 4 * (i \div 3), Invalid)
  <2>1. /\ i % 3 = 0 => Octet(c, i) = (w0 * 4 + ((w(1) \div 16) % 4)) % 256
        /\ i % 3 = 1 => Octet(c, i) = ((w(1) % 16) * 16 + ((w(2) \div 4) % 16)) % 256
        /\ i % 3 = 2 => Octet(c, i) = ((w(2) % 4) * 64 + w(3)) % 256
    <3>1. i \in Nat  BY <1>1
    <3>2. i % 3 = 0 => Octet(c, i) = (w0 * 4 + ((w(1) \div 16) % 4)) % 256
      BY <3>1, OctetIs, ZenonT(30)
    <3>3. i % 3 = 1 => Octet(c, i) = ((w(1) % 16) * 16 + ((w(2) \div 4) % 16)) % 256
      BY <3>1, OctetIs, ZenonT(30)
    <3>4. i % 3 = 2 => Octet(c, i) = ((w(2) % 4) * 64 + w(3)) % 256
      BY <3>1, OctetIs, ZenonT(30)
    <3> QED  BY <3>2, <3>3, <3>4, Zenon
  <2>2. w0 = v0 /\ w(1) = v1 /\ w(2) = v2 /\ w(3) = v3  BY Zenon DEF p
  <2> HIDE DEF w, w0, v0, v1, v2, v3
  <2> QED  BY <2>1, <2>2
<1>8. CASE i % 3 = 0
  <2>1. At(c, g, Invalid) = b0 \div 4 /\ At(c, g + 1, Invalid) = (b0 % 4) * 16 + b1 \div 16
    BY <1>4, <1>6, <1>8
  <2>2. Octet(c, i) = b0  BY <1>5, <1>8, <1>7, <2>1, Zenon
  <2>3. 3 * p < Len(s) /\ i = 3 * p  BY <1>1, <1>8
  <2> QED  BY <2>2, <2>3, Zenon DEF At
<1>9. CASE i % 3 = 1
  <2>1. /\ At(c, g + 1, Invalid) = (b0 % 4) * 16 + b1 \div 16
        /\ At(c, g + 2, Invalid) = (b1 % 16) * 4 + b2 \div 64
    BY <1>4, <1>9
  <2>2. Octet(c, i) = b1  BY <1>5, <1>9, <1>7, <2>1, Zenon
  <2>3. 3 * p + 1 < Len(s) /\ i = 3 * p + 1  BY <1>1, <1>9
  <2> QED  BY <2>2, <2>3, Zenon DEF At
<1>10. CASE i % 3 = 2
  <2>1. At(c, g + 2, Invalid) = (b1 % 16) * 4 + b2 \div 64 /\ At(c, g + 3, Invalid) = b2 % 64
    BY <1>4, <1>10
  <2>2. Octet(c, i) = b2
    <3>1. Octet(c, i) = ((v2 % 4) * 64 + v3) % 256  BY <1>10, <1>7
    <3> QED  BY <1>5, <2>1, <3>1, Zenon
  <2>3. 3 * p + 2 < Len(s) /\ i = 3 * p + 2  BY <1>1, <1>10
  <2> QED  BY <2>2, <2>3, Zenon DEF At
<1> QED  BY <1>1, <1>8, <1>9, <1>10

\* Base64 is undone for every string of bytes, of any length (Base64Decode).
THEOREM Base64RoundTrip ==
  ASSUME NEW s \in Seq(Byte)
  PROVE  Base64Decode(Base64Encode(s)) = s
<1> DEFINE c == Unpadded(Base64Encode(s))
           k == CharCount(s)
           l == 3 * (Len(c) \div 4) + (IF Len(c) % 4 = 0 THEN 0 ELSE (Len(c) % 4) - 1)
<1>1. Len(c) = k /\ \A n \in 1 .. k : c[n] = Sextet(s, n - 1)  BY UnpaddedIs, Zenon
<1>2. l = Len(s)
  <2>1. 3 * (k \div 4) + (IF k % 4 = 0 THEN 0 ELSE (k % 4) - 1) = Len(s)  BY CharCounts, Zenon
  <2> HIDE DEF c, k
  <2> QED  BY <1>1, <2>1
<1>3. Base64Decode(Base64Encode(s)) = [n \in 1 .. l |-> Octet(c, n - 1)]
  BY Zenon DEF Base64Decode
<1> HIDE DEF c, k, l
<1>4. \A n \in 1 .. Len(s) : Octet(c, n - 1) = s[n]
  <2> TAKE n \in 1 .. Len(s)
  <2> DEFINE i == n - 1
  <2>1. i \in 0 .. Len(s) - 1 /\ i + 1 = n  OBVIOUS
  <2> HIDE DEF i
  <2>2. Octet(c, i) = s[i + 1]  BY <1>1, <2>1, OctetRoundTrip DEF k
  <2> QED  BY <2>1, <2>2 DEF i
<1>5. s = [n \in 1 .. Len(s) |-> s[n]]  BY LenProperties
<1>6. [n \in 1 .. Len(s) |-> Octet(c, n - 1)] = [n \in 1 .. Len(s) |-> s[n]]  BY <1>4
<1> QED  BY <1>2, <1>3, <1>5, <1>6

-----------------------------------------------------------------------------
(* The cipher *)

\* The key is read inside its length, as often as it repeats.
LEMMA KeyAtType ==
  ASSUME NEW key \in Seq(Byte), key # <<>>, NEW i \in Nat
  PROVE  KeyAt(key, i) \in Byte
<1> DEFINE l == Len(key)
<1>1. l \in Nat \ {0}  BY EmptySeq
<1> HIDE DEF l
<1>2. (i % l) + 1 \in 1 .. l  BY <1>1
<1> QED  BY <1>2, ElementOfSeq DEF KeyAt, l

\* The shift keeps the length.
LEMMA ShiftEncryptType ==
  ASSUME NEW s \in Seq(Byte), NEW key \in Seq(Byte), key # <<>>
  PROVE  ShiftEncrypt(s, key) \in Seq(Byte) /\ Len(ShiftEncrypt(s, key)) = Len(s)
<1> DEFINE l == Len(s)
           f == ShiftEncrypt(s, key)
<1>1. l \in Nat  OBVIOUS
<1>2. f = [n \in 1 .. l |-> (s[n] + KeyAt(key, n - 1) + ((n - 1) % 256)) % 256]
  BY DEF ShiftEncrypt
<1> HIDE DEF l, f
<1>3. \A n \in 1 .. l : f[n] \in Byte
  <2> TAKE n \in 1 .. l
  <2> DEFINE k == KeyAt(key, n - 1)
  <2>1. n - 1 \in Nat  BY <1>1
  <2>2. k \in Byte  BY <2>1, KeyAtType
  <2>3. s[n] \in Byte  BY ElementOfSeq DEF l
  <2>4. f[n] = (s[n] + k + ((n - 1) % 256)) % 256  BY <1>2
  <2> DEFINE x == s[n] + k + ((n - 1) % 256)
  <2>5. x \in Nat
    <3> HIDE DEF k
    <3>1. (n - 1) % 256 \in Nat  BY SMT, <2>1
    <3>2. \A b \in Byte : b \in Nat  BY SMT DEF Byte
    <3>3. k \in Nat /\ s[n] \in Nat  BY <2>2, <2>3, <3>2, Zenon
    <3> QED  BY <3>1, <3>3
  <2> HIDE DEF x
  <2>6. x % 256 \in Byte  BY SMT, <2>5 DEF Byte
  <2> QED  BY <2>4, <2>6, Zenon DEF x
<1>4. f = [n \in 1 .. l |-> f[n]]  BY <1>2
<1> QED  BY <1>1, <1>3, <1>4, IndexedIsSeq DEF l, f

\* The shift is undone with the same key.
LEMMA ShiftRoundTrip ==
  ASSUME NEW s \in Seq(Byte), NEW key \in Seq(Byte), key # <<>>
  PROVE  ShiftDecrypt(ShiftEncrypt(s, key), key) = s
<1> DEFINE l == Len(s)
           f == ShiftEncrypt(s, key)
<1>1. l \in Nat  OBVIOUS
<1>2. \A n \in 1 .. l : f[n] = (s[n] + KeyAt(key, n - 1) + ((n - 1) % 256)) % 256
  BY DEF ShiftEncrypt
<1>3. Len(f) = l  BY ShiftEncryptType
<1>4. ShiftDecrypt(f, key) =
        [n \in 1 .. Len(f) |-> (f[n] - KeyAt(key, n - 1) - ((n - 1) % 256) + 512) % 256]
  BY DEF ShiftDecrypt
<1> HIDE DEF f
<1>5. \A n \in 1 .. l : (f[n] - KeyAt(key, n - 1) - ((n - 1) % 256) + 512) % 256 = s[n]
  <2> TAKE n \in 1 .. l
  <2> DEFINE k == KeyAt(key, n - 1)
             p == (n - 1) % 256
             b == s[n]
             e == f[n]
  <2>1. n - 1 \in Nat  BY <1>1
  <2>2. k \in Byte  BY <2>1, KeyAtType
  <2>3. b \in Byte  BY ElementOfSeq
  <2>4. p \in Byte  BY SMT, <2>1 DEF Byte
  <2>5. e = (b + k + p) % 256  BY <1>2
  <2> HIDE DEF k, p, b, e
  <2>6. (e - k - p + 512) % 256 = b
    <3> DEFINE x == b + k + p
               q == x \div 256
    <3>1. /\ b \in Nat /\ b < 256 /\ k \in Nat /\ k < 256 /\ p \in Nat /\ p < 256
      BY SMT, <2>2, <2>3, <2>4 DEF Byte
    <3>2. x \in Nat /\ x < 768  BY <3>1
    <3> HIDE DEF x
    <3>3. q \in {0, 1, 2} /\ x = 256 * q + (x % 256)  BY SMT, <3>2
    <3> HIDE DEF q
    <3>4. e - k - p + 512 = b + 512 - 256 * q /\ e \in Int  BY SMT, <2>5, <3>1, <3>2, <3>3 DEF x
    <3>5. (b + 512 - 256 * q) % 256 = b
      <4>1. (b + 512) % 256 = b /\ (b + 256) % 256 = b /\ b % 256 = b  BY SMT, <3>1
      <4>2. /\ q = 0 => b + 512 - 256 * q = b + 512
            /\ q = 1 => b + 512 - 256 * q = b + 256
            /\ q = 2 => b + 512 - 256 * q = b
        BY SMT, <3>1
      <4>3. CASE q = 0  BY <4>1, <4>2, <4>3
      <4>4. CASE q = 1  BY <4>1, <4>2, <4>4
      <4>5. CASE q = 2  BY <4>1, <4>2, <4>5
      <4> QED  BY <3>3, <4>3, <4>4, <4>5
    <3> QED  BY <3>4, <3>5, Zenon
  <2> QED  BY <2>6 DEF k, p, b, e
<1>6. [n \in 1 .. l |-> (f[n] - KeyAt(key, n - 1) - ((n - 1) % 256) + 512) % 256] = [n \in 1 .. l |-> s[n]]
  BY <1>5
<1>7. s = [n \in 1 .. l |-> s[n]]  BY LenProperties
<1> HIDE DEF l
<1> QED  BY <1>3, <1>4, <1>6, <1>7 DEF f

\* A session key is as long as the frame's layout says (GenerateRandomBytes).
SessionKey == {k \in Seq(Byte) : Len(k) = KEY_LENGTH}

\* The ciphertext is the Base64 of the session key and the message.
LEMMA EncryptType ==
  ASSUME NEW d \in Seq(Byte), d # <<>>, NEW k \in SessionKey
  PROVE  /\ Encrypt(d, k) \in Seq(Byte)
         /\ Len(Encrypt(d, k)) = 4 * ((KEY_LENGTH + Len(d) + 2) \div 3)
<1> DEFINE a == ShiftEncrypt(k, master_key_)
           b == ShiftEncrypt(d, k)
<1>1. KEY_LENGTH \in Nat \ {0} /\ master_key_ \in Seq(Byte) /\ master_key_ # <<>>
  BY KeyAssumption
<1>2. k \in Seq(Byte) /\ Len(k) = KEY_LENGTH  BY DEF SessionKey
<1>3. k # <<>>
  <2>1. Len(<<>>) = 0  BY EmptySeq
  <2> QED  BY <1>1, <1>2, <2>1
<1>4. a \in Seq(Byte) /\ Len(a) = KEY_LENGTH  BY <1>1, <1>2, ShiftEncryptType
<1>5. b \in Seq(Byte) /\ Len(b) = Len(d)  BY <1>2, <1>3, ShiftEncryptType
<1>6. Encrypt(d, k) = Base64Encode(a \o b)  BY DEF Encrypt
<1> HIDE DEF a, b
<1>7. a \o b \in Seq(Byte) /\ Len(a \o b) = Len(a) + Len(b)  BY <1>4, <1>5, ConcatProperties
<1> QED  BY <1>4, <1>5, <1>6, <1>7, EncodedType

\* The receiver finds the session key and with it the data, whatever the key is
\* (AesEncrypt::Decrypt).
THEOREM CipherRoundTrip ==
  ASSUME NEW d \in Seq(Byte), d # <<>>, NEW k \in SessionKey
  PROVE  Decrypt(Encrypt(d, k)) = d
<1> DEFINE a == ShiftEncrypt(k, master_key_)
           b == ShiftEncrypt(d, k)
           in == a \o b
<1>1. KEY_LENGTH \in Nat \ {0} /\ master_key_ \in Seq(Byte) /\ master_key_ # <<>>
  BY KeyAssumption
<1>2. k \in Seq(Byte) /\ Len(k) = KEY_LENGTH  BY DEF SessionKey
<1>3. k # <<>>
  <2>1. Len(<<>>) = 0  BY EmptySeq
  <2> QED  BY <1>1, <1>2, <2>1
<1>4. a \in Seq(Byte) /\ Len(a) = KEY_LENGTH /\ ShiftDecrypt(a, master_key_) = k
  BY <1>1, <1>2, ShiftEncryptType, ShiftRoundTrip
<1>5. b \in Seq(Byte) /\ Len(b) = Len(d) /\ ShiftDecrypt(b, k) = d
  BY <1>2, <1>3, ShiftEncryptType, ShiftRoundTrip
<1>6. Encrypt(d, k) = Base64Encode(in)  BY DEF Encrypt
<1> HIDE DEF a, b
<1>7. in \in Seq(Byte) /\ Len(in) = Len(a) + Len(b) /\ OccursAt(in, in, 0)
  BY <1>4, <1>5, ConcatProperties, OccursInItself
<1>8. OccursAt(a, in, 0) /\ OccursAt(b, in, 0 + Len(a))  BY <1>4, <1>5, <1>7, OccursHalves
<1>9. Base64Decode(Encrypt(d, k)) = in  BY <1>6, <1>7, Base64RoundTrip
<1> HIDE DEF in
<1>10. Len(d) \in Nat /\ Len(d) # 0  BY EmptySeq
<1>11. 0 + Len(a) = KEY_LENGTH /\ 0 + 1 = 1 /\ Len(in) = KEY_LENGTH + Len(b)
  BY <1>1, <1>4, <1>7
<1>12. SubSeq(in, 1, KEY_LENGTH) = a
  <2>1. SubSeq(in, 0 + 1, 0 + Len(a)) = a  BY <1>4, <1>7, <1>8, OccursIsSubSeq
  <2> QED  BY <1>11, <2>1
<1>13. SubSeq(in, KEY_LENGTH + 1, Len(in)) = b
  <2>1. OccursAt(b, in, KEY_LENGTH)  BY <1>8, <1>11
  <2>2. SubSeq(in, KEY_LENGTH + 1, KEY_LENGTH + Len(b)) = b  BY <1>5, <1>7, <2>1, OccursIsSubSeq
  <2> QED  BY <1>11, <2>2
<1>14. ~(Len(in) <= KEY_LENGTH)  BY <1>1, <1>5, <1>10, <1>11
<1> QED  BY <1>4, <1>5, <1>9, <1>12, <1>13, <1>14, Zenon DEF Decrypt

-----------------------------------------------------------------------------
(* Compression and frames *)

\* What stands for a compressed message is five bytes longer than it.
LEMMA CompressType ==
  ASSUME NEW d \in Seq(Byte), d # <<>>
  PROVE  LET z == CompressString(d) IN
         z \in Seq(Byte) /\ Len(z) = 5 + Len(d) /\ z # <<>>
<1> DEFINE m == <<ZSTD_MAGIC>>
           w == Word(Len(d))
           z == (m \o w) \o d
<1>1. Len(d) \in Nat  OBVIOUS
<1>2. m \in Seq(Byte) /\ Len(m) = 1  BY DEF ZSTD_MAGIC, Byte
<1>3. w \in Seq(Byte) /\ Len(w) = 4  BY <1>1, WordType
<1>4. z = CompressString(d)  BY Zenon DEF CompressString, ZSTD_compress
<1> HIDE DEF m, w
<1>5. m \o w \in Seq(Byte) /\ Len(m \o w) = 5
  <2>1. m \o w \in Seq(Byte) /\ Len(m \o w) = Len(m) + Len(w)  BY <1>2, <1>3, ConcatProperties
  <2> QED  BY <1>2, <1>3, <2>1
<1>6. z \in Seq(Byte) /\ Len(z) = Len(m \o w) + Len(d)  BY <1>5, ConcatProperties
<1> HIDE DEF z
<1>7. Len(z) = 5 + Len(d) /\ Len(z) # 0  BY <1>1, <1>5, <1>6
<1>8. z # <<>>
  <2>1. Len(<<>>) = 0  BY EmptySeq
  <2> QED  BY <1>7, <2>1
<1> QED  BY <1>4, <1>6, <1>7, <1>8

\* The size that the envelope states is the size of what is in it
\* (ZstdCompress::DecompressString).
LEMMA CompressRoundTrip ==
  ASSUME NEW d \in Seq(Byte), d # <<>>, Len(d) \in UInt32
  PROVE  DecompressString(CompressString(d)) = d
<1> DEFINE m == <<ZSTD_MAGIC>>
           w == Word(Len(d))
           z == CompressString(d)
<1>1. Len(d) \in Nat  OBVIOUS
<1>2. m \in Seq(Byte) /\ Len(m) = 1 /\ m[1] = ZSTD_MAGIC  BY DEF ZSTD_MAGIC, Byte
<1>3. w \in Seq(Byte) /\ Len(w) = 4  BY <1>1, WordType
<1>4. z = (m \o w) \o d  BY Zenon DEF CompressString, ZSTD_compress
<1>5. z \in Seq(Byte) /\ Len(z) = 5 + Len(d) /\ z # <<>>  BY CompressType, Zenon
<1> HIDE DEF m, w, z
<1>6. m \o w \in Seq(Byte) /\ Len(m \o w) = 5
  <2>1. m \o w \in Seq(Byte) /\ Len(m \o w) = Len(m) + Len(w)  BY <1>2, <1>3, ConcatProperties
  <2> QED  BY <1>2, <1>3, <2>1
<1>7. OccursAt(m \o w, z, 0) /\ OccursAt(d, z, 0 + 5)
  <2>1. OccursAt(z, z, 0)  BY <1>5, OccursInItself
  <2>2. OccursAt(m \o w, z, 0) /\ OccursAt(d, z, 0 + Len(m \o w))
    BY <1>4, <1>5, <1>6, <2>1, OccursHalves
  <2> QED  BY <1>6, <2>2
<1>8. OccursAt(m, z, 0) /\ OccursAt(w, z, 0 + 1)
  <2>1. OccursAt(m, z, 0) /\ OccursAt(w, z, 0 + Len(m))
    BY <1>2, <1>3, <1>5, <1>7, OccursHalves
  <2> QED  BY <1>2, <2>1
<1>9. 0 + 1 = 1 /\ 0 + 5 = 5 /\ 5 + 1 = 6  OBVIOUS
<1>10. z[1] = ZSTD_MAGIC
  <2>1. z[0 + 1] = m[1]  BY <1>2, <1>8 DEF OccursAt
  <2> QED  BY <1>2, <1>9, <2>1
<1>11. WordAt(z, 1) = Len(d)  BY <1>8, <1>9, WordOccurs DEF w
<1>12. SubSeq(z, 6, Len(z)) = d
  <2>1. OccursAt(d, z, 5)  BY <1>7, <1>9
  <2>2. SubSeq(z, 5 + 1, 5 + Len(d)) = d  BY <1>5, <2>1, OccursIsSubSeq
  <2> QED  BY <1>5, <1>9, <2>2
<1>13. ~(Len(z) < 5)  BY <1>1, <1>5
<1>14. ZSTD_getFrameContentSize(z) = Len(d)
  BY <1>10, <1>11, <1>13, Zenon DEF ZSTD_getFrameContentSize
<1>15. Len(d) # Failed  BY <1>1, FailureAssumption
<1>16. ZSTD_decompress(z, Len(d)) = d  BY <1>5, <1>12, Zenon DEF ZSTD_decompress
<1> QED  BY <1>5, <1>14, <1>15, <1>16, Zenon DEF DecompressString, z

\* The bytes of a frame, its length included.
FrameSize(d) == 4 + 4 * ((KEY_LENGTH + (5 + Len(d)) + 2) \div 3)

\* A length in network order is four bytes.
LEMMA NetWordType ==
  ASSUME NEW n \in Nat
  PROVE  NetWord(n) \in Seq(Byte) /\ Len(NetWord(n)) = 4
  BY SMT DEF NetWord, Word, Byte

\* Network order is undone as soon as four bytes are there.
LEMMA NetWordOccurs ==
  ASSUME NEW n \in UInt32, NEW in, OccursAt(NetWord(n), in, 0)
  PROVE  NetWordAt(in) = n
<1>1. n \in Nat  BY SMT DEF UInt32
<1>2. Len(NetWord(n)) = 4  BY <1>1, NetWordType
<1>3. in[1] = NetWord(n)[1] /\ in[2] = NetWord(n)[2] /\ in[3] = NetWord(n)[3] /\ in[4] = NetWord(n)[4]
  BY <1>2 DEF OccursAt
<1> DEFINE s == <<in[4], in[3], in[2], in[1]>>
<1>4. s[0 + 1] = Word(n)[1] /\ s[0 + 2] = Word(n)[2] /\ s[0 + 3] = Word(n)[3] /\ s[0 + 4] = Word(n)[4]
  BY <1>3 DEF NetWord
<1> HIDE DEF s
<1>5. \A i \in 1 .. 4 : s[0 + i] = Word(n)[i]  BY <1>4
<1>6. WordAt(s, 0) = n  BY <1>5, WordRoundTrip
<1> QED  BY <1>6, Zenon DEF NetWordAt, s

\* A frame is the length of the ciphertext and the ciphertext.
LEMMA FrameType ==
  ASSUME NEW d \in Seq(Byte), d # <<>>, NEW k \in SessionKey, FrameSize(d) \in UInt32
  PROVE  LET e == Encrypt(CompressString(d), k)
             frame == WriteFrame(d, k)
         IN  /\ e \in Seq(Byte) /\ frame \in Seq(Byte)
             /\ Len(frame) = FrameSize(d) /\ Len(e) = FrameSize(d) - 4
             /\ OccursAt(NetWord(Len(e)), frame, 0) /\ OccursAt(e, frame, 4)
             /\ Len(e) \in UInt32 /\ Len(e) \in Nat
<1> DEFINE z == CompressString(d)
           e == Encrypt(z, k)
           w == NetWord(Len(e))
           frame == w \o e
<1>1. z \in Seq(Byte) /\ Len(z) = 5 + Len(d) /\ z # <<>>  BY CompressType, Zenon
<1>2. frame = WriteFrame(d, k)  BY Zenon DEF WriteFrame
<1> HIDE DEF z
<1>3. e \in Seq(Byte) /\ Len(e) = 4 * ((KEY_LENGTH + Len(z) + 2) \div 3)  BY <1>1, EncryptType
<1> HIDE DEF e
<1>4. Len(e) \in Nat /\ FrameSize(d) = 4 + Len(e)  BY <1>1, <1>3 DEF FrameSize
<1>5. Len(e) \in UInt32  BY SMT, <1>4 DEF UInt32
<1>6. w \in Seq(Byte) /\ Len(w) = 4  BY <1>4, NetWordType
<1> HIDE DEF w
<1>7. frame \in Seq(Byte) /\ Len(frame) = Len(w) + Len(e)  BY <1>3, <1>6, ConcatProperties
<1>8. OccursAt(frame, frame, 0)  BY <1>7, OccursInItself
<1>9. OccursAt(w, frame, 0) /\ OccursAt(e, frame, 0 + Len(w))  BY <1>3, <1>6, <1>7, <1>8, OccursHalves
<1>10. 0 + Len(w) = 4 /\ Len(frame) = FrameSize(d) /\ Len(e) = FrameSize(d) - 4
  BY <1>4, <1>6, <1>7
<1> QED  BY <1>2, <1>3, <1>4, <1>5, <1>7, <1>9, <1>10, Zenon DEF z, e, w

\* What ExtractFrame() says when n bytes of the frame are there: the length is read
\* as soon as it is complete, and the frame is taken with its last byte.
LEMMA FrameLengthOfPrefix ==
  ASSUME NEW d \in Seq(Byte), d # <<>>, NEW k \in SessionKey, FrameSize(d) \in UInt32,
         NEW n \in 0 .. FrameSize(d)
  PROVE  FrameLength(SubSeq(WriteFrame(d, k), 1, n)) =
           IF n < 4 THEN 0
           ELSE IF FrameSize(d) - 4 > MAX_FRAME_SIZE THEN Failed
           ELSE IF n < FrameSize(d) THEN 0 ELSE FrameSize(d)
<1> DEFINE e == Encrypt(CompressString(d), k)
           frame == WriteFrame(d, k)
           half == SubSeq(frame, 1, n)
           size == FrameSize(d)
           w == NetWord(Len(e))
<1>1. /\ frame \in Seq(Byte) /\ Len(frame) = size /\ Len(e) = size - 4
      /\ OccursAt(w, frame, 0) /\ Len(e) \in UInt32 /\ Len(e) \in Nat
  BY FrameType, Zenon
<1>2. n \in 0 .. size  OBVIOUS
<1> HIDE DEF size
<1>3. size \in Nat
  <2>1. Len(frame) \in Nat  BY <1>1
  <2> QED  BY <1>1, <2>1
<1> HIDE DEF e, frame
<1>4. w \in Seq(Byte) /\ Len(w) = 4  BY <1>1, NetWordType
<1> HIDE DEF w
<1>5. Len(half) = n
  <2>1. \A i \in 1 .. n : frame[i] \in Byte
    <3> TAKE i \in 1 .. n
    <3>1. i \in 1 .. Len(frame)  BY <1>1, <1>2, <1>3
    <3> QED  BY <1>1, <3>1, ElementOfSeq
  <2> QED  BY <1>2, <1>3, <2>1, SubSeqProperties
<1> HIDE DEF half
<1>6. CASE n < 4
  <2>1. FrameLength(half) = 0  BY <1>5, <1>6, Zenon DEF FrameLength
  <2> QED  BY <1>6, <2>1 DEF half, frame, size
<1>7. CASE ~(n < 4)
  <2>1. NetWordAt(half) = size - 4
    <3>1. n \in 0 .. Len(frame) /\ 0 + Len(w) <= n  BY <1>1, <1>2, <1>3, <1>4, <1>7
    <3>2. OccursAt(w, half, 0)  BY <1>1, <1>4, <3>1, OccursInPrefix DEF half
    <3>3. NetWordAt(half) = Len(e)  BY <1>1, <3>2, NetWordOccurs DEF w
    <3> QED  BY <1>1, <3>3
  <2>2. 4 + (size - 4) = size  BY <1>3
  <2>3. FrameLength(half) = IF size - 4 > MAX_FRAME_SIZE THEN Failed
                            ELSE IF n < size THEN 0 ELSE size
    BY <1>5, <1>7, <2>1, <2>2, Zenon DEF FrameLength
  <2> QED  BY <1>7, <2>3, Zenon DEF half, frame, size
<1> QED  BY <1>6, <1>7

\* What a frame carries is what was written, whatever its length, its bytes and
\* the session key (Connection::WriteFrame, ExtractFrame).
THEOREM FrameRoundTrip ==
  ASSUME NEW d \in Seq(Byte), d # <<>>, HeaderOK(d),
         NEW k \in SessionKey, FrameSize(d) \in UInt32
  PROVE  FrameContent(WriteFrame(d, k)) = d
<1> DEFINE z == CompressString(d)
           e == Encrypt(z, k)
           frame == WriteFrame(d, k)
<1>1. z \in Seq(Byte) /\ Len(z) = 5 + Len(d) /\ z # <<>>  BY CompressType, Zenon
<1>2. /\ frame \in Seq(Byte) /\ e \in Seq(Byte) /\ Len(frame) = FrameSize(d) /\ Len(e) = FrameSize(d) - 4
      /\ OccursAt(e, frame, 4)
  BY FrameType, Zenon
<1>3. Len(d) \in UInt32
  <2> DEFINE l == Len(d)
  <2>1. l \in Nat /\ KEY_LENGTH \in Nat  BY KeyAssumption
  <2>2. 4 + 4 * ((KEY_LENGTH + (5 + l) + 2) \div 3) \in UInt32  BY DEF FrameSize
  <2> HIDE DEF l
  <2>3. l \in UInt32  BY SMT, <2>1, <2>2 DEF UInt32
  <2> QED  BY <2>3 DEF l
<1>4. DecompressString(z) = d  BY <1>3, CompressRoundTrip
<1> HIDE DEF z
<1>5. Decrypt(e) = z  BY <1>1, CipherRoundTrip
<1> HIDE DEF e, frame
<1>6. SubSeq(frame, 5, Len(frame)) = e
  <2>1. SubSeq(frame, 4 + 1, 4 + Len(e)) = e  BY <1>2, OccursIsSubSeq
  <2>2. Len(e) \in Nat /\ Len(frame) \in Nat  BY <1>2
  <2>3. 4 + 1 = 5 /\ 4 + Len(e) = Len(frame)  BY <1>2, <2>2
  <2> QED  BY <2>1, <2>3
<1>7. z # Failed /\ d # Failed  BY <1>1, FailureAssumption
<1>8. FrameContent(frame) = d  BY <1>4, <1>5, <1>6, <1>7, Zenon DEF FrameContent
<1> QED  BY <1>8 DEF frame

=============================================================================
