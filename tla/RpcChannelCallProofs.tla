------------------------ MODULE RpcChannelCallProofs ------------------------
(***************************************************************************)
(* What a call over RpcChannel gets back, proved for any number of clients,*)
(* calls, connections, pieces and workers: types, frames, answers, and the *)
(* refinement of RpcCall.                                                  *)
(***************************************************************************)
EXTENDS RpcChannelProofs, SequenceTheorems

-----------------------------------------------------------------------------
(* The invariant *)

InCall == {"write", "select", "read", "extract"}

\* Where a client is goes with what it has.
ClientFits(c) ==
    /\ call[c] \in {"construct", "connect"} => ~is_connected_[c]
    /\ call[c] \in InCall \cup {"request"} => is_connected_[c]
    /\ is_connected_[c] /\ call[c] # "dead" =>
          connection_[c] \in Conn /\ link[connection_[c]] = "open"
    /\ connection_[c] \in Conn => link[connection_[c]] # "free"
    /\ call[c] \in {"connect", "request"} => sequence_id_[c] < MaxCalls
    /\ call[c] = "write" => sent[c] < Parts
    /\ call[c] = "construct" => result[c] = Failed
    /\ call[c] \in InCall => sequence_id_[c] > 0

\* A connection is used by the client that made it and by no other.
ConnectionsOwned ==
    \A c, d \in Client : connection_[c] = connection_[d] /\ connection_[c] \in Conn => c = d

ClientOK == (\A c \in Client : ClientFits(c)) /\ ConnectionsOwned

\* The loop has a connection while it handles one, and a request to enqueue; a
\* job ends with the last piece of its response.
ServerOK ==
    /\ loop.pc \in {"wait", "ended"} <=> loop.conn = NoConn
    /\ loop.pc = "enqueue" <=> loop.id # NoRequest
    /\ \A j \in jobs : j.sent < Parts

TypeInv == TypeOK /\ ClientOK /\ ServerOK

\* The pieces from the one after the n-th, in order.
InOrder(pieces, n) == \A i \in 1 .. Len(pieces) : pieces[i].part = n + i

\* The loop has taken a request from k and not yet handed it on.
Requested(k) == loop.conn = k /\ loop.pc = "enqueue"

\* There is nothing on k.
Quiet(k) ==
    /\ up[k] = <<>> /\ sbuf[k] = <<>> /\ down[k] = <<>> /\ cbuf[k] = <<>>
    /\ JobsOn(k) = {} /\ ~Requested(k)

\* Nothing has come back on k yet.
Unanswered(k) == JobsOn(k) = {} /\ ~Requested(k) /\ down[k] = <<>> /\ cbuf[k] = <<>>

\* A client may still read from k.
Attended(k) == link[k] = "open" /\ \E c \in Client : connection_[c] = k /\ is_connected_[c]

\* What the server has of a request, and what it can still get, are its pieces
\* in order.
RequestInOrder(k) ==
    /\ InOrder(sbuf[k], 0) /\ Len(sbuf[k]) <= Parts
    /\ k \notin shut =>
          InOrder(up[k], Len(sbuf[k])) /\ Len(sbuf[k]) + Len(up[k]) <= Parts

\* So are those of a response, as long as somebody attends to it.
ResponseInOrder(k) ==
    /\ InOrder(cbuf[k], 0) /\ Len(cbuf[k]) <= Parts
    /\ Attended(k) =>
          InOrder(down[k], Len(cbuf[k])) /\ Len(cbuf[k]) + Len(down[k]) <= Parts

\* A request is in one place: still to be read, in the loop, in one job, or in
\* the response, which is as long as the job has come.
OnePlace(k) ==
    /\ ~Unanswered(k) => up[k] = <<>> /\ sbuf[k] = <<>>
    /\ Requested(k) => JobsOn(k) = {} /\ down[k] = <<>> /\ cbuf[k] = <<>>
    /\ \A i, j \in JobsOn(k) : i = j
    /\ \A j \in JobsOn(k) :
          /\ j.pc # "writing" => j.sent = 0 /\ down[k] = <<>> /\ cbuf[k] = <<>>
          /\ Attended(k) => Len(cbuf[k]) + Len(down[k]) = j.sent

\* A connection that was never made has carried nothing.
FreshIsQuiet(k) == link[k] = "free" => Quiet(k)

\* A client between two calls has nothing outstanding, and one that writes has
\* its request on the way, as far as it is written, and nothing else.
OwnerOK(k) ==
    \A c \in Client : connection_[c] = k =>
       /\ call[c] \in {"idle", "request"} /\ is_connected_[c] => Quiet(k)
       /\ call[c] = "write" =>
             Unanswered(k) /\ (k \notin shut => Len(sbuf[k]) + Len(up[k]) = sent[c])

StreamOK(k) ==
    RequestInOrder(k) /\ ResponseInOrder(k) /\ OnePlace(k) /\ FreshIsQuiet(k) /\ OwnerOK(k)

Current(c) == [from |-> c, seq |-> sequence_id_[c]]

\* A connection carries one request, which has been made; it is carried out when
\* the response begins, and not before.
IdsOK(k) ==
    /\ \A r, s \in OnTheWay(k) : r = s
    /\ \A r \in OnTheWay(k) : r \in Request /\ r.seq <= sequence_id_[r.from]
    /\ \A r \in Early(k) : executed[r] = 0
    /\ \A r \in Late(k) : executed[r] = 1

\* A request is on one connection only, which is its client's while the client
\* waits; a request that is not made, or not yet written, is not carried out.
RequestsOK ==
    /\ \A k, l \in Conn : \A r \in OnTheWay(k) \cap OnTheWay(l) : k = l
    /\ \A r \in Request : r.seq > sequence_id_[r.from] => executed[r] = 0
    /\ \A c \in Client :
          /\ call[c] \in InCall =>
                \A k \in Conn : connection_[c] = k => OnTheWay(k) \subseteq {Current(c)}
          /\ call[c] = "write" =>
                /\ executed[Current(c)] = 0
                /\ \A k \in Conn : Current(c) \in OnTheWay(k) => k = connection_[c]

StreamInv == \A k \in Conn : StreamOK(k)
IdsInv == (\A k \in Conn : IdsOK(k)) /\ RequestsOK

CallInv == TypeInv /\ DescriptorInv /\ StreamInv /\ IdsInv

-----------------------------------------------------------------------------
(* Sequences of pieces *)

\* What is left of a sequence after its first n pieces.
LEMMA WithoutProperties ==
    ASSUME NEW S, NEW s \in Seq(S), NEW n \in 0 .. Len(s)
    PROVE  /\ Without(s, n) \in Seq(S)
           /\ Len(Without(s, n)) = Len(s) - n
           /\ \A i \in 1 .. Len(s) - n : Without(s, n)[i] = s[n + i]
<1>1. Len(s) \in Nat /\ n + 1 \in Int  BY LenProperties
<1>2. \A i \in n + 1 .. Len(s) : s[i] \in S  BY <1>1, ElementOfSeq
<1>3. /\ SubSeq(s, n + 1, Len(s)) \in Seq(S)
      /\ Len(SubSeq(s, n + 1, Len(s))) =
            IF n + 1 <= Len(s) THEN Len(s) - (n + 1) + 1 ELSE 0
      /\ \A i \in 1 .. Len(s) - (n + 1) + 1 : SubSeq(s, n + 1, Len(s))[i] = s[n + 1 + i - 1]
  BY <1>1, <1>2, SubSeqProperties
<1>4. QED  BY <1>1, <1>3 DEF Without

\* The first n pieces of a sequence.
LEMMA FirstProperties ==
    ASSUME NEW S, NEW s \in Seq(S), NEW n \in 0 .. Len(s)
    PROVE  /\ First(s, n) \in Seq(S)
           /\ Len(First(s, n)) = n
           /\ \A i \in 1 .. n : First(s, n)[i] = s[i]
<1>1. Len(s) \in Nat  BY LenProperties
<1>2. \A i \in 1 .. n : s[i] \in S  BY <1>1, ElementOfSeq
<1>3. /\ SubSeq(s, 1, n) \in Seq(S)
      /\ Len(SubSeq(s, 1, n)) = IF 1 <= n THEN n - 1 + 1 ELSE 0
      /\ \A i \in 1 .. n - 1 + 1 : SubSeq(s, 1, n)[i] = s[1 + i - 1]
  BY <1>1, <1>2, SubSeqProperties
<1>4. QED  BY <1>1, <1>3 DEF First

\* What ::read() may return of what is there.
LEMMA ReadsProperties ==
    ASSUME NEW S, NEW s \in Seq(S), s # <<>>, NEW r \in Reads(s)
    PROVE  /\ r.n \in 1 .. Len(s) /\ r.full \in BOOLEAN
           /\ ~r.full => r.n = Len(s)
<1>1. Len(s) \in Nat \ {0}  BY EmptySeq
<1>2. CASE r \in [n : {Len(s)}, full : {FALSE}]
  <2>1. r.n = Len(s) /\ r.full = FALSE  BY <1>2
  <2>2. Len(s) \in 1 .. Len(s)  BY <1>1
  <2>3. QED  BY <2>1, <2>2
<1>3. CASE r \in [n : 1 .. Len(s), full : {TRUE}]
  <2>1. r.n \in 1 .. Len(s) /\ r.full = TRUE  BY <1>3
  <2>2. QED  BY <2>1
<1>4. QED  BY <1>2, <1>3 DEF Reads

\* read() moves pieces from the socket to the end of the buffer.
LEMMA MovedInOrder ==
    ASSUME NEW s \in Seq(Piece), NEW t \in Seq(Piece), NEW n \in 0 .. Len(s),
           InOrder(t, 0), InOrder(s, Len(t))
    PROVE  /\ t \o First(s, n) \in Seq(Piece) /\ Without(s, n) \in Seq(Piece)
           /\ Len(t \o First(s, n)) = Len(t) + n /\ Len(Without(s, n)) = Len(s) - n
           /\ InOrder(t \o First(s, n), 0)
           /\ InOrder(Without(s, n), Len(t \o First(s, n)))
<1> DEFINE f == First(s, n)
           w == Without(s, n)
<1>1. Len(s) \in Nat /\ Len(t) \in Nat  BY LenProperties
<1>2. /\ f \in Seq(Piece) /\ Len(f) = n /\ \A i \in 1 .. n : f[i] = s[i]
  BY FirstProperties
<1>3. /\ w \in Seq(Piece) /\ Len(w) = Len(s) - n /\ \A i \in 1 .. Len(s) - n : w[i] = s[n + i]
  BY WithoutProperties
<1> HIDE DEF f, w
<1>4. /\ t \o f \in Seq(Piece) /\ Len(t \o f) = Len(t) + n
      /\ \A i \in 1 .. Len(t) + n : (t \o f)[i] = IF i <= Len(t) THEN t[i] ELSE f[i - Len(t)]
  BY <1>2, ConcatProperties
<1>5. InOrder(t \o f, 0)
  <2> SUFFICES ASSUME NEW i \in 1 .. Len(t) + n PROVE (t \o f)[i].part = i
    BY <1>1, <1>4 DEF InOrder
  <2>1. CASE i <= Len(t)  BY <1>1, <1>4, <2>1 DEF InOrder
  <2>2. CASE ~(i <= Len(t))
    <3>1. i - Len(t) \in 1 .. n /\ i - Len(t) \in 1 .. Len(s)  BY <1>1, <2>2
    <3>2. (t \o f)[i] = s[i - Len(t)]  BY <1>2, <1>4, <2>2, <3>1
    <3>3. QED  BY <1>1, <3>1, <3>2 DEF InOrder
  <2>3. QED  BY <2>1, <2>2
<1>6. InOrder(w, Len(t) + n)
  BY <1>1, <1>3 DEF InOrder
<1>7. QED  BY <1>3, <1>4, <1>5, <1>6 DEF f, w

\* A frame is complete as soon as all its pieces are there, and never broken.
LEMMA FrameInOrder ==
    ASSUME NEW s \in Seq(Piece), InOrder(s, 0), Len(s) <= Parts,
           \A r, q \in Ids(s) : r = q
    PROVE  /\ FrameStatus(s) = IF Len(s) < Parts THEN "kIncomplete" ELSE "kComplete"
           /\ Len(s) = Parts => AfterFrame(s) = <<>> /\ s[1].id \in Ids(s)
<1>1. Len(s) \in Nat /\ DOMAIN s = 1 .. Len(s)  BY LenProperties
<1>2. Parts \in Nat \ {0}  BY ConnectionAssumption
<1>3. Len(s) = Parts => AfterFrame(s) = <<>>
  BY <1>1, <1>2, SubSeqEmpty DEF AfterFrame, Without
<1>4. ASSUME Len(s) = Parts
      PROVE  s[1].id \in Ids(s) /\ FrameStatus(s) = "kComplete"
  <2>1. \A i \in 1 .. Parts : s[i] \in Piece /\ s[i].part = i /\ s[i].id \in Ids(s)
    BY <1>1, <1>4, ElementOfSeq DEF InOrder, Ids
  <2>2. 1 \in 1 .. Parts  BY <1>2
  <2>3. \A i \in 1 .. Parts : s[i] = [id |-> s[1].id, part |-> i]
    BY <2>1, <2>2 DEF Piece
  <2>4. ~(Len(s) < Parts)  BY <1>2, <1>4
  <2>5. QED  BY <2>1, <2>2, <2>3, <2>4 DEF FrameStatus
<1>5. CASE Len(s) < Parts
  <2>1. FrameStatus(s) = "kIncomplete" /\ Len(s) # Parts  BY <1>2, <1>5 DEF FrameStatus
  <2>2. QED  BY <1>5, <2>1
<1>6. CASE Len(s) = Parts
  <2>1. ~(Len(s) < Parts)  BY <1>2, <1>6
  <2>2. QED  BY <1>3, <1>4, <1>6, <2>1
<1>7. Len(s) < Parts \/ Len(s) = Parts
  <2>1. Len(s) \in Int /\ Parts \in Int  BY <1>1, <1>2
  <2>2. QED  BY <2>1
<1>8. QED  BY <1>5, <1>6, <1>7

-----------------------------------------------------------------------------
(* Types, and where the clients are *)

\* Nothing is wrong at the start.
LEMMA TypeInit == Init => TypeInv
BY ConnectionAssumption, ServerAssumption, EmptySeq
   DEF Init, LinkInit, ClientInit, ServerInit, Waiting, LoopAt, TypeInv, TypeOK, LinkTypeOK,
       ClientTypeOK, ServerTypeOK, LinkState, CallPC, LoopPC, ClientOK, ClientFits,
       ConnectionsOwned, ServerOK, InCall, Failed, NoRequest

\* A client that leaves the links alone, and the pieces.
LEMMA ClientKeepsTypes ==
    ASSUME TypeInv, NEW c \in Client,
           \/ CallBegin(c) \/ ConnectFail(c) \/ SerializeFail(c) \/ MakeRequest(c)
           \/ WriteFail(c) \/ SelectReady(c) \/ SelectTimeout(c) \/ ClientReadEnd(c)
    PROVE  LinkTypeOK' /\ ClientTypeOK' /\ ClientOK'
<1> USE ConnectionAssumption DEF ClientTypeOK, CallPC, CallReturn, BreakOff, Connecting
<1>1. LinkTypeOK' /\ UNCHANGED <<link, connection_>>
  BY DEF CallBegin, ConnectFail, SerializeFail, MakeRequest, WriteFail, SelectReady,
         SelectTimeout, ClientReadEnd, TypeInv, TypeOK, LinkTypeOK, linkVars
<1>2. ConnectionsOwned'
  BY <1>1 DEF TypeInv, ClientOK, ConnectionsOwned
<1>3. ClientTypeOK /\ \A d \in Client : ClientFits(d)
  BY DEF TypeInv, TypeOK, ClientOK
<1>4. ASSUME ClientTypeOK', \A d \in Client : ClientFits(d)'
      PROVE  LinkTypeOK' /\ ClientTypeOK' /\ ClientOK'
  BY <1>1, <1>2, <1>4 DEF ClientOK
<1>5. CASE CallBegin(c)
  BY <1>1, <1>3, <1>4, <1>5 DEF CallBegin, ClientFits, InCall
<1>6. CASE ConnectFail(c)
  BY <1>1, <1>3, <1>4, <1>6 DEF ConnectFail, ClientFits, InCall
<1>7. CASE SerializeFail(c)
  BY <1>1, <1>3, <1>4, <1>7 DEF SerializeFail, ClientFits, InCall
<1>8. CASE MakeRequest(c)
  BY <1>1, <1>3, <1>4, <1>8 DEF MakeRequest, ClientFits, InCall
<1>9. CASE WriteFail(c)
  BY <1>1, <1>3, <1>4, <1>9 DEF WriteFail, ClientFits, InCall
<1>10. CASE SelectReady(c)
  BY <1>1, <1>3, <1>4, <1>10 DEF SelectReady, ClientFits, InCall
<1>11. CASE SelectTimeout(c)
  BY <1>1, <1>3, <1>4, <1>11 DEF SelectTimeout, ClientFits, InCall
<1>12. CASE ClientReadEnd(c)
  BY <1>1, <1>3, <1>4, <1>12 DEF ClientReadEnd, ClientFits, InCall
<1>13. QED
  BY <1>5, <1>6, <1>7, <1>8, <1>9, <1>10, <1>11, <1>12

\* Write() puts a piece of its own request behind the others.
LEMMA WritePieceKeepsTypes ==
    ASSUME TypeInv, NEW c \in Client, WritePiece(c)
    PROVE  LinkTypeOK' /\ ClientTypeOK' /\ ClientOK'
<1> DEFINE k == connection_[c]
           piece == [id |-> [from |-> c, seq |-> sequence_id_[c]], part |-> sent[c] + 1]
<1> USE ConnectionAssumption
<1>1. /\ call[c] = "write" /\ is_connected_[c] /\ k \in Conn
      /\ sent[c] + 1 \in 1 .. Parts /\ sequence_id_[c] \in 1 .. MaxCalls
  BY DEF WritePiece, TypeInv, TypeOK, ClientTypeOK, ClientOK, ClientFits, InCall
<1>2. piece \in Piece  BY <1>1 DEF Piece, Request
<1>3. up' \in [Conn -> Seq(Piece)]
  <2>1. up \in [Conn -> Seq(Piece)]  BY DEF TypeInv, TypeOK, LinkTypeOK
  <2>2. Append(up[k], piece) \in Seq(Piece)  BY <1>1, <1>2, <2>1, AppendProperties
  <2>3. up' = up \/ up' = [up EXCEPT ![k] = Append(@, piece)]  BY DEF WritePiece
  <2>4. QED  BY <2>1, <2>2, <2>3
<1>4. LinkTypeOK'
  BY <1>3 DEF WritePiece, TypeInv, TypeOK, LinkTypeOK
<1>5. /\ sent' = [sent EXCEPT ![c] = sent[c] + 1]
      /\ call' = IF sent[c] + 1 = Parts THEN [call EXCEPT ![c] = "select"] ELSE call
      /\ UNCHANGED <<link, sequence_id_, connection_, is_connected_, cbuf, result>>
  BY DEF WritePiece
<1>6. ClientTypeOK'
  BY <1>1, <1>5 DEF TypeInv, TypeOK, ClientTypeOK, CallPC
<1>7. \A d \in Client : ClientFits(d)'
  BY <1>1, <1>5 DEF TypeInv, TypeOK, ClientTypeOK, ClientOK, ClientFits, InCall
<1>8. ConnectionsOwned'
  BY <1>5 DEF TypeInv, ClientOK, ConnectionsOwned
<1>9. QED  BY <1>4, <1>6, <1>7, <1>8 DEF ClientOK

\* A client that may lose its connection, and goes on in Call() or returns.
LEMMA ReaderKeepsFitting ==
    ASSUME TypeInv, NEW c \in Client, call[c] \in {"read", "extract"},
           UNCHANGED <<link, sequence_id_, connection_, sent>>,
           \/ BreakOff(c)
           \/ UNCHANGED <<call, is_connected_, result>>
           \/ /\ call' = [call EXCEPT ![c] = "extract"] \/ call' = [call EXCEPT ![c] = "select"]
              /\ UNCHANGED <<is_connected_, result>>
           \/ /\ \E r \in Request \cup {Failed} : CallReturn(c, r)
              /\ UNCHANGED is_connected_,
           cbuf' \in [Conn -> Seq(Piece)]
    PROVE  ClientTypeOK' /\ ClientOK'
<1>1. ClientTypeOK'
  BY DEF TypeInv, TypeOK, ClientTypeOK, CallPC, BreakOff, CallReturn
<1>2. \A d \in Client : ClientFits(d)'
  BY DEF TypeInv, TypeOK, ClientTypeOK, ClientOK, ClientFits, InCall, BreakOff, CallReturn
<1>3. ConnectionsOwned'
  BY DEF TypeInv, ClientOK, ConnectionsOwned
<1>4. QED  BY <1>1, <1>2, <1>3 DEF ClientOK

\* A client's Read() moves pieces into its buffer, or gives the connection up.
LEMMA ClientReadKeepsTypes ==
    ASSUME TypeInv, NEW c \in Client, ClientRead(c)
    PROVE  LinkTypeOK' /\ ClientTypeOK' /\ ClientOK'
<1> DEFINE k == connection_[c]
<1>1. /\ call[c] = "read" /\ k \in Conn /\ down[k] # <<>>
      /\ down \in [Conn -> Seq(Piece)] /\ cbuf \in [Conn -> Seq(Piece)]
  BY DEF ClientRead, TypeInv, TypeOK, LinkTypeOK, ClientTypeOK, ClientOK, ClientFits, InCall
<1>2. PICK r \in Reads(down[k]) :
         /\ down' = [down EXCEPT ![k] = Without(@, r.n)]
         /\ IF Overflows(cbuf[k], r.n)
            THEN BreakOff(c) /\ UNCHANGED cbuf
            ELSE /\ cbuf' = [cbuf EXCEPT ![k] = @ \o First(down[k], r.n)]
                 /\ call' = IF r.full THEN call ELSE [call EXCEPT ![c] = "extract"]
                 /\ UNCHANGED <<sequence_id_, connection_, is_connected_, sent, result>>
  BY DEF ClientRead
<1>3. r.n \in 0 .. Len(down[k])
  BY <1>1, <1>2, ReadsProperties, LenProperties
<1>4. Without(down[k], r.n) \in Seq(Piece) /\ First(down[k], r.n) \in Seq(Piece)
  BY <1>1, <1>3, WithoutProperties, FirstProperties
<1>5. cbuf[k] \o First(down[k], r.n) \in Seq(Piece)
  BY <1>1, <1>4, ConcatProperties
<1>6. down' \in [Conn -> Seq(Piece)] /\ cbuf' \in [Conn -> Seq(Piece)]
  BY <1>1, <1>2, <1>4, <1>5
<1>7. LinkTypeOK' /\ link' = link
  BY <1>6 DEF ClientRead, TypeInv, TypeOK, LinkTypeOK
<1>8. ClientTypeOK' /\ ClientOK'
  BY <1>1, <1>2, <1>6, <1>7, ReaderKeepsFitting DEF BreakOff
<1>9. QED  BY <1>7, <1>8

\* ExtractFrame() in a client takes a request's pieces off, and the call returns.
LEMMA ClientExtractKeepsTypes ==
    ASSUME TypeInv, NEW c \in Client, ClientExtract(c)
    PROVE  LinkTypeOK' /\ ClientTypeOK' /\ ClientOK'
<1> DEFINE k == connection_[c]
           status == FrameStatus(cbuf[k])
<1>1. /\ call[c] = "extract" /\ k \in Conn /\ cbuf \in [Conn -> Seq(Piece)]
      /\ cbuf[k] \in Seq(Piece)
  BY DEF ClientExtract, TypeInv, TypeOK, ClientTypeOK, ClientOK, ClientFits, InCall
<1>2. LinkTypeOK' /\ link' = link
  BY DEF ClientExtract, TypeInv, TypeOK, LinkTypeOK, linkVars
<1>3. CASE status = "kIncomplete"
  BY <1>1, <1>2, <1>3, ReaderKeepsFitting DEF ClientExtract
<1>4. CASE status # "kIncomplete"
  <2>1. Parts \in Nat \ {0} /\ Len(cbuf[k]) \in Nat /\ Len(cbuf[k]) >= Parts
    <3>1. Parts \in Nat \ {0} /\ Len(cbuf[k]) \in Nat
      BY <1>1, ConnectionAssumption, LenProperties
    <3>2. ~(Len(cbuf[k]) < Parts)  BY <1>4 DEF FrameStatus
    <3>3. QED  BY <3>1, <3>2
  <2>2. 1 \in 1 .. Len(cbuf[k]) /\ Parts \in 0 .. Len(cbuf[k])  BY <2>1
  <2>3. cbuf[k][1].id \in Request
    <3>1. cbuf[k][1] \in Piece  BY <1>1, <2>2, ElementOfSeq
    <3>2. QED  BY <3>1 DEF Piece
  <2>4. AfterFrame(cbuf[k]) \in Seq(Piece)
    BY <1>1, <2>2, WithoutProperties DEF AfterFrame
  <2>5. cbuf' \in [Conn -> Seq(Piece)]
    BY <1>1, <1>4, <2>4 DEF ClientExtract
  <2>6. UNCHANGED <<sequence_id_, connection_, sent>>
    BY <1>4 DEF ClientExtract, BreakOff
  <2>7. \/ BreakOff(c)
        \/ /\ CallReturn(c, Answer(cbuf[k][1].id))
           /\ UNCHANGED is_connected_
    BY <1>4 DEF ClientExtract
  <2>8. Answer(cbuf[k][1].id) \in Request \cup {Failed}  BY <2>3 DEF Answer
  <2>9. QED  BY <1>1, <1>2, <2>5, <2>6, <2>7, <2>8, ReaderKeepsFitting
<1>5. QED  BY <1>3, <1>4

\* The end that Connect(), Disconnect() or the end of the process closes is the
\* client's own, and no other client's.
LEMMA LinkClosedProperties ==
    ASSUME TypeInv, NEW c \in Client, ClientEndClosed(connection_[c])
    PROVE  /\ LinkClosed(connection_[c]) \in [Conn -> LinkState]
           /\ \A k \in Conn :
                 /\ k # connection_[c] => LinkClosed(connection_[c])[k] = link[k]
                 /\ k = connection_[c] => LinkClosed(connection_[c])[k] \in {"fin", "reset"}
           /\ down' \in [Conn -> Seq(Piece)] /\ edge' \in [Conn -> BOOLEAN]
           /\ \A k \in Conn : down'[k] = IF k = connection_[c] THEN <<>> ELSE down[k]
<1>1. /\ link \in [Conn -> LinkState] /\ down \in [Conn -> Seq(Piece)]
      /\ edge \in [Conn -> BOOLEAN]
  BY DEF TypeInv, TypeOK, LinkTypeOK
<1>2. down' \in [Conn -> Seq(Piece)]
  <2>1. \A k \in Conn : down[k] \in Seq(Piece) /\ <<>> \in Seq(Piece)
    BY <1>1, EmptySeq
  <2>2. QED  BY <2>1 DEF ClientEndClosed
<1>3. edge' \in [Conn -> BOOLEAN]
  BY <1>1, Zenon DEF ClientEndClosed
<1>4. QED  BY <1>1, <1>2, <1>3 DEF ClientEndClosed, LinkClosed, LinkState

\* A new connection is nobody else's, and the old one is closed.
LEMMA ConnectKeepsTypes ==
    ASSUME TypeInv, NEW c \in Client, NEW k \in Conn, Connect(c, k)
    PROVE  LinkTypeOK' /\ ClientTypeOK' /\ ClientOK'
<1> DEFINE old == connection_[c]
<1>1. /\ call[c] \in {"construct", "connect"} /\ link[k] = "free" /\ ~is_connected_[c]
      /\ link' = [LinkClosed(old) EXCEPT ![k] = "open"]
      /\ ClientEndClosed(old)
      /\ backlog' = backlog \cup {k}
      /\ connection_' = [connection_ EXCEPT ![c] = k]
      /\ is_connected_' = [is_connected_ EXCEPT ![c] = TRUE]
      /\ call' = [call EXCEPT ![c] = IF call[c] = "construct" THEN "idle" ELSE "request"]
      /\ UNCHANGED <<shut, up, sequence_id_, sent, cbuf, result>>
  BY DEF Connect, Connecting, Connected, TypeInv, ClientOK, ClientFits
<1>2. /\ link' \in [Conn -> LinkState] /\ link'[k] = "open"
      /\ \A l \in Conn \ {k} :
            /\ l # old => link'[l] = link[l]
            /\ l = old => link'[l] \in {"fin", "reset"}
  BY <1>1, LinkClosedProperties DEF LinkState
<1>3. LinkTypeOK'
  BY <1>1, <1>2, LinkClosedProperties DEF TypeInv, TypeOK, LinkTypeOK
<1>4. ClientTypeOK'
  BY <1>1 DEF TypeInv, TypeOK, ClientTypeOK, CallPC
<1>5. \A d \in Client : connection_[d] # k
  BY <1>1 DEF TypeInv, ClientOK, ClientFits
<1>6. ConnectionsOwned'
  BY <1>1, <1>5 DEF TypeInv, TypeOK, ClientTypeOK, ClientOK, ConnectionsOwned
<1>7. ClientFits(c)'
  <2>1. /\ call'[c] \in {"idle", "request"} /\ is_connected_'[c] /\ connection_'[c] = k
        /\ sequence_id_' = sequence_id_
        /\ call'[c] = "request" => call[c] = "connect"
    BY <1>1 DEF TypeInv, TypeOK, ClientTypeOK
  <2>2. QED  BY <1>2, <2>1 DEF ClientFits, TypeInv, ClientOK, InCall
<1>8. ASSUME NEW d \in Client \ {c}
      PROVE  ClientFits(d)'
  <2>1. /\ call'[d] = call[d] /\ is_connected_'[d] = is_connected_[d]
        /\ connection_'[d] = connection_[d]
        /\ UNCHANGED <<sequence_id_, sent, result>>
    BY <1>1 DEF TypeInv, TypeOK, ClientTypeOK
  <2>2. connection_[d] \in Conn => link'[connection_[d]] = link[connection_[d]]
    BY <1>2, <1>5 DEF TypeInv, ClientOK, ConnectionsOwned
  <2>3. ClientFits(d)  BY DEF TypeInv, ClientOK
  <2>4. QED  BY <2>1, <2>2, <2>3 DEF ClientFits
<1>9. QED  BY <1>3, <1>4, <1>6, <1>7, <1>8 DEF ClientOK

\* Disconnect() and the end of a client close its connection.
LEMMA CloseKeepsTypes ==
    ASSUME TypeInv, NEW c \in Client, Disconnect(c) \/ ClientDies(c)
    PROVE  LinkTypeOK' /\ ClientTypeOK' /\ ClientOK'
<1> DEFINE old == connection_[c]
<1>1. /\ link' = LinkClosed(old) /\ ClientEndClosed(old)
      /\ UNCHANGED <<shut, up, backlog, sequence_id_, sent, cbuf, result>>
      /\ call' = call \/ call' = [call EXCEPT ![c] = "dead"]
      /\ connection_' = connection_ \/ connection_' = [connection_ EXCEPT ![c] = NoConn]
      /\ is_connected_' = is_connected_ \/ is_connected_' = [is_connected_ EXCEPT ![c] = FALSE]
  BY DEF Disconnect, ClientDies
<1>2. /\ link' \in [Conn -> LinkState]
      /\ \A l \in Conn :
            /\ l # old => link'[l] = link[l]
            /\ l = old => link'[l] \in {"fin", "reset"}
  BY <1>1, LinkClosedProperties DEF LinkState
<1>3. LinkTypeOK'
  BY <1>1, <1>2, LinkClosedProperties DEF TypeInv, TypeOK, LinkTypeOK
<1>4. ClientTypeOK'
  BY <1>1 DEF TypeInv, TypeOK, ClientTypeOK, CallPC
<1>5. ConnectionsOwned'
  <2>1. \A d \in Client : connection_'[d] \in {connection_[d], NoConn}
    BY <1>1 DEF TypeInv, TypeOK, ClientTypeOK
  <2>2. QED  BY <2>1, ConnectionAssumption DEF TypeInv, ClientOK, ConnectionsOwned
<1>6. ClientFits(c)'
  <2>1. call'[c] = "dead" \/ (call'[c] = "idle" /\ ~is_connected_'[c])
    BY DEF Disconnect, ClientDies, TypeInv, TypeOK, ClientTypeOK
  <2>2. connection_'[c] \in {old, NoConn}
    BY <1>1 DEF TypeInv, TypeOK, ClientTypeOK
  <2>3. QED  BY <1>2, <2>1, <2>2, ConnectionAssumption DEF ClientFits, InCall
<1>7. ASSUME NEW d \in Client \ {c}
      PROVE  ClientFits(d)'
  <2>1. /\ call'[d] = call[d] /\ is_connected_'[d] = is_connected_[d]
        /\ connection_'[d] = connection_[d]
        /\ UNCHANGED <<sequence_id_, sent, result>>
    BY <1>1 DEF TypeInv, TypeOK, ClientTypeOK
  <2>2. connection_[d] \in Conn => link'[connection_[d]] = link[connection_[d]]
    BY <1>2 DEF TypeInv, ClientOK, ConnectionsOwned
  <2>3. ClientFits(d)  BY DEF TypeInv, ClientOK
  <2>4. QED  BY <2>1, <2>2, <2>3 DEF ClientFits
<1>8. QED  BY <1>3, <1>4, <1>5, <1>6, <1>7 DEF ClientOK

\* So every step of a client keeps types and what goes with them.
LEMMA ClientStepKeepsTypes ==
    ASSUME TypeInv, NEW c \in Client, ClientStep(c), UNCHANGED serverVars
    PROVE  TypeInv'
<1>1. ServerTypeOK' /\ ServerOK'
  BY DEF TypeInv, TypeOK, ServerTypeOK, ServerOK, serverVars
<1>2. LinkTypeOK' /\ ClientTypeOK' /\ ClientOK'
  BY ClientKeepsTypes, WritePieceKeepsTypes, ClientReadKeepsTypes, ClientExtractKeepsTypes,
     ConnectKeepsTypes, CloseKeepsTypes DEF ClientStep, CallStep
<1>3. QED  BY <1>1, <1>2 DEF TypeInv, TypeOK

\* The server does not touch the clients, and at their ends of the connections
\* only finds out what they have closed.
LEMMA ServerKeepsClients ==
    ASSUME TypeInv, UNCHANGED clientVars,
           \A k \in Conn : /\ link[k] = "open" => link'[k] = "open"
                           /\ link'[k] = "free" => link[k] = "free"
    PROVE  ClientTypeOK' /\ ClientOK'
<1>1. ClientTypeOK' /\ ConnectionsOwned'
  BY DEF TypeInv, TypeOK, ClientTypeOK, ClientOK, ConnectionsOwned, clientVars
<1>2. \A c \in Client : ClientFits(c)'
  BY DEF TypeInv, ClientOK, ClientFits, clientVars
<1>3. QED  BY <1>1, <1>2 DEF ClientOK

\* Closing(), whatever it closes.
LEMMA ReleaseTypes ==
    ASSUME TypeInv, Release
    PROVE  /\ fd_' \in [Conn -> Fd \cup {NoFd}] /\ sock' \in [Fd -> Conn \cup {NoConn}]
           /\ shut' \subseteq Conn /\ shut \subseteq shut'
BY DEF Release, Closing, TypeInv, TypeOK, LinkTypeOK, ServerTypeOK

\* A server step is well typed if what it assigns is.
LEMMA ServerTyped ==
    ASSUME TypeInv, UNCHANGED clientVars,
           \A k \in Conn : /\ link[k] = "open" => link'[k] = "open"
                           /\ link'[k] = "free" => link[k] = "free",
           LinkTypeOK', ServerTypeOK', ServerOK'
    PROVE  TypeInv'
BY ServerKeepsClients DEF TypeInv, TypeOK

\* RemoveConnection() leaves the loop waiting.
LEMMA RemoveTypes ==
    ASSUME TypeInv, NEW f, RemoveConnection(f)
    PROVE  /\ fd_' \in [Conn -> Fd \cup {NoFd}] /\ sock' \in [Fd -> Conn \cup {NoConn}]
           /\ shut' \subseteq Conn /\ shut \subseteq shut'
           /\ connections_' \in [Fd -> Conn \cup {NoConn}]
           /\ loop' = Waiting /\ jobs' = jobs
BY ReleaseTypes DEF RemoveConnection, TypeInv, TypeOK, ServerTypeOK

\* What the loop may be doing.
LEMMA LoopTypes ==
    ASSUME TypeInv
    PROVE  /\ loop.pc \in LoopPC /\ loop.conn \in Conn \cup {NoConn}
           /\ loop.id \in Request \cup {NoRequest}
           /\ loop.pc \in {"read", "extract", "enqueue"} => loop.conn \in Conn
           /\ loop.pc = "enqueue" => loop.id \in Request
           /\ NoRequest \notin Request
<1>1. NoRequest \notin Request
  <2>1. ~(0 \in 1 .. MaxCalls)  BY ConnectionAssumption
  <2>2. QED  BY <2>1 DEF NoRequest, Request
<1>2. QED  BY <1>1 DEF TypeInv, TypeOK, ServerTypeOK, ServerOK, LoopPC

\* The places that the loop may be at.
LEMMA LoopAtTypes ==
    /\ Waiting \in [pc : LoopPC, conn : Conn \cup {NoConn}, id : Request \cup {NoRequest}]
    /\ Ended \in [pc : LoopPC, conn : Conn \cup {NoConn}, id : Request \cup {NoRequest}]
    /\ \A k \in Conn : \A pc \in LoopPC : \A r \in Request \cup {NoRequest} :
          LoopAt(pc, k, r) \in
             [pc : LoopPC, conn : Conn \cup {NoConn}, id : Request \cup {NoRequest}]
BY DEF Waiting, Ended, LoopAt, LoopPC

\* Accepting gives out a descriptor that exists.
LEMMA AcceptKeepsTypes ==
    ASSUME TypeInv, NEW k \in Conn, Accept(k) \/ AcceptFail(k), UNCHANGED clientVars
    PROVE  TypeInv'
<1>1. UNCHANGED <<link, loop, jobs>>
  BY DEF Accept, AcceptFail, serverVars
<1>2. LinkTypeOK'
  BY DEF Accept, AcceptFail, TypeInv, TypeOK, LinkTypeOK
<1>3. ServerTypeOK'
  BY DEF Accept, AcceptFail, serverVars, TypeInv, TypeOK, ServerTypeOK
<1>4. ServerOK'  BY <1>1 DEF TypeInv, ServerOK
<1>5. QED  BY <1>1, <1>2, <1>3, <1>4, ServerTyped

\* An event is about a connection in the table.
LEMMA LoopEventKeepsTypes ==
    ASSUME TypeInv, NEW f \in Fd, LoopEvent(f), UNCHANGED clientVars
    PROVE  TypeInv'
<1> DEFINE k == connections_[f]
<1>1. /\ k \in Conn /\ edge' = [edge EXCEPT ![k] = FALSE]
      /\ UNCHANGED <<serving, running_, sbuf, state_, executed, link, up, down, backlog>>
  BY DEF LoopEvent, TypeInv, TypeOK, ServerTypeOK
<1>2. CASE RemoveConnection(f)
  <2>1. LinkTypeOK' /\ ServerTypeOK'
    BY <1>1, <1>2, RemoveTypes, LoopAtTypes DEF TypeInv, TypeOK, LinkTypeOK, ServerTypeOK
  <2>2. ServerOK'
    BY <1>2, RemoveTypes DEF TypeInv, ServerOK, Waiting, LoopAt
  <2>3. QED  BY <1>1, <2>1, <2>2, ServerTyped
<1>3. CASE /\ loop' = LoopAt("read", k, NoRequest)
           /\ UNCHANGED <<connections_, fd_, sock, jobs, shut>>
  <2>1. LinkTypeOK' /\ ServerTypeOK'
    BY <1>1, <1>3, LoopAtTypes DEF TypeInv, TypeOK, LinkTypeOK, ServerTypeOK, LoopPC
  <2>2. ServerOK'
    BY <1>1, <1>3, ConnectionAssumption DEF TypeInv, ServerOK, LoopAt
  <2>3. QED  BY <1>1, <2>1, <2>2, ServerTyped
<1>4. QED  BY <1>2, <1>3 DEF LoopEvent

\* The server's Read() moves pieces into its buffer, or removes the connection.
LEMMA LoopReadKeepsTypes ==
    ASSUME TypeInv, LoopRead \/ LoopReadNothing, UNCHANGED clientVars
    PROVE  TypeInv'
<1> DEFINE k == loop.conn
<1>1. /\ k \in Conn /\ up \in [Conn -> Seq(Piece)] /\ sbuf \in [Conn -> Seq(Piece)]
      /\ UNCHANGED <<serving, running_, executed, link, down, edge, backlog>>
  BY LoopTypes DEF LoopRead, LoopReadNothing, TypeInv, TypeOK, LinkTypeOK, ServerTypeOK
<1>2. up' \in [Conn -> Seq(Piece)] /\ sbuf' \in [Conn -> Seq(Piece)]
  <2>1. CASE LoopRead
    <3>1. up[k] # <<>>  BY <2>1 DEF LoopRead
    <3>2. PICK r \in Reads(up[k]) :
             /\ up' = [up EXCEPT ![k] = Without(@, r.n)]
             /\ sbuf' = sbuf \/ sbuf' = [sbuf EXCEPT ![k] = @ \o First(up[k], r.n)]
      BY <2>1 DEF LoopRead, ReadFails
    <3>3. r.n \in 0 .. Len(up[k])
      BY <1>1, <3>1, <3>2, ReadsProperties, LenProperties
    <3>4. Without(up[k], r.n) \in Seq(Piece) /\ First(up[k], r.n) \in Seq(Piece)
      BY <1>1, <3>3, WithoutProperties, FirstProperties
    <3>5. sbuf[k] \o First(up[k], r.n) \in Seq(Piece)
      BY <1>1, <3>4, ConcatProperties
    <3>6. QED  BY <1>1, <3>2, <3>4, <3>5
  <2>2. CASE LoopReadNothing
    BY <1>1, <2>2 DEF LoopReadNothing, ReadEnds, ReadFails
  <2>3. QED  BY <2>1, <2>2
<1>3. \/ ReadFails(k)
      \/ UNCHANGED <<loop, connections_, fd_, sock, state_, jobs, shut>>
      \/ ReadEnds
  BY DEF LoopRead, LoopReadNothing
<1>4. CASE ReadFails(k)
  <2>1. LinkTypeOK' /\ ServerTypeOK'
    BY <1>1, <1>2, <1>4, RemoveTypes, LoopAtTypes
       DEF ReadFails, TypeInv, TypeOK, LinkTypeOK, ServerTypeOK
  <2>2. ServerOK'
    BY <1>4, RemoveTypes DEF ReadFails, TypeInv, ServerOK, Waiting, LoopAt
  <2>3. QED  BY <1>1, <2>1, <2>2, ServerTyped
<1>5. CASE UNCHANGED <<loop, connections_, fd_, sock, state_, jobs, shut>>
  <2>1. LinkTypeOK' /\ ServerTypeOK' /\ ServerOK'
    BY <1>1, <1>2, <1>5 DEF TypeInv, TypeOK, LinkTypeOK, ServerTypeOK, ServerOK
  <2>2. QED  BY <1>1, <2>1, ServerTyped
<1>6. CASE ReadEnds
  <2>1. LinkTypeOK' /\ ServerTypeOK'
    BY <1>1, <1>2, <1>6, LoopAtTypes
       DEF ReadEnds, TypeInv, TypeOK, LinkTypeOK, ServerTypeOK, LoopPC
  <2>2. ServerOK'
    BY <1>1, <1>6, ConnectionAssumption DEF ReadEnds, TypeInv, ServerOK, LoopAt
  <2>3. QED  BY <1>1, <2>1, <2>2, ServerTyped
<1>7. QED  BY <1>3, <1>4, <1>5, <1>6

\* A buffer in which ExtractFrame() finds a frame, or what is not one, is long
\* enough for that to be erased.
LEMMA ExtractTypes ==
    ASSUME NEW s \in Seq(Piece), FrameStatus(s) # "kIncomplete"
    PROVE  s[1].id \in Request /\ s[1].id \in Ids(s) /\ AfterFrame(s) \in Seq(Piece)
<1>1. Parts \in Nat \ {0} /\ Len(s) \in Nat /\ DOMAIN s = 1 .. Len(s)
  BY ConnectionAssumption, LenProperties
<1>2. ~(Len(s) < Parts)  BY DEF FrameStatus
<1>3. 1 \in 1 .. Len(s) /\ Parts \in 0 .. Len(s)
  <2>1. Parts \in Nat \ {0} /\ Len(s) \in Nat  BY <1>1
  <2>2. QED  BY <1>2, <2>1
<1>4. s[1] \in Piece  BY <1>3, ElementOfSeq
<1>5. AfterFrame(s) \in Seq(Piece)  BY <1>3, WithoutProperties DEF AfterFrame
<1>6. QED  BY <1>1, <1>3, <1>4, <1>5 DEF Piece, Ids

\* ExtractFrame() in the server gives the loop a request.
LEMMA LoopExtractKeepsTypes ==
    ASSUME TypeInv, LoopExtract, UNCHANGED clientVars
    PROVE  TypeInv'
<1> DEFINE k == loop.conn
           status == FrameStatus(sbuf[k])
<1>1. /\ k \in Conn /\ sbuf \in [Conn -> Seq(Piece)]
      /\ UNCHANGED <<serving, running_, state_, executed, link, up, down, edge, backlog>>
      /\ sbuf' = IF status = "kIncomplete" THEN sbuf ELSE [sbuf EXCEPT ![k] = AfterFrame(@)]
  BY LoopTypes DEF LoopExtract, TypeInv, TypeOK, LinkTypeOK, ServerTypeOK
<1>2. sbuf' \in [Conn -> Seq(Piece)]
  BY <1>1, ExtractTypes
<1>3. CASE status = "kError"
  <2>1. RemoveConnection(fd_[k])  BY <1>3 DEF LoopExtract
  <2>2. LinkTypeOK' /\ ServerTypeOK'
    BY <1>1, <1>2, <2>1, RemoveTypes, LoopAtTypes
       DEF TypeInv, TypeOK, LinkTypeOK, ServerTypeOK
  <2>3. ServerOK'
    BY <2>1, RemoveTypes DEF TypeInv, ServerOK, Waiting, LoopAt
  <2>4. QED  BY <1>1, <2>2, <2>3, ServerTyped
<1>4. CASE status # "kError"
  <2>1. /\ loop' = IF status = "kIncomplete" THEN Waiting
                   ELSE LoopAt("enqueue", k, sbuf[k][1].id)
        /\ UNCHANGED <<connections_, jobs>> /\ Release
    BY <1>4 DEF LoopExtract
  <2>2. status # "kIncomplete" => sbuf[k][1].id \in Request
    BY <1>1, ExtractTypes
  <2>3. LinkTypeOK' /\ ServerTypeOK'
    BY <1>1, <1>2, <2>1, <2>2, ReleaseTypes, LoopAtTypes
       DEF TypeInv, TypeOK, LinkTypeOK, ServerTypeOK, LoopPC
  <2>4. ServerOK'
    BY <1>1, <2>1, <2>2, LoopTypes, ConnectionAssumption
       DEF TypeInv, ServerOK, Waiting, LoopAt
  <2>5. QED  BY <1>1, <2>3, <2>4, ServerTyped
<1>5. QED  BY <1>3, <1>4

\* The loop's other steps, its end and that of the server.
LEMMA LoopMovesKeepTypes ==
    ASSUME TypeInv, LoopEnqueue \/ LoopEnd \/ Stop \/ ServerDies, UNCHANGED clientVars
    PROVE  TypeInv'
<1>1. CASE LoopEnqueue
  <2>1. /\ loop.conn \in Conn /\ loop.id \in Request
        /\ jobs' = jobs \cup {JobAt(loop, "queued", 0)}
        /\ loop' = LoopAt("extract", loop.conn, NoRequest)
        /\ UNCHANGED <<serving, running_, connections_, fd_, sock, sbuf, state_, executed>>
        /\ UNCHANGED <<link, shut, up, down, edge, backlog>>
    BY <1>1, LoopTypes DEF LoopEnqueue, linkVars
  <2>2. JobAt(loop, "queued", 0) \in Job /\ JobAt(loop, "queued", 0).sent < Parts
    BY <2>1, ConnectionAssumption DEF JobAt, Job
  <2>3. LinkTypeOK' /\ ServerTypeOK'
    BY <2>1, <2>2, LoopAtTypes DEF TypeInv, TypeOK, LinkTypeOK, ServerTypeOK, LoopPC
  <2>4. ServerOK'
    BY <2>1, <2>2, ConnectionAssumption DEF TypeInv, ServerOK, LoopAt
  <2>5. QED  BY <2>1, <2>3, <2>4, ServerTyped
<1>2. CASE LoopEnd \/ Stop
  <2>1. /\ loop' \in {loop, Ended} /\ running_' \in {running_, FALSE}
        /\ UNCHANGED <<serving, connections_, fd_, sock, sbuf, state_, jobs, executed>>
        /\ UNCHANGED <<link, shut, up, down, edge, backlog>>
    BY <1>2 DEF LoopEnd, Stop, linkVars
  <2>2. LinkTypeOK' /\ ServerTypeOK'
    BY <2>1, LoopAtTypes DEF TypeInv, TypeOK, LinkTypeOK, ServerTypeOK
  <2>3. ServerOK'
    BY <2>1 DEF TypeInv, ServerOK, Ended, LoopAt
  <2>4. QED  BY <2>1, <2>2, <2>3, ServerTyped
<1>3. CASE ServerDies
  <2>1. LinkTypeOK' /\ ServerTypeOK' /\ ServerOK' /\ link' = link
    BY <1>3, LoopAtTypes
       DEF ServerDies, TypeInv, TypeOK, LinkTypeOK, ServerTypeOK, ServerOK, Ended, LoopAt
  <2>2. QED  BY <2>1, ServerTyped
<1>4. QED  BY <1>1, <1>2, <1>3

\* The descriptor that a job writes to is its Connection's own.
LEMMA JobOwnsDescriptor ==
    ASSUME TypeInv, DescriptorInv, NEW j \in jobs
    PROVE  j \in Job /\ j.conn \in Conn /\ sock[fd_[j.conn]] = j.conn /\ j.conn \notin shut
<1>1. j \in Job /\ j.conn \in Conn  BY DEF TypeInv, TypeOK, ServerTypeOK, Job
<1>2. Referenced(j.conn)  BY DEF Referenced
<1>3. fd_[j.conn] # NoFd
  BY <1>1, <1>2 DEF DescriptorInv, ReferencedIsOpen
<1>4. QED  BY <1>1, <1>3 DEF DescriptorInv, KernelAgrees, ShutIsClosed

\* The end of a job, or its next step.
LEMMA JobMoveTypes ==
    ASSUME TypeInv, NEW j \in jobs,
           \/ JobEnd(j)
           \/ \E pc \in {"queued", "ran", "writing"} : \E n \in 0 .. Parts - 1 :
                 /\ jobs' = (jobs \ {j}) \cup {JobAt(j, pc, n)}
                 /\ UNCHANGED <<loop, connections_, fd_, sock, shut>>
    PROVE  /\ fd_' \in [Conn -> Fd \cup {NoFd}] /\ sock' \in [Fd -> Conn \cup {NoConn}]
           /\ shut' \subseteq Conn
           /\ jobs' \subseteq Job /\ UNCHANGED <<loop, connections_>>
           /\ ServerOK'
<1>1. jobs \subseteq Job /\ j \in Job  BY DEF TypeInv, TypeOK, ServerTypeOK
<1>2. CASE JobEnd(j)
  BY <1>1, <1>2, ReleaseTypes DEF JobEnd, TypeInv, ServerOK
<1>3. ASSUME NEW pc \in {"queued", "ran", "writing"}, NEW n \in 0 .. Parts - 1,
             jobs' = (jobs \ {j}) \cup {JobAt(j, pc, n)},
             UNCHANGED <<loop, connections_, fd_, sock, shut>>
      PROVE  jobs' \subseteq Job /\ ServerOK'
  <2>1. n \in 0 .. Parts /\ n < Parts  BY ConnectionAssumption
  <2>2. JobAt(j, pc, n) \in Job /\ JobAt(j, pc, n).sent < Parts
    BY <1>1, <2>1 DEF JobAt, Job
  <2>3. QED  BY <1>1, <1>3, <2>2 DEF TypeInv, ServerOK
<1>4. fd_ \in [Conn -> Fd \cup {NoFd}] /\ sock \in [Fd -> Conn \cup {NoConn}] /\ shut \subseteq Conn
  BY DEF TypeInv, TypeOK, LinkTypeOK, ServerTypeOK
<1>5. CASE \E pc \in {"queued", "ran", "writing"} : \E n \in 0 .. Parts - 1 :
              /\ jobs' = (jobs \ {j}) \cup {JobAt(j, pc, n)}
              /\ UNCHANGED <<loop, connections_, fd_, sock, shut>>
  BY <1>3, <1>4, <1>5
<1>6. CASE JobEnd(j)
  BY <1>2, <1>6, ReleaseTypes DEF JobEnd
<1>7. QED  BY <1>5, <1>6

\* Writing a piece either ends the job or moves it on by one.
LEMMA AdvanceMoves ==
    ASSUME TypeInv, NEW j \in jobs, Advance(j)
    PROVE  \/ j.sent + 1 = Parts /\ JobEnd(j)
           \/ /\ j.sent + 1 \in 0 .. Parts - 1
              /\ jobs' = (jobs \ {j}) \cup {JobAt(j, "writing", j.sent + 1)}
              /\ UNCHANGED <<loop, connections_, fd_, sock, shut>>
<1>1. j.sent \in 0 .. Parts /\ j.sent < Parts
  BY DEF TypeInv, TypeOK, ServerTypeOK, ServerOK, Job
<1>2. QED  BY <1>1, ConnectionAssumption DEF Advance

\* A job keeps its connection and its request from step to step.
LEMMA JobKeepsTypes ==
    ASSUME TypeInv, DescriptorInv, NEW j \in jobs, JobStep(j), UNCHANGED clientVars
    PROVE  TypeInv'
<1> DEFINE k == j.conn
<1>1. /\ k \in Conn /\ j.id \in Request /\ j.sent + 1 \in 1 .. Parts
      /\ sock[fd_[k]] = k /\ 0 \in 0 .. Parts - 1
  <2>1. j \in Job /\ j.sent < Parts /\ sock[fd_[k]] = k
    BY JobOwnsDescriptor DEF TypeInv, ServerOK
  <2>2. QED  BY <2>1, ConnectionAssumption DEF Job
<1>2. \/ JobEnd(j)
      \/ \E pc \in {"queued", "ran", "writing"} : \E n \in 0 .. Parts - 1 :
            /\ jobs' = (jobs \ {j}) \cup {JobAt(j, pc, n)}
            /\ UNCHANGED <<loop, connections_, fd_, sock, shut>>
  <2>1. CASE JobRun(j)  BY <1>1, <2>1 DEF JobRun, linkVars
  <2>2. CASE JobTest(j)  BY <1>1, <2>2 DEF JobTest
  <2>3. CASE JobWrite(j) \/ JobWriteClosed(j)
    BY <2>3, AdvanceMoves DEF JobWrite, JobWriteClosed
  <2>4. CASE JobWriteFail(j)  BY <2>4 DEF JobWriteFail
  <2>5. QED  BY <2>1, <2>2, <2>3, <2>4 DEF JobStep
<1>3. /\ fd_' \in [Conn -> Fd \cup {NoFd}] /\ sock' \in [Fd -> Conn \cup {NoConn}]
      /\ shut' \subseteq Conn
      /\ jobs' \subseteq Job /\ UNCHANGED <<loop, connections_>>
      /\ ServerOK'
  BY <1>2, JobMoveTypes
<1>4. executed' \in [Request -> Nat]
  <2>1. executed \in [Request -> Nat]  BY DEF TypeInv, TypeOK, ServerTypeOK
  <2>2. executed' = executed \/ executed' = [executed EXCEPT ![j.id] = @ + 1]
    BY DEF JobStep, JobRun, JobTest, JobWrite, JobWriteClosed, JobWriteFail
  <2>3. QED  BY <1>1, <2>1, <2>2
<1>5. down' \in [Conn -> Seq(Piece)]
  <2>1. down \in [Conn -> Seq(Piece)]  BY DEF TypeInv, TypeOK, LinkTypeOK
  <2>2. [id |-> j.id, part |-> j.sent + 1] \in Piece  BY <1>1 DEF Piece
  <2>3. Append(down[k], [id |-> j.id, part |-> j.sent + 1]) \in Seq(Piece)
    BY <1>1, <2>1, <2>2, AppendProperties
  <2>4. \/ down' = down
        \/ down' = [down EXCEPT ![k] = Append(@, [id |-> j.id, part |-> j.sent + 1])]
    BY <1>1 DEF JobStep, JobRun, JobTest, JobWrite, JobWriteClosed, JobWriteFail, linkVars
  <2>5. QED  BY <1>1, <2>1, <2>3, <2>4
<1>6. /\ link' \in [Conn -> LinkState]
      /\ \A l \in Conn : /\ link[l] = "open" => link'[l] = "open"
                         /\ link'[l] = "free" => link[l] = "free"
  <2>1. link \in [Conn -> LinkState]  BY DEF TypeInv, TypeOK, LinkTypeOK
  <2>2. link' = link \/ (link[k] = "fin" /\ link' = [link EXCEPT ![k] = "reset"])
    BY <1>1 DEF JobStep, JobRun, JobTest, JobWrite, JobWriteClosed, JobWriteFail, linkVars
  <2>3. QED  BY <1>1, <2>1, <2>2 DEF LinkState
<1>7. /\ edge' \in [Conn -> BOOLEAN] /\ state_' \in [Conn -> {"CONNECTED", "DISCONNECTED"}]
      /\ UNCHANGED <<serving, running_, sbuf, up, backlog>>
  <2>1. edge \in [Conn -> BOOLEAN] /\ state_ \in [Conn -> {"CONNECTED", "DISCONNECTED"}]
    BY DEF TypeInv, TypeOK, LinkTypeOK, ServerTypeOK
  <2>2. /\ edge' = edge \/ edge' = [edge EXCEPT ![k] = TRUE]
        /\ state_' = state_ \/ state_' = [state_ EXCEPT ![k] = "DISCONNECTED"]
        /\ UNCHANGED <<serving, running_, sbuf, up, backlog>>
    BY <1>1 DEF JobStep, JobRun, JobTest, JobWrite, JobWriteClosed, JobWriteFail, linkVars
  <2>3. QED  BY <1>1, <2>1, <2>2
<1>8. LinkTypeOK' /\ ServerTypeOK'
  BY <1>3, <1>4, <1>5, <1>6, <1>7 DEF TypeInv, TypeOK, LinkTypeOK, ServerTypeOK
<1>9. QED  BY <1>3, <1>6, <1>8, ServerTyped

\* So every step of the server keeps types and what goes with them.
LEMMA ServerStepKeepsTypes ==
    ASSUME TypeInv, DescriptorInv, ServerStep, UNCHANGED clientVars
    PROVE  TypeInv'
BY AcceptKeepsTypes, LoopEventKeepsTypes, LoopReadKeepsTypes, LoopExtractKeepsTypes,
   LoopMovesKeepTypes, JobKeepsTypes DEF ServerStep, LoopStep

\* Types, and what goes with them, are inductive.
LEMMA TypeNext ==
    ASSUME TypeInv, DescriptorInv, [Next]_vars
    PROVE  TypeInv'
<1>1. CASE UNCHANGED vars
  BY <1>1 DEF vars, linkVars, clientVars, serverVars, TypeInv, TypeOK, LinkTypeOK,
              ClientTypeOK, ServerTypeOK, ClientOK, ClientFits, ConnectionsOwned, ServerOK
<1>2. CASE Next
  BY <1>2, ClientStepKeepsTypes, ServerStepKeepsTypes DEF Next
<1>3. QED  BY <1>1, <1>2

\* Every variable of the clients, the sockets and the server keeps its type.
THEOREM ChannelTypeCorrect == Spec => []TypeOK
<1>1. TypeInv /\ DescriptorInv /\ [Next]_vars => (TypeInv /\ DescriptorInv)'
  BY TypeNext, DescriptorNext
<1>2. TypeInv => TypeOK  BY DEF TypeInv
<1>3. QED  BY <1>1, <1>2, TypeInit, DescriptorInit, PTL DEF Spec

-----------------------------------------------------------------------------
(* The stream of a connection *)

\* What most steps do to k: the sequences stay, what refers to k only goes, and
\* what is dropped is dropped for good.
StreamEases(k) ==
    /\ up'[k] = up[k] /\ sbuf'[k] = sbuf[k] /\ cbuf'[k] = cbuf[k]
    /\ down'[k] = down[k] \/ (down'[k] = <<>> /\ ~Attended(k)')
    /\ JobsOn(k)' \subseteq JobsOn(k)
    /\ Requested(k)' => Requested(k)
    /\ k \in shut => k \in shut'
    /\ link'[k] = "free" => link[k] = "free"
    /\ Attended(k)' => Attended(k)
    /\ \A c \in Client : connection_'[c] = k =>
          /\ connection_[c] = k
          /\ call'[c] \in {"idle", "request"} /\ is_connected_'[c] =>
                call[c] \in {"idle", "request"} /\ is_connected_[c]
          /\ call'[c] = "write" => call[c] = "write" /\ sent'[c] = sent[c]

\* Where a connection only loses what it carries, StreamOK remains.
LEMMA EasedIsOK ==
    ASSUME TypeInv, NEW k \in Conn, StreamOK(k), StreamEases(k)
    PROVE  StreamOK(k)'
<1>1. /\ up[k] \in Seq(Piece) /\ sbuf[k] \in Seq(Piece) /\ down[k] \in Seq(Piece)
      /\ cbuf[k] \in Seq(Piece)
  BY DEF TypeInv, TypeOK, LinkTypeOK, ClientTypeOK, ServerTypeOK
<1>2. RequestInOrder(k)'
  BY DEF StreamEases, StreamOK, RequestInOrder, InOrder
<1>3. ResponseInOrder(k)'
  BY DEF StreamEases, StreamOK, ResponseInOrder, InOrder
<1>4. Unanswered(k) => Unanswered(k)'
  BY DEF StreamEases, Unanswered
<1>5. OnePlace(k)'
  BY <1>4 DEF StreamEases, StreamOK, OnePlace
<1>6. Quiet(k) => Quiet(k)'
  BY DEF StreamEases, Quiet
<1>7. FreshIsQuiet(k)'
  BY <1>6 DEF StreamEases, StreamOK, FreshIsQuiet
<1>8. OwnerOK(k)'
  BY <1>4, <1>6 DEF StreamEases, StreamOK, OwnerOK
<1>9. QED  BY <1>2, <1>3, <1>5, <1>7, <1>8 DEF StreamOK

\* A client that reads from its connection attends to it.
LEMMA CallerAttends ==
    ASSUME TypeInv, NEW c \in Client, call[c] \in InCall \cup {"request"}
    PROVE  /\ connection_[c] \in Conn /\ is_connected_[c] /\ Attended(connection_[c])
           /\ \A d \in Client : connection_[d] = connection_[c] => d = c
BY DEF TypeInv, ClientOK, ClientFits, ConnectionsOwned, Attended, InCall

\* The steps of a client that touch nothing on any connection.
LEMMA ClientEases ==
    ASSUME TypeInv, NEW c \in Client, UNCHANGED serverVars,
           \/ CallBegin(c) \/ ConnectFail(c) \/ SerializeFail(c) \/ WriteFail(c)
           \/ SelectReady(c) \/ SelectTimeout(c) \/ ClientReadEnd(c),
           NEW k \in Conn
    PROVE  StreamEases(k)
<1>1. UNCHANGED <<linkVars, serverVars, cbuf, connection_, sent>>
  BY DEF CallBegin, ConnectFail, SerializeFail, WriteFail, SelectReady, SelectTimeout,
         ClientReadEnd, BreakOff
<1>2. \A d \in Client :
         /\ call'[d] \in {"idle", "request"} /\ is_connected_'[d] =>
               call[d] \in {"idle", "request"} /\ is_connected_[d]
         /\ call'[d] = "write" => call[d] = "write"
         /\ is_connected_'[d] => is_connected_[d]
  BY DEF CallBegin, ConnectFail, SerializeFail, WriteFail, SelectReady, SelectTimeout,
         ClientReadEnd, BreakOff, CallReturn, Connecting, TypeInv, TypeOK, ClientTypeOK,
         ClientOK, ClientFits
<1>3. QED
  BY <1>1, <1>2 DEF StreamEases, linkVars, serverVars, JobsOn, Requested, Attended

\* The steps with which a client closes its end.
LEMMA CloseEases ==
    ASSUME TypeInv, NEW c \in Client, UNCHANGED serverVars,
           Disconnect(c) \/ ClientDies(c), NEW k \in Conn
    PROVE  StreamEases(k)
<1> DEFINE old == connection_[c]
<1>1. /\ link' = LinkClosed(old) /\ ClientEndClosed(old)
      /\ UNCHANGED <<shut, up, backlog, sent, cbuf, serverVars>>
  BY DEF Disconnect, ClientDies
<1>2. /\ \A d \in Client \ {c} : /\ call'[d] = call[d] /\ is_connected_'[d] = is_connected_[d]
                                 /\ connection_'[d] = connection_[d]
      /\ connection_'[c] \in {old, NoConn}
      /\ call'[c] = "dead" \/ connection_'[c] = NoConn
      /\ is_connected_'[c] => is_connected_[c]
  BY DEF Disconnect, ClientDies, TypeInv, TypeOK, ClientTypeOK
<1>3. k = old => ~Attended(k)' /\ down'[k] = <<>> /\ link'[k] # "free"
  BY <1>1, LinkClosedProperties DEF Attended
<1>4. k # old => down'[k] = down[k] /\ link'[k] = link[k]
  BY <1>1, LinkClosedProperties
<1>5. Attended(k)' => Attended(k)
  BY <1>2, <1>3, <1>4, ConnectionAssumption DEF Attended
<1>6. \A d \in Client : connection_'[d] = k =>
          /\ connection_[d] = k
          /\ call'[d] \in {"idle", "request"} /\ is_connected_'[d] =>
                call[d] \in {"idle", "request"} /\ is_connected_[d]
          /\ call'[d] = "write" => call[d] = "write"
  BY <1>2, ConnectionAssumption
<1>7. QED
  BY <1>1, <1>3, <1>4, <1>5, <1>6 DEF StreamEases, serverVars, JobsOn, Requested

\* Connect() takes a connection that has carried nothing.
LEMMA ConnectKeepsStream ==
    ASSUME TypeInv, NEW c \in Client, NEW j \in Conn, Connect(c, j), UNCHANGED serverVars,
           NEW k \in Conn, StreamOK(k)
    PROVE  StreamOK(k)'
<1> DEFINE old == connection_[c]
<1>1. /\ link[j] = "free" /\ ~is_connected_[c]
      /\ link' = [LinkClosed(old) EXCEPT ![j] = "open"]
      /\ ClientEndClosed(old)
      /\ connection_' = [connection_ EXCEPT ![c] = j]
      /\ is_connected_' = [is_connected_ EXCEPT ![c] = TRUE]
      /\ call' = [call EXCEPT ![c] = IF call[c] = "construct" THEN "idle" ELSE "request"]
      /\ UNCHANGED <<shut, up, sent, cbuf>>
  BY DEF Connect, Connecting, Connected, TypeInv, ClientOK, ClientFits
<1>2. /\ \A d \in Client : connection_[d] # j
      /\ connection_'[c] = j /\ call'[c] \in {"idle", "request"} /\ is_connected_'[c]
      /\ \A d \in Client \ {c} : /\ call'[d] = call[d] /\ is_connected_'[d] = is_connected_[d]
                                 /\ connection_'[d] = connection_[d]
  BY <1>1 DEF TypeInv, TypeOK, ClientTypeOK, ClientOK, ClientFits
<1>3. CASE k = j
  <2>1. k # old  BY <1>2, <1>3
  <2>2. Quiet(k)  BY <1>1, <1>3 DEF StreamOK, FreshIsQuiet
  <2>3. down'[k] = down[k]  BY <1>1, <2>1, LinkClosedProperties
  <2>4. Quiet(k)'
    BY <1>1, <2>2, <2>3 DEF Quiet, JobsOn, Requested, serverVars
  <2>5. Unanswered(k)'  BY <2>4 DEF Quiet, Unanswered
  <2>6. RequestInOrder(k)' /\ ResponseInOrder(k)'
    BY <2>4, ConnectionAssumption DEF Quiet, RequestInOrder, ResponseInOrder, InOrder
  <2>7. OnePlace(k)' /\ FreshIsQuiet(k)'
    BY <2>4, <2>5 DEF Quiet, OnePlace, FreshIsQuiet
  <2>8. OwnerOK(k)'
    BY <1>2, <1>3, <2>4 DEF OwnerOK
  <2>9. QED  BY <2>6, <2>7, <2>8 DEF StreamOK
<1>4. CASE k # j
  <2>1. k = old => ~Attended(k)' /\ down'[k] = <<>> /\ link'[k] # "free"
    <3>1. k = old => link'[k] \in {"fin", "reset"} /\ down'[k] = <<>>
      BY <1>1, <1>4, LinkClosedProperties
    <3>2. QED  BY <3>1 DEF Attended
  <2>2. k # old => down'[k] = down[k] /\ link'[k] = link[k]
    BY <1>1, <1>4, LinkClosedProperties
  <2>3. Attended(k)' => Attended(k)
    BY <1>2, <1>4, <2>1, <2>2 DEF Attended
  <2>4. StreamEases(k)
    BY <1>1, <1>2, <1>4, <2>1, <2>2, <2>3 DEF StreamEases, serverVars, JobsOn, Requested
  <2>5. QED  BY <2>4, EasedIsOK
<1>5. QED  BY <1>3, <1>4

\* What a step of a call does to the other connections: nothing.
LEMMA OthersEase ==
    ASSUME TypeInv, NEW c \in Client, UNCHANGED serverVars,
           UNCHANGED <<link, shut, connection_>>,
           NEW k \in Conn, k # connection_[c],
           up'[k] = up[k], down'[k] = down[k], cbuf'[k] = cbuf[k],
           \A d \in Client \ {c} : /\ call'[d] = call[d] /\ sent'[d] = sent[d]
                                   /\ is_connected_'[d] = is_connected_[d]
    PROVE  StreamEases(k)
BY DEF StreamEases, serverVars, JobsOn, Requested, Attended

\* A request is made when nothing is on the connection.
LEMMA MakeRequestKeepsStream ==
    ASSUME TypeInv, NEW c \in Client, MakeRequest(c), UNCHANGED serverVars,
           NEW k \in Conn, StreamOK(k)
    PROVE  StreamOK(k)'
<1>1. /\ call[c] = "request" /\ is_connected_[c]
      /\ call' = [call EXCEPT ![c] = "write"] /\ sent' = [sent EXCEPT ![c] = 0]
      /\ UNCHANGED <<connection_, is_connected_, cbuf, linkVars>>
      /\ \A d \in Client : connection_[d] = connection_[c] => d = c
  BY CallerAttends DEF MakeRequest
<1>2. /\ call'[c] = "write" /\ sent'[c] = 0
      /\ \A d \in Client \ {c} : call'[d] = call[d] /\ sent'[d] = sent[d]
  BY <1>1 DEF TypeInv, TypeOK, ClientTypeOK
<1>3. CASE k = connection_[c]
  <2>1. Quiet(k)  BY <1>1, <1>3 DEF StreamOK, OwnerOK
  <2>2. Quiet(k)'  BY <1>1, <2>1 DEF Quiet, JobsOn, Requested, serverVars, linkVars
  <2>3. Unanswered(k)'  BY <2>2 DEF Quiet, Unanswered
  <2>4. RequestInOrder(k)' /\ ResponseInOrder(k)'
    BY <2>2, ConnectionAssumption DEF Quiet, RequestInOrder, ResponseInOrder, InOrder
  <2>5. OnePlace(k)' /\ FreshIsQuiet(k)'
    BY <2>2, <2>3 DEF Quiet, OnePlace, FreshIsQuiet
  <2>6. OwnerOK(k)'
    BY <1>1, <1>2, <1>3, <2>2, <2>3 DEF OwnerOK, Quiet
  <2>7. QED  BY <2>4, <2>5, <2>6 DEF StreamOK
<1>4. CASE k # connection_[c]
  BY <1>1, <1>2, <1>4, OthersEase, EasedIsOK DEF linkVars
<1>5. QED  BY <1>3, <1>4

\* The next piece of a request comes after those that the server can read.
LEMMA WritePieceKeepsStream ==
    ASSUME TypeInv, NEW c \in Client, WritePiece(c), UNCHANGED serverVars,
           NEW k \in Conn, StreamOK(k)
    PROVE  StreamOK(k)'
<1> DEFINE piece == [id |-> [from |-> c, seq |-> sequence_id_[c]], part |-> sent[c] + 1]
<1>1. /\ call[c] = "write" /\ connection_[c] \in Conn
      /\ sent' = [sent EXCEPT ![c] = sent[c] + 1]
      /\ call' = IF sent[c] + 1 = Parts THEN [call EXCEPT ![c] = "select"] ELSE call
      /\ UNCHANGED <<link, shut, down, connection_, is_connected_, cbuf>>
      /\ \A d \in Client : connection_[d] = connection_[c] => d = c
  BY CallerAttends DEF WritePiece, InCall
<1>2. /\ sent[c] \in Nat /\ sent[c] < Parts /\ piece \in Piece
      /\ call'[c] \in {"write", "select"} /\ sent'[c] = sent[c] + 1
      /\ \A d \in Client \ {c} : call'[d] = call[d] /\ sent'[d] = sent[d]
  <2>1. sent[c] \in 0 .. Parts /\ sent[c] < Parts /\ sequence_id_[c] \in 1 .. MaxCalls
    BY <1>1, ConnectionAssumption
       DEF TypeInv, TypeOK, ClientTypeOK, ClientOK, ClientFits, InCall
  <2>2. sent[c] + 1 \in 1 .. Parts  BY <2>1, ConnectionAssumption
  <2>3. piece \in Piece  BY <2>1, <2>2 DEF Piece, Request
  <2>4. QED  BY <1>1, <2>1, <2>3 DEF TypeInv, TypeOK, ClientTypeOK
<1>3. CASE k # connection_[c]
  <2>1. up'[k] = up[k]
    BY <1>1, <1>3 DEF WritePiece, TypeInv, TypeOK, LinkTypeOK
  <2>2. QED  BY <1>1, <1>2, <1>3, <2>1, OthersEase, EasedIsOK
<1>4. CASE k = connection_[c]
  <2>1. /\ up[k] \in Seq(Piece) /\ Len(up[k]) \in Nat /\ Len(sbuf[k]) \in Nat
    BY LenProperties DEF TypeInv, TypeOK, LinkTypeOK, ServerTypeOK
  <2>2. Unanswered(k) /\ Unanswered(k)'
    BY <1>1, <1>4 DEF StreamOK, OwnerOK, Unanswered, JobsOn, Requested, serverVars
  <2>3. sbuf' = sbuf /\ link[k] # "free"
    BY <1>1, <1>4 DEF serverVars, TypeInv, ClientOK, ClientFits
  <2>4. CASE k \in shut
    <3>1. up' = up  BY <1>4, <2>4 DEF WritePiece
    <3>2. RequestInOrder(k)'
      BY <1>1, <2>3, <2>4, <3>1 DEF StreamOK, RequestInOrder
    <3>3. OwnerOK(k)'
      BY <1>1, <1>2, <1>4, <2>2, <2>4 DEF OwnerOK
    <3>4. QED  BY <3>2, <3>3, <1>1, <2>2, <2>3
               DEF StreamOK, ResponseInOrder, InOrder, Attended, OnePlace, FreshIsQuiet,
                   Unanswered
  <2>5. CASE k \notin shut
    <3>1. up'[k] = Append(up[k], piece)
      BY <1>4, <2>5 DEF WritePiece, TypeInv, TypeOK, LinkTypeOK
    <3>2. /\ Len(up'[k]) = Len(up[k]) + 1
          /\ \A i \in 1 .. Len(up[k]) : up'[k][i] = up[k][i]
          /\ up'[k][Len(up[k]) + 1] = piece
      BY <1>2, <2>1, <3>1, AppendProperties
    <3>3. Len(sbuf[k]) + Len(up[k]) = sent[c]
      BY <1>1, <1>4, <2>5 DEF StreamOK, OwnerOK
    <3>4. InOrder(up[k], Len(sbuf[k]))  BY <2>5 DEF StreamOK, RequestInOrder
    <3>5. InOrder(up'[k], Len(sbuf[k]))
      <4> SUFFICES ASSUME NEW i \in 1 .. Len(up[k]) + 1
                   PROVE  up'[k][i].part = Len(sbuf[k]) + i
        BY <3>2 DEF InOrder
      <4>1. CASE i \in 1 .. Len(up[k])  BY <3>2, <3>4, <4>1 DEF InOrder
      <4>2. CASE i = Len(up[k]) + 1
        <5> DEFINE inBuffer == Len(sbuf[k])
                   onTheWay == Len(up[k])
        <5>1. /\ inBuffer \in Nat /\ onTheWay \in Nat /\ inBuffer + onTheWay = sent[c]
              /\ i = onTheWay + 1
          BY <2>1, <3>3, <4>2
        <5>2. up'[k][i].part = sent[c] + 1  BY <3>2, <4>2
        <5> HIDE DEF inBuffer, onTheWay
        <5>3. up'[k][i].part = inBuffer + i  BY <5>1, <5>2
        <5>4. QED  BY <5>3 DEF inBuffer
      <4>3. QED  BY <2>1, <4>1, <4>2
    <3>6. Len(sbuf[k]) + Len(up'[k]) = sent[c] + 1 /\ sent[c] + 1 <= Parts
      <4> DEFINE inBuffer == Len(sbuf[k])
                 onTheWay == Len(up[k])
      <4>1. /\ inBuffer \in Nat /\ onTheWay \in Nat /\ inBuffer + onTheWay = sent[c]
            /\ Len(up'[k]) = onTheWay + 1
        BY <2>1, <3>2, <3>3
      <4>2. sent[c] \in Nat /\ sent[c] < Parts /\ Parts \in Nat
        BY <1>2, ConnectionAssumption
      <4> HIDE DEF inBuffer, onTheWay
      <4>3. inBuffer + Len(up'[k]) = sent[c] + 1 /\ sent[c] + 1 <= Parts
        BY <4>1, <4>2
      <4>4. QED  BY <4>3 DEF inBuffer
    <3>7. RequestInOrder(k)'
      BY <1>1, <2>3, <3>5, <3>6 DEF StreamOK, RequestInOrder
    <3>8. OwnerOK(k)'
      BY <1>1, <1>2, <1>4, <2>2, <2>3, <3>6 DEF OwnerOK
    <3>9. QED  BY <3>7, <3>8, <1>1, <2>2, <2>3
               DEF StreamOK, ResponseInOrder, InOrder, Attended, OnePlace, FreshIsQuiet,
                   Unanswered
  <2>6. QED  BY <2>4, <2>5
<1>5. QED  BY <1>3, <1>4

\* What a client reads is moved, or lost with the connection.
LEMMA ClientReadKeepsStream ==
    ASSUME TypeInv, NEW c \in Client, ClientRead(c), UNCHANGED serverVars,
           NEW k \in Conn, StreamOK(k)
    PROVE  StreamOK(k)'
<1>1. /\ call[c] = "read" /\ connection_[c] \in Conn /\ Attended(connection_[c])
      /\ UNCHANGED <<link, shut, up, connection_, sent>>
      /\ \A d \in Client : connection_[d] = connection_[c] => d = c
  BY CallerAttends DEF ClientRead, BreakOff, InCall
<1>2. PICK r \in Reads(down[connection_[c]]) :
         /\ down' = [down EXCEPT ![connection_[c]] = Without(@, r.n)]
         /\ \/ BreakOff(c) /\ UNCHANGED cbuf
            \/ /\ cbuf' = [cbuf EXCEPT ![connection_[c]] = @ \o First(down[connection_[c]], r.n)]
               /\ call' = call \/ call' = [call EXCEPT ![c] = "extract"]
               /\ UNCHANGED is_connected_
  BY DEF ClientRead
<1>3. /\ \A d \in Client \ {c} : call'[d] = call[d] /\ is_connected_'[d] = is_connected_[d]
      /\ \/ call'[c] \in {"read", "extract"}
         \/ BreakOff(c) /\ call'[c] = "idle" /\ ~is_connected_'[c]
  BY <1>1, <1>2 DEF BreakOff, CallReturn, TypeInv, TypeOK, ClientTypeOK
<1>4. CASE k # connection_[c]
  <2>1. down'[k] = down[k] /\ cbuf'[k] = cbuf[k]
    BY <1>2, <1>4 DEF TypeInv, TypeOK, LinkTypeOK, ClientTypeOK
  <2>2. QED  BY <1>1, <1>3, <1>4, <2>1, OthersEase, EasedIsOK
<1>5. CASE k = connection_[c]
  <2>1. /\ down[k] \in Seq(Piece) /\ cbuf[k] \in Seq(Piece) /\ down[k] # <<>>
        /\ Len(down[k]) \in Nat /\ Len(cbuf[k]) \in Nat
    BY <1>5, LenProperties DEF ClientRead, TypeInv, TypeOK, LinkTypeOK, ClientTypeOK
  <2>2. r.n \in 0 .. Len(down[k])
    BY <1>2, <1>5, <2>1, ReadsProperties
  <2>3. /\ up[k] = <<>> /\ sbuf[k] = <<>> /\ ~Requested(k)
        /\ \A j \in JobsOn(k) : j.pc = "writing" /\ Len(cbuf[k]) + Len(down[k]) = j.sent
    BY <1>1, <1>5, <2>1 DEF StreamOK, OnePlace, Unanswered
  <2>4. /\ InOrder(cbuf[k], 0) /\ InOrder(down[k], Len(cbuf[k]))
        /\ Len(cbuf[k]) + Len(down[k]) <= Parts
    BY <1>1, <1>5 DEF StreamOK, ResponseInOrder
  <2>5. RequestInOrder(k)'
    BY <1>1 DEF StreamOK, RequestInOrder, InOrder, serverVars
  <2>6. FreshIsQuiet(k)'
    BY <1>1, <1>5 DEF FreshIsQuiet, Attended
  <2>7. OwnerOK(k)'
    BY <1>1, <1>3, <1>5 DEF OwnerOK
  <2>8. UNCHANGED <<up, sbuf, loop, jobs>> /\ JobsOn(k)' = JobsOn(k)
    BY <1>1 DEF serverVars, JobsOn
  <2>9. CASE cbuf' = [cbuf EXCEPT ![k] = @ \o First(down[k], r.n)]
    <3>1. /\ cbuf'[k] = cbuf[k] \o First(down[k], r.n) /\ down'[k] = Without(down[k], r.n)
      BY <1>2, <1>5, <2>9 DEF TypeInv, TypeOK, LinkTypeOK, ClientTypeOK
    <3>2. /\ Len(cbuf'[k]) = Len(cbuf[k]) + r.n /\ Len(down'[k]) = Len(down[k]) - r.n
          /\ InOrder(cbuf'[k], 0) /\ InOrder(down'[k], Len(cbuf'[k]))
      <4> DEFINE d == down[k]
                 b == cbuf[k]
      <4>1. /\ d \in Seq(Piece) /\ b \in Seq(Piece) /\ r.n \in 0 .. Len(d)
            /\ InOrder(b, 0) /\ InOrder(d, Len(b))
        BY <2>1, <2>2, <2>4
      <4> HIDE DEF d, b
      <4>2. /\ Len(b \o First(d, r.n)) = Len(b) + r.n /\ Len(Without(d, r.n)) = Len(d) - r.n
            /\ InOrder(b \o First(d, r.n), 0)
            /\ InOrder(Without(d, r.n), Len(b \o First(d, r.n)))
        BY <4>1, MovedInOrder
      <4>3. QED  BY <3>1, <4>2 DEF d, b
    <3>3. /\ Len(cbuf'[k]) + Len(down'[k]) = Len(cbuf[k]) + Len(down[k])
          /\ Len(cbuf'[k]) <= Parts /\ Len(cbuf'[k]) + Len(down'[k]) <= Parts
      <4> DEFINE inBuffer == Len(cbuf[k])
                 onTheWay == Len(down[k])
                 n == r.n
      <4>1. /\ inBuffer \in Nat /\ onTheWay \in Nat /\ n \in 0 .. onTheWay /\ Parts \in Nat
            /\ inBuffer + onTheWay <= Parts
        BY <2>1, <2>2, <2>4, ConnectionAssumption
      <4>2. Len(cbuf'[k]) = inBuffer + n /\ Len(down'[k]) = onTheWay - n
        BY <3>2
      <4> HIDE DEF inBuffer, onTheWay, n
      <4>3. /\ Len(cbuf'[k]) + Len(down'[k]) = inBuffer + onTheWay
            /\ Len(cbuf'[k]) <= Parts /\ Len(cbuf'[k]) + Len(down'[k]) <= Parts
        BY <4>1, <4>2
      <4>4. QED  BY <4>3 DEF inBuffer, onTheWay
    <3>4. ResponseInOrder(k)'
      BY <3>2, <3>3 DEF ResponseInOrder
    <3>5. OnePlace(k)'
      BY <2>3, <2>8, <3>3 DEF StreamOK, OnePlace, Requested
    <3>6. QED  BY <2>5, <2>6, <2>7, <3>4, <3>5 DEF StreamOK
  <2>10. CASE BreakOff(c) /\ UNCHANGED cbuf
    <3>1. ~Attended(k)'
      BY <1>1, <1>5, <2>10 DEF Attended, BreakOff, TypeInv, TypeOK, ClientTypeOK
    <3>2. ResponseInOrder(k)'
      BY <2>10, <3>1 DEF StreamOK, ResponseInOrder, InOrder
    <3>3. OnePlace(k)'
      BY <2>3, <2>8, <2>10, <3>1 DEF StreamOK, OnePlace, Requested
    <3>4. QED  BY <2>5, <2>6, <2>7, <3>2, <3>3 DEF StreamOK
  <2>11. QED  BY <1>2, <1>5, <2>9, <2>10
<1>6. QED  BY <1>4, <1>5

\* A buffer that may hold pieces of one request only is extracted as a whole.
LEMMA BuffersInOrder ==
    ASSUME TypeInv, NEW k \in Conn, StreamOK(k), IdsOK(k)
    PROVE  /\ FrameStatus(sbuf[k]) = IF Len(sbuf[k]) < Parts THEN "kIncomplete" ELSE "kComplete"
           /\ FrameStatus(cbuf[k]) = IF Len(cbuf[k]) < Parts THEN "kIncomplete" ELSE "kComplete"
           /\ Len(sbuf[k]) = Parts => AfterFrame(sbuf[k]) = <<>> /\ sbuf[k][1].id \in Ids(sbuf[k])
           /\ Len(cbuf[k]) = Parts => AfterFrame(cbuf[k]) = <<>> /\ cbuf[k][1].id \in Ids(cbuf[k])
<1>1. sbuf[k] \in Seq(Piece) /\ cbuf[k] \in Seq(Piece)
  BY DEF TypeInv, TypeOK, ClientTypeOK, ServerTypeOK
<1>2. /\ InOrder(sbuf[k], 0) /\ Len(sbuf[k]) <= Parts
      /\ InOrder(cbuf[k], 0) /\ Len(cbuf[k]) <= Parts
  BY DEF StreamOK, RequestInOrder, ResponseInOrder
<1>3. /\ \A r, q \in Ids(sbuf[k]) : r = q
      /\ \A r, q \in Ids(cbuf[k]) : r = q
  BY DEF IdsOK, OnTheWay, Early, Late
<1>4. QED  BY <1>1, <1>2, <1>3, FrameInOrder

\* The client that has its answer leaves an empty connection.
LEMMA ClientExtractKeepsStream ==
    ASSUME TypeInv, NEW c \in Client, ClientExtract(c), UNCHANGED serverVars,
           NEW k \in Conn, StreamOK(k), IdsOK(k)
    PROVE  StreamOK(k)'
<1>1. /\ call[c] = "extract" /\ connection_[c] \in Conn /\ Attended(connection_[c])
      /\ UNCHANGED <<linkVars, connection_, sent>>
      /\ cbuf' = cbuf \/ cbuf' = [cbuf EXCEPT ![connection_[c]] = AfterFrame(@)]
      /\ \A d \in Client : connection_[d] = connection_[c] => d = c
  BY CallerAttends DEF ClientExtract, BreakOff, InCall
<1>2. /\ \A d \in Client \ {c} : call'[d] = call[d] /\ is_connected_'[d] = is_connected_[d]
      /\ call'[c] \in {"select", "idle"} /\ (is_connected_'[c] => is_connected_[c])
  BY <1>1 DEF ClientExtract, BreakOff, CallReturn, TypeInv, TypeOK, ClientTypeOK
<1>3. CASE k # connection_[c]
  <2>1. cbuf'[k] = cbuf[k]  BY <1>1, <1>3 DEF TypeInv, TypeOK, ClientTypeOK
  <2>2. QED  BY <1>1, <1>2, <1>3, <2>1, OthersEase, EasedIsOK DEF linkVars
<1>4. CASE k = connection_[c]
  <2>1. CASE Len(cbuf[k]) < Parts
    <3>1. FrameStatus(cbuf[k]) = "kIncomplete"  BY <2>1, BuffersInOrder
    <3>2. cbuf' = cbuf /\ call'[c] = "select" /\ UNCHANGED is_connected_
      BY <1>4, <3>1 DEF ClientExtract, TypeInv, TypeOK, ClientTypeOK
    <3>3. StreamEases(k)
      BY <1>1, <1>2, <1>4, <3>2
         DEF StreamEases, linkVars, serverVars, JobsOn, Requested, Attended
    <3>4. QED  BY <3>3, EasedIsOK
  <2>2. CASE ~(Len(cbuf[k]) < Parts)
    <3>1. /\ Len(cbuf[k]) = Parts /\ Len(down[k]) = 0 /\ Parts > 0
          /\ down[k] = <<>> /\ cbuf[k] # <<>>
      <4>1. /\ down[k] \in Seq(Piece) /\ cbuf[k] \in Seq(Piece)
            /\ Len(down[k]) \in Nat /\ Len(cbuf[k]) \in Nat
        BY LenProperties DEF TypeInv, TypeOK, LinkTypeOK, ClientTypeOK
      <4>2. Len(cbuf[k]) <= Parts /\ Len(cbuf[k]) + Len(down[k]) <= Parts
        BY <1>1, <1>4 DEF StreamOK, ResponseInOrder
      <4>3. Parts \in Nat \ {0}  BY ConnectionAssumption
      <4>4. Len(cbuf[k]) = Parts /\ Len(down[k]) = 0 /\ Parts > 0
        <5> DEFINE inBuffer == Len(cbuf[k])
                   onTheWay == Len(down[k])
        <5>1. /\ inBuffer \in Nat /\ onTheWay \in Nat /\ Parts \in Nat \ {0}
              /\ inBuffer <= Parts /\ inBuffer + onTheWay <= Parts /\ ~(inBuffer < Parts)
          BY <2>2, <4>1, <4>2, <4>3
        <5> HIDE DEF inBuffer, onTheWay
        <5>2. inBuffer = Parts /\ onTheWay = 0 /\ Parts > 0  BY <5>1
        <5>3. QED  BY <5>2 DEF inBuffer, onTheWay
      <4>5. QED  BY <4>1, <4>4, EmptySeq
    <3>2. cbuf'[k] = <<>>
      <4>1. FrameStatus(cbuf[k]) # "kIncomplete" /\ AfterFrame(cbuf[k]) = <<>>
        BY <2>2, <3>1, BuffersInOrder
      <4>2. QED  BY <1>4, <4>1 DEF ClientExtract, TypeInv, TypeOK, ClientTypeOK
    <3>3. up[k] = <<>> /\ sbuf[k] = <<>> /\ ~Requested(k) /\ JobsOn(k) = {}
      <4>1. up[k] = <<>> /\ sbuf[k] = <<>> /\ ~Requested(k)
        BY <3>1 DEF StreamOK, OnePlace, Unanswered
      <4>2. ASSUME NEW j \in JobsOn(k) PROVE FALSE
        <5>1. j.sent < Parts  BY DEF TypeInv, ServerOK, JobsOn
        <5>2. j.sent = Len(cbuf[k]) + Len(down[k])
          BY <1>1, <1>4, <3>1 DEF StreamOK, OnePlace
        <5>3. QED  BY <3>1, <5>1, <5>2, ConnectionAssumption
      <4>3. QED  BY <4>1, <4>2
    <3>4. Quiet(k)'
      BY <1>1, <3>1, <3>2, <3>3 DEF Quiet, JobsOn, Requested, linkVars, serverVars
    <3>5. RequestInOrder(k)' /\ ResponseInOrder(k)'
      BY <3>4, ConnectionAssumption DEF Quiet, RequestInOrder, ResponseInOrder, InOrder
    <3>6. OnePlace(k)' /\ FreshIsQuiet(k)'
      BY <3>4 DEF Quiet, Unanswered, OnePlace, FreshIsQuiet
    <3>7. OwnerOK(k)'
      BY <1>1, <1>2, <1>4, <3>4 DEF OwnerOK
    <3>8. QED  BY <3>5, <3>6, <3>7 DEF StreamOK
  <2>3. QED  BY <2>1, <2>2
<1>5. QED  BY <1>3, <1>4

-----------------------------------------------------------------------------
(* The server's side of the stream *)

\* What a step of the server must do for a connection to lose only.
LEMMA ServerEases ==
    ASSUME UNCHANGED clientVars, NEW k \in Conn,
           up'[k] = up[k], sbuf'[k] = sbuf[k], down'[k] = down[k],
           JobsOn(k)' \subseteq JobsOn(k), Requested(k)' => Requested(k),
           k \in shut => k \in shut',
           link'[k] = link[k] \/ (link[k] = "fin" /\ link'[k] = "reset")
    PROVE  StreamEases(k)
BY DEF StreamEases, Attended, clientVars

\* The steps that only let go of connections.
LEMMA LetGoEases ==
    ASSUME TypeInv, UNCHANGED clientVars, NEW k \in Conn,
           \/ \E l \in Conn : Accept(l) \/ AcceptFail(l)
           \/ \E f \in Fd : LoopEvent(f)
           \/ LoopReadNothing \/ LoopEnd \/ Stop \/ ServerDies
    PROVE  StreamEases(k)
<1>1. UNCHANGED <<link, up, down, sbuf>>
  BY DEF Accept, AcceptFail, LoopEvent, LoopReadNothing, ReadEnds, ReadFails, LoopEnd, Stop,
         ServerDies, linkVars, serverVars
<1>2. shut \subseteq shut' /\ jobs' \subseteq jobs
  <2>1. CASE \E l \in Conn : Accept(l) \/ AcceptFail(l)
    BY <2>1 DEF Accept, AcceptFail, serverVars
  <2>2. CASE \E f \in Fd : LoopEvent(f)
    BY <2>2, RemoveTypes DEF LoopEvent
  <2>3. CASE LoopReadNothing
    BY <2>3, RemoveTypes DEF LoopReadNothing, ReadEnds, ReadFails
  <2>4. CASE LoopEnd \/ Stop  BY <2>4 DEF LoopEnd, Stop, linkVars
  <2>5. CASE ServerDies
    BY <2>5 DEF ServerDies, TypeInv, TypeOK, LinkTypeOK
  <2>6. QED  BY <2>1, <2>2, <2>3, <2>4, <2>5
<1>3. Requested(k)' => Requested(k)
  BY DEF Requested, Accept, AcceptFail, LoopEvent, LoopReadNothing, ReadEnds, ReadFails,
         RemoveConnection, LoopEnd, Stop, ServerDies, linkVars, serverVars, Waiting, Ended, LoopAt
<1>4. QED
  BY <1>1, <1>2, <1>3, ServerEases DEF JobsOn

\* What the server reads is moved, or lost with the connection: a Connection
\* whose Read() fails is in no job, and nobody else refers to it.
LEMMA LoopReadKeepsStream ==
    ASSUME TypeInv, DescriptorInv, UNCHANGED clientVars, LoopRead, NEW k \in Conn, StreamOK(k)
    PROVE  StreamOK(k)'
<1>1. /\ loop.pc = "read" /\ loop.conn \in Conn /\ up[loop.conn] # <<>>
      /\ UNCHANGED <<link, down>>
  BY LoopTypes DEF LoopRead
<1>2. PICK r \in Reads(up[loop.conn]) :
         /\ up' = [up EXCEPT ![loop.conn] = Without(@, r.n)]
         /\ \/ ReadFails(loop.conn)
            \/ /\ sbuf' = [sbuf EXCEPT ![loop.conn] = @ \o First(up[loop.conn], r.n)]
               /\ loop' = loop \/ loop' = LoopAt("extract", loop.conn, NoRequest)
               /\ UNCHANGED <<jobs, shut>>
  BY <1>1 DEF LoopRead, ReadEnds
<1>3. jobs' = jobs /\ shut \subseteq shut' /\ ~Requested(k)'
  <2>1. CASE ReadFails(loop.conn)
    BY <2>1, RemoveTypes DEF ReadFails, Requested, Waiting, LoopAt
  <2>2. CASE /\ loop' = loop \/ loop' = LoopAt("extract", loop.conn, NoRequest)
             /\ UNCHANGED <<jobs, shut>>
    BY <1>1, <2>2 DEF Requested, LoopAt
  <2>3. QED  BY <1>2, <2>1, <2>2
<1>4. CASE k # loop.conn
  <2>1. up'[k] = up[k] /\ sbuf'[k] = sbuf[k]
    BY <1>2, <1>4 DEF ReadFails, TypeInv, TypeOK, LinkTypeOK, ServerTypeOK
  <2>2. QED  BY <1>1, <1>3, <2>1, ServerEases, EasedIsOK DEF JobsOn
<1>5. CASE k = loop.conn
  <2>1. k \notin shut
    BY <1>5 DEF Referenced, DescriptorInv, ReferencedIsOpen, ShutIsClosed
  <2>2. Unanswered(k) /\ Unanswered(k)'
    BY <1>1, <1>3, <1>5 DEF StreamOK, OnePlace, Unanswered, JobsOn, Requested, clientVars
  <2>3. ResponseInOrder(k)' /\ OnePlace(k)'
    BY <1>1, <1>3, <2>2
       DEF StreamOK, ResponseInOrder, InOrder, Attended, OnePlace, Unanswered, clientVars
  <2>4. ~Quiet(k) /\ FreshIsQuiet(k)'
    BY <1>1, <1>5 DEF StreamOK, Quiet, FreshIsQuiet
  <2>5. InOrder(sbuf[k], 0) /\ InOrder(up[k], Len(sbuf[k])) /\ Len(sbuf[k]) <= Parts
    BY <2>1 DEF StreamOK, RequestInOrder
  <2>6. CASE ReadFails(k)
    <3>1. k \in shut'
      <4>1. /\ connections_' = [connections_ EXCEPT ![fd_[k]] = NoConn] /\ loop' = Waiting
            /\ Release
        BY <2>6 DEF ReadFails, RemoveConnection
      <4>2. ~Referenced(k)'
        BY <1>3, <2>2, <4>1, ConnectionAssumption
           DEF Referenced, Unanswered, JobsOn, Waiting, LoopAt, DescriptorInv, TablesOK,
               ConnectionsAgree
      <4>3. fd_[k] # NoFd
        BY <1>5 DEF Referenced, DescriptorInv, ReferencedIsOpen
      <4>4. QED  BY <4>1, <4>2, <4>3 DEF Release, Closing
    <3>2. sbuf' = sbuf  BY <2>6 DEF ReadFails
    <3>3. RequestInOrder(k)'
      BY <2>5, <3>1, <3>2 DEF RequestInOrder
    <3>4. OwnerOK(k)'
      BY <2>2, <2>4, <3>1 DEF StreamOK, OwnerOK, clientVars
    <3>5. QED  BY <2>3, <2>4, <3>3, <3>4 DEF StreamOK
  <2>7. CASE sbuf' = [sbuf EXCEPT ![k] = @ \o First(up[k], r.n)] /\ UNCHANGED shut
    <3> DEFINE d == up[k]
               b == sbuf[k]
               n == r.n
    <3>1. /\ d \in Seq(Piece) /\ b \in Seq(Piece) /\ n \in 0 .. Len(d)
          /\ InOrder(b, 0) /\ InOrder(d, Len(b))
      <4>1. up[k] \in Seq(Piece) /\ sbuf[k] \in Seq(Piece)
        BY DEF TypeInv, TypeOK, LinkTypeOK, ServerTypeOK
      <4>2. r.n \in 1 .. Len(up[k])  BY <1>1, <1>2, <1>5, <4>1, ReadsProperties
      <4>3. QED  BY <2>5, <4>1, <4>2
    <3>2. sbuf'[k] = b \o First(d, n) /\ up'[k] = Without(d, n)
      BY <1>2, <1>5, <2>7 DEF TypeInv, TypeOK, LinkTypeOK, ServerTypeOK
    <3>3. /\ Len(sbuf[k]) + Len(up[k]) = Len(b) + Len(d) /\ Len(b) + Len(d) <= Parts
      BY <2>1 DEF StreamOK, RequestInOrder
    <3> HIDE DEF d, b, n
    <3>4. /\ Len(sbuf'[k]) = Len(b) + n /\ Len(up'[k]) = Len(d) - n
          /\ InOrder(sbuf'[k], 0) /\ InOrder(up'[k], Len(sbuf'[k]))
      BY <3>1, <3>2, MovedInOrder
    <3>5. Len(b) \in Nat /\ Len(d) \in Nat  BY <3>1, LenProperties
    <3>6. Len(sbuf'[k]) <= Parts /\ Len(sbuf'[k]) + Len(up'[k]) = Len(sbuf[k]) + Len(up[k])
      <4> DEFINE inBuffer == Len(b)
                 onTheWay == Len(d)
      <4>1. /\ inBuffer \in Nat /\ onTheWay \in Nat /\ n \in 0 .. onTheWay /\ Parts \in Nat
            /\ inBuffer + onTheWay <= Parts
            /\ Len(sbuf'[k]) = inBuffer + n /\ Len(up'[k]) = onTheWay - n
        BY <3>1, <3>3, <3>4, <3>5, ConnectionAssumption
      <4> HIDE DEF inBuffer, onTheWay
      <4>2. Len(sbuf'[k]) <= Parts /\ Len(sbuf'[k]) + Len(up'[k]) = inBuffer + onTheWay
        BY <4>1
      <4>3. QED  BY <3>3, <4>2 DEF inBuffer, onTheWay
    <3>7. RequestInOrder(k)'
      BY <2>1, <3>3, <3>4, <3>6 DEF RequestInOrder
    <3>8. OwnerOK(k)'
      BY <2>1, <2>2, <2>4, <3>6 DEF StreamOK, OwnerOK, clientVars
    <3>9. QED  BY <2>3, <2>4, <3>7, <3>8 DEF StreamOK
  <2>8. QED  BY <1>2, <1>5, <2>6, <2>7
<1>6. QED  BY <1>4, <1>5

\* ExtractFrame() takes the whole request.
LEMMA LoopExtractKeepsStream ==
    ASSUME TypeInv, DescriptorInv, UNCHANGED clientVars, LoopExtract,
           NEW k \in Conn, StreamOK(k), IdsOK(k)
    PROVE  StreamOK(k)'
<1>1. /\ loop.pc = "extract" /\ loop.conn \in Conn
      /\ UNCHANGED <<link, up, down>> /\ jobs' = jobs /\ shut \subseteq shut'
  BY LoopTypes, ReleaseTypes, RemoveTypes DEF LoopExtract
<1>2. CASE k # loop.conn
  <2>1. sbuf'[k] = sbuf[k]
    BY <1>1, <1>2 DEF LoopExtract, TypeInv, TypeOK, ServerTypeOK
  <2>2. ~Requested(k)'
    BY <1>1, <1>2 DEF LoopExtract, RemoveConnection, Requested, Waiting, LoopAt
  <2>3. QED  BY <1>1, <2>1, <2>2, ServerEases, EasedIsOK DEF JobsOn
<1>3. CASE k = loop.conn /\ Len(sbuf[k]) < Parts
  <2>1. FrameStatus(sbuf[k]) = "kIncomplete"  BY <1>3, BuffersInOrder
  <2>2. sbuf' = sbuf /\ loop' = Waiting
    BY <1>3, <2>1 DEF LoopExtract
  <2>3. QED
    BY <1>1, <2>2, ServerEases, EasedIsOK DEF JobsOn, Requested, Waiting, LoopAt
<1>4. CASE k = loop.conn /\ ~(Len(sbuf[k]) < Parts)
  <2>1. k \notin shut
    BY <1>4 DEF Referenced, DescriptorInv, ReferencedIsOpen, ShutIsClosed
  <2>2. /\ Len(sbuf[k]) = Parts /\ up[k] = <<>> /\ sbuf[k] # <<>>
    <3> DEFINE inBuffer == Len(sbuf[k])
               onTheWay == Len(up[k])
    <3>1. sbuf[k] \in Seq(Piece) /\ up[k] \in Seq(Piece)
      BY DEF TypeInv, TypeOK, LinkTypeOK, ServerTypeOK
    <3>2. /\ inBuffer \in Nat /\ onTheWay \in Nat /\ Parts \in Nat \ {0}
          /\ inBuffer <= Parts /\ inBuffer + onTheWay <= Parts /\ ~(inBuffer < Parts)
      BY <1>4, <2>1, <3>1, LenProperties, ConnectionAssumption DEF StreamOK, RequestInOrder
    <3> HIDE DEF inBuffer, onTheWay
    <3>3. inBuffer = Parts /\ onTheWay = 0 /\ Parts # 0  BY <3>2
    <3>4. QED  BY <3>1, <3>3, EmptySeq DEF inBuffer, onTheWay
  <2>3. Unanswered(k)
    BY <2>2 DEF StreamOK, OnePlace
  <2>4. /\ FrameStatus(sbuf[k]) = "kComplete" /\ AfterFrame(sbuf[k]) = <<>>
    BY <1>4, <2>2, BuffersInOrder
  <2>5. sbuf'[k] = <<>> /\ up'[k] = <<>> /\ Requested(k)'
    BY <1>1, <1>4, <2>2, <2>4
       DEF LoopExtract, Requested, LoopAt, TypeInv, TypeOK, ServerTypeOK
  <2>6. RequestInOrder(k)'
    BY <2>5, ConnectionAssumption DEF RequestInOrder, InOrder
  <2>7. ResponseInOrder(k)' /\ OnePlace(k)'
    BY <1>1, <2>3, <2>5
       DEF StreamOK, ResponseInOrder, InOrder, Attended, OnePlace, Unanswered, JobsOn,
           clientVars
  <2>8. ~Quiet(k) /\ FreshIsQuiet(k)'
    BY <1>1, <2>2 DEF StreamOK, Quiet, FreshIsQuiet
  <2>9. ASSUME NEW c \in Client, connection_[c] = k, call[c] = "write"
        PROVE  FALSE
    <3>1. Len(sbuf[k]) + Len(up[k]) = sent[c] /\ sent[c] < Parts
      BY <2>1, <2>9 DEF StreamOK, OwnerOK, TypeInv, ClientOK, ClientFits
    <3>2. Len(up[k]) = 0  BY <2>2
    <3>3. Parts = sent[c]  BY <2>2, <3>1, <3>2, ConnectionAssumption
    <3>4. QED  BY <3>1, <3>3, ConnectionAssumption
  <2>10. OwnerOK(k)'
    BY <2>8, <2>9 DEF StreamOK, OwnerOK, clientVars
  <2>11. QED  BY <2>6, <2>7, <2>8, <2>10 DEF StreamOK
<1>5. QED  BY <1>2, <1>3, <1>4

\* The request goes from the loop to a job: it is still in one place.
LEMMA LoopEnqueueKeepsStream ==
    ASSUME TypeInv, UNCHANGED clientVars, LoopEnqueue, NEW k \in Conn, StreamOK(k)
    PROVE  StreamOK(k)'
<1> DEFINE job == JobAt(loop, "queued", 0)
<1>1. /\ loop.pc = "enqueue" /\ loop.conn \in Conn
      /\ jobs' = jobs \cup {job} /\ loop' = LoopAt("extract", loop.conn, NoRequest)
      /\ UNCHANGED <<link, up, down, sbuf, shut>>
  BY LoopTypes DEF LoopEnqueue, linkVars
<1>2. job.conn = loop.conn /\ job.pc = "queued" /\ job.sent = 0 /\ ~Requested(k)'
  BY <1>1 DEF JobAt, Requested, LoopAt
<1>3. CASE k # loop.conn
  BY <1>1, <1>2, <1>3, ServerEases, EasedIsOK DEF JobsOn
<1>4. CASE k = loop.conn
  <2>1. Requested(k)  BY <1>1, <1>4 DEF Requested
  <2>2. /\ JobsOn(k) = {} /\ up[k] = <<>> /\ sbuf[k] = <<>> /\ down[k] = <<>> /\ cbuf[k] = <<>>
        /\ ~Unanswered(k) /\ ~Quiet(k)
    BY <2>1 DEF StreamOK, OnePlace, Unanswered, Quiet
  <2>3. JobsOn(k)' = {job}
    BY <1>1, <1>2, <1>4, <2>2 DEF JobsOn
  <2>4. cbuf' = cbuf /\ Len(cbuf[k]) + Len(down[k]) = 0
    BY <2>2 DEF clientVars
  <2>5. OnePlace(k)'
    BY <1>1, <1>2, <2>2, <2>3, <2>4 DEF OnePlace, JobsOn
  <2>6. RequestInOrder(k)' /\ ResponseInOrder(k)'
    BY <1>1, <2>4 DEF StreamOK, RequestInOrder, ResponseInOrder, InOrder, Attended, clientVars
  <2>7. OwnerOK(k)' /\ FreshIsQuiet(k)'
    BY <1>1, <2>2 DEF StreamOK, OwnerOK, FreshIsQuiet, clientVars
  <2>8. QED  BY <2>5, <2>6, <2>7 DEF StreamOK
<1>5. QED  BY <1>3, <1>4

\* Jobs on other connections, and jobs that end without a word.
LEMMA JobEases ==
    ASSUME TypeInv, DescriptorInv, UNCHANGED clientVars, NEW j \in jobs, JobStep(j),
           NEW k \in Conn, k # j.conn
    PROVE  StreamEases(k)
<1>1. sock[fd_[j.conn]] = j.conn  BY JobOwnsDescriptor
<1>2. /\ UNCHANGED <<up, sbuf, loop>> /\ down'[k] = down[k] /\ link'[k] = link[k]
  <2>1. CASE JobWrite(j) \/ JobWriteClosed(j)
    BY <1>1, <2>1
       DEF JobWrite, JobWriteClosed, Advance, JobEnd, TypeInv, TypeOK, LinkTypeOK
  <2>2. CASE JobRun(j) \/ JobTest(j) \/ JobWriteFail(j)
    BY <2>2 DEF JobRun, JobTest, JobWriteFail, JobEnd, linkVars
  <2>3. QED  BY <2>1, <2>2 DEF JobStep
<1>3. JobsOn(k)' \subseteq JobsOn(k)
  BY DEF JobsOn, JobStep, JobRun, JobTest, JobWrite, JobWriteClosed, JobWriteFail, Advance,
         JobEnd, JobAt
<1>4. shut \subseteq shut'
  BY ReleaseTypes
     DEF JobStep, JobRun, JobTest, JobWrite, JobWriteClosed, JobWriteFail, Advance, JobEnd,
         linkVars
<1>5. QED  BY <1>2, <1>3, <1>4, ServerEases DEF Requested

\* A job's own connection carries nothing but its response.
LEMMA JobAlone ==
    ASSUME NEW j \in jobs, StreamOK(j.conn)
    PROVE  /\ JobsOn(j.conn) = {j} /\ ~Unanswered(j.conn) /\ ~Quiet(j.conn)
           /\ up[j.conn] = <<>> /\ sbuf[j.conn] = <<>> /\ ~Requested(j.conn)
           /\ link[j.conn] # "free"
<1>1. j \in JobsOn(j.conn)  BY DEF JobsOn
<1>2. JobsOn(j.conn) = {j}  BY <1>1 DEF StreamOK, OnePlace
<1>3. ~Unanswered(j.conn) /\ ~Quiet(j.conn)  BY <1>1 DEF Unanswered, Quiet
<1>4. QED  BY <1>1, <1>2, <1>3 DEF StreamOK, OnePlace, FreshIsQuiet

\* What a job that goes on, or ends, owes its connection.
LEMMA JobGoesOn ==
    ASSUME UNCHANGED clientVars, NEW j \in jobs, StreamOK(j.conn),
           UNCHANGED <<up, sbuf, loop>>, shut \subseteq shut', link'[j.conn] # "free",
           InOrder(cbuf[j.conn], 0) /\ Len(cbuf[j.conn]) <= Parts,
           Attended(j.conn)' =>
              /\ InOrder(down'[j.conn], Len(cbuf[j.conn]))
              /\ Len(cbuf[j.conn]) + Len(down'[j.conn]) <= Parts,
           \/ JobsOn(j.conn)' = {}
           \/ \E i : /\ JobsOn(j.conn)' = {i}
                     /\ i.pc # "writing" =>
                           i.sent = 0 /\ down'[j.conn] = <<>> /\ cbuf[j.conn] = <<>>
                     /\ Attended(j.conn)' =>
                           Len(cbuf[j.conn]) + Len(down'[j.conn]) = i.sent
    PROVE  StreamOK(j.conn)'
<1> DEFINE k == j.conn
<1>1. /\ JobsOn(k) = {j} /\ ~Unanswered(k) /\ ~Quiet(k)
      /\ up[k] = <<>> /\ sbuf[k] = <<>> /\ ~Requested(k)
  BY JobAlone
<1>2. RequestInOrder(k)'
  BY DEF StreamOK, RequestInOrder, InOrder
<1>3. ResponseInOrder(k)'
  BY DEF ResponseInOrder, clientVars
<1>4. OnePlace(k)'
  BY <1>1 DEF OnePlace, Requested, clientVars
<1>5. FreshIsQuiet(k)' /\ OwnerOK(k)'
  BY <1>1 DEF StreamOK, FreshIsQuiet, OwnerOK, clientVars
<1>6. QED  BY <1>2, <1>3, <1>4, <1>5 DEF StreamOK

\* A job writes its response behind what it has written, and nowhere else.
LEMMA JobKeepsStream ==
    ASSUME TypeInv, DescriptorInv, UNCHANGED clientVars, NEW j \in jobs, JobStep(j),
           NEW k \in Conn, StreamOK(k)
    PROVE  StreamOK(k)'
<1>1. CASE k # j.conn
  BY <1>1, JobEases, EasedIsOK
<1>2. ASSUME k = j.conn
      PROVE  StreamOK(k)'
  <2>1. /\ j \in Job /\ k \in Conn /\ sock[fd_[k]] = k /\ j.sent < Parts
        /\ down[k] \in Seq(Piece) /\ cbuf[k] \in Seq(Piece)
    BY <1>2, JobOwnsDescriptor
       DEF TypeInv, TypeOK, LinkTypeOK, ClientTypeOK, ServerOK
  <2>2. /\ JobsOn(k) = {j} /\ j \in JobsOn(k) /\ link[k] # "free"
    BY <1>2, JobAlone
  <2>3. /\ InOrder(cbuf[k], 0) /\ Len(cbuf[k]) <= Parts
        /\ Attended(k) => /\ InOrder(down[k], Len(cbuf[k]))
                          /\ Len(cbuf[k]) + Len(down[k]) <= Parts
                          /\ Len(cbuf[k]) + Len(down[k]) = j.sent
        /\ j.pc # "writing" => j.sent = 0 /\ down[k] = <<>> /\ cbuf[k] = <<>>
    BY <2>2 DEF StreamOK, ResponseInOrder, OnePlace
  <2>4. UNCHANGED <<up, sbuf, loop>>
    BY DEF JobStep, JobRun, JobTest, JobWrite, JobWriteClosed, JobWriteFail, Advance, JobEnd,
           linkVars
  <2>5. shut \subseteq shut'
    BY ReleaseTypes
       DEF JobStep, JobRun, JobTest, JobWrite, JobWriteClosed, JobWriteFail, Advance, JobEnd,
           linkVars
  <2>6. JobEnd(j) => JobsOn(k)' = {}
    BY <2>2 DEF JobEnd, JobsOn
  <2>7. ASSUME NEW pc, NEW n, jobs' = (jobs \ {j}) \cup {JobAt(j, pc, n)}
        PROVE  JobsOn(k)' = {JobAt(j, pc, n)} /\ JobAt(j, pc, n).pc = pc /\ JobAt(j, pc, n).sent = n
    BY <1>2, <2>2, <2>7 DEF JobsOn, JobAt
  <2>8. CASE JobRun(j) \/ JobTest(j)
    <3>1. /\ UNCHANGED <<link, down>> /\ j.pc # "writing"
          /\ \/ JobEnd(j)
             \/ jobs' = (jobs \ {j}) \cup {JobAt(j, "ran", 0)}
             \/ jobs' = (jobs \ {j}) \cup {JobAt(j, "writing", 0)}
      BY <2>8 DEF JobRun, JobTest, linkVars, Queued
    <3>2. Attended(k)' => Attended(k)
      BY <3>1 DEF Attended, clientVars
    <3>3. down[k] = <<>> /\ cbuf[k] = <<>> /\ Len(cbuf[k]) + Len(down[k]) = 0
      <4>1. down[k] = <<>> /\ cbuf[k] = <<>>  BY <2>3, <3>1
      <4>2. QED  BY <4>1
    <3>4. CASE JobEnd(j)
      BY <1>2, <2>2, <2>3, <2>4, <2>5, <2>6, <3>1, <3>2, <3>4, JobGoesOn
    <3>5. ASSUME NEW pc, jobs' = (jobs \ {j}) \cup {JobAt(j, pc, 0)}
          PROVE  StreamOK(k)'
      <4> DEFINE i == JobAt(j, pc, 0)
      <4>1. JobsOn(k)' = {i} /\ i.sent = 0
        BY <2>7, <3>5
      <4>2. Attended(k)' => /\ InOrder(down'[k], Len(cbuf[k]))
                            /\ Len(cbuf[k]) + Len(down'[k]) <= Parts
                            /\ Len(cbuf[k]) + Len(down'[k]) = i.sent
        BY <2>3, <3>1, <3>2, <3>3, <4>1
      <4>3. down'[k] = <<>> /\ link'[k] # "free"  BY <2>2, <3>1, <3>3
      <4> HIDE DEF i
      <4>4. QED
        BY <1>2, <2>3, <2>4, <2>5, <3>3, <4>1, <4>2, <4>3, JobGoesOn
    <3>6. QED  BY <3>1, <3>4, <3>5
  <2>9. CASE JobWriteFail(j)
    <3>1. UNCHANGED <<link, down>> /\ JobEnd(j)  BY <2>9 DEF JobWriteFail
    <3>2. Attended(k)' => Attended(k)
      BY <3>1 DEF Attended, clientVars
    <3>3. QED
      BY <1>2, <2>2, <2>3, <2>4, <2>5, <2>6, <3>1, <3>2, JobGoesOn
  <2>10. CASE JobWriteClosed(j)
    <3>1. Advance(j) /\ link' = [link EXCEPT ![k] = "reset"] /\ down' = down
      BY <1>2, <2>1, <2>10 DEF JobWriteClosed
    <3>2. link'[k] = "reset"
      BY <3>1 DEF TypeInv, TypeOK, LinkTypeOK
    <3>3. ~Attended(k)'  BY <3>2 DEF Attended
    <3>4. CASE JobEnd(j)
      BY <1>2, <2>2, <2>3, <2>4, <2>5, <2>6, <3>2, <3>3, <3>4, JobGoesOn
    <3>5. CASE jobs' = (jobs \ {j}) \cup {JobAt(j, "writing", j.sent + 1)}
      <4>1. /\ JobsOn(k)' = {JobAt(j, "writing", j.sent + 1)}
            /\ JobAt(j, "writing", j.sent + 1).pc = "writing"
        BY <2>7, <3>5
      <4>2. QED
        BY <1>2, <2>2, <2>3, <2>4, <2>5, <3>2, <3>3, <4>1, JobGoesOn
    <3>6. QED  BY <3>1, <3>4, <3>5 DEF Advance
  <2>11. CASE JobWrite(j)
    <3> DEFINE piece == [id |-> j.id, part |-> j.sent + 1]
    <3>1. /\ Advance(j) /\ j.pc = "writing" /\ link' = link
          /\ down' = [down EXCEPT ![k] = Append(@, piece)]
      BY <1>2, <2>1, <2>11 DEF JobWrite, JobWrites
    <3>2. Attended(k)' => Attended(k)
      BY <3>1 DEF Attended, clientVars
    <3>3. j.sent \in Nat /\ j.sent + 1 <= Parts /\ piece \in Piece
      <4>1. j.sent \in 0 .. Parts /\ j.id \in Request  BY <2>1 DEF Job
      <4>2. j.sent + 1 \in 1 .. Parts  BY <2>1, <4>1, ConnectionAssumption
      <4>3. QED  BY <4>1, <4>2 DEF Piece
    <3>4. down'[k] = Append(down[k], piece)
      BY <3>1 DEF TypeInv, TypeOK, LinkTypeOK
    <3>5. /\ Len(down'[k]) = Len(down[k]) + 1
          /\ \A i \in 1 .. Len(down[k]) : down'[k][i] = down[k][i]
          /\ down'[k][Len(down[k]) + 1] = piece
      BY <2>1, <3>3, <3>4, AppendProperties
    <3>6. ASSUME Attended(k)
          PROVE  /\ InOrder(down'[k], Len(cbuf[k]))
                 /\ Len(cbuf[k]) + Len(down'[k]) <= Parts
                 /\ Len(cbuf[k]) + Len(down'[k]) = j.sent + 1
      <4> DEFINE inBuffer == Len(cbuf[k])
                 onTheWay == Len(down[k])
      <4>1. /\ inBuffer \in Nat /\ onTheWay \in Nat /\ inBuffer + onTheWay = j.sent
            /\ Len(down'[k]) = onTheWay + 1 /\ Parts \in Nat
            /\ \A i \in 1 .. onTheWay : down'[k][i].part = inBuffer + i
            /\ down'[k][onTheWay + 1].part = j.sent + 1
        <5>1. inBuffer \in Nat /\ onTheWay \in Nat  BY <2>1, LenProperties
        <5>2. inBuffer + onTheWay = j.sent  BY <2>3, <3>6
        <5>3. \A i \in 1 .. onTheWay : down'[k][i].part = inBuffer + i
          BY <2>3, <3>5, <3>6 DEF InOrder
        <5>4. Len(down'[k]) = onTheWay + 1 /\ down'[k][onTheWay + 1].part = j.sent + 1
          BY <3>5
        <5>5. QED  BY <5>1, <5>2, <5>3, <5>4, ConnectionAssumption
      <4> HIDE DEF inBuffer, onTheWay
      <4>2. \A i \in 1 .. onTheWay + 1 : down'[k][i].part = inBuffer + i
        <5> SUFFICES ASSUME NEW i \in 1 .. onTheWay + 1
                     PROVE  down'[k][i].part = inBuffer + i
          OBVIOUS
        <5>1. CASE i \in 1 .. onTheWay  BY <4>1, <5>1
        <5>2. CASE i = onTheWay + 1  BY <3>3, <4>1, <5>2
        <5>3. QED  BY <4>1, <5>1, <5>2
      <4>3. inBuffer + Len(down'[k]) = j.sent + 1 /\ inBuffer + Len(down'[k]) <= Parts
        BY <3>3, <4>1
      <4>4. QED  BY <4>1, <4>2, <4>3 DEF InOrder, inBuffer
    <3>7. CASE JobEnd(j)
      BY <1>2, <2>2, <2>3, <2>4, <2>5, <2>6, <3>1, <3>2, <3>6, <3>7, JobGoesOn
    <3>8. CASE jobs' = (jobs \ {j}) \cup {JobAt(j, "writing", j.sent + 1)}
      <4>1. /\ JobsOn(k)' = {JobAt(j, "writing", j.sent + 1)}
            /\ JobAt(j, "writing", j.sent + 1).pc = "writing"
            /\ JobAt(j, "writing", j.sent + 1).sent = j.sent + 1
        BY <2>7, <3>8
      <4>2. QED
        BY <1>2, <2>2, <2>3, <2>4, <2>5, <3>1, <3>2, <3>6, <4>1, JobGoesOn
    <3>9. QED  BY <3>1, <3>7, <3>8 DEF Advance
  <2>12. QED  BY <2>8, <2>9, <2>10, <2>11 DEF JobStep
<1>3. QED  BY <1>1, <1>2

\* No connection has carried anything at the start.
LEMMA StreamInit == Init => StreamInv
<1> SUFFICES ASSUME Init, NEW k \in Conn PROVE StreamOK(k)
  BY DEF StreamInv
<1>1. Quiet(k)
  BY ConnectionAssumption DEF Init, LinkInit, ClientInit, ServerInit, Quiet, JobsOn, Requested, Waiting, LoopAt
<1>2. \A c \in Client : connection_[c] # k
  BY ConnectionAssumption DEF Init, ClientInit
<1>3. QED
  BY <1>1, <1>2, ConnectionAssumption
     DEF StreamOK, RequestInOrder, ResponseInOrder, InOrder, OnePlace, Unanswered, FreshIsQuiet,
         OwnerOK, Quiet

\* Every step keeps every connection's stream in order.
LEMMA StreamNext ==
    ASSUME CallInv, [Next]_vars
    PROVE  StreamInv'
<1> SUFFICES ASSUME NEW k \in Conn PROVE StreamOK(k)'
  BY DEF StreamInv
<1>1. TypeInv /\ DescriptorInv /\ StreamOK(k) /\ IdsOK(k)
  BY DEF CallInv, StreamInv, IdsInv
<1>2. CASE UNCHANGED vars
  <2>1. StreamEases(k)
    BY <1>2 DEF vars, linkVars, clientVars, serverVars, StreamEases, JobsOn, Requested, Attended
  <2>2. QED  BY <1>1, <2>1, EasedIsOK
<1>3. ASSUME NEW c \in Client, ClientStep(c), UNCHANGED serverVars
      PROVE  StreamOK(k)'
  BY <1>1, <1>3, ClientEases, CloseEases, EasedIsOK, ConnectKeepsStream,
     MakeRequestKeepsStream, WritePieceKeepsStream, ClientReadKeepsStream,
     ClientExtractKeepsStream DEF ClientStep, CallStep
<1>4. ASSUME ServerStep, UNCHANGED clientVars
      PROVE  StreamOK(k)'
  BY <1>1, <1>4, LetGoEases, EasedIsOK, LoopReadKeepsStream, LoopExtractKeepsStream,
     LoopEnqueueKeepsStream, JobKeepsStream DEF ServerStep, LoopStep
<1>5. QED  BY <1>2, <1>3, <1>4 DEF Next

-----------------------------------------------------------------------------
(* The requests on the way *)

\* Which requests the parts of a sequence belong to.
LEMMA IdsProperties ==
    ASSUME NEW s \in Seq(Piece), NEW t \in Seq(Piece)
    PROVE  /\ Ids(<<>>) = {}
           /\ Ids(s) \subseteq Request
           /\ \A e \in Piece : Ids(Append(s, e)) = Ids(s) \cup {e.id}
           /\ \A n \in 0 .. Len(s) : /\ Ids(Without(s, n)) \subseteq Ids(s)
                                     /\ Ids(t \o First(s, n)) \subseteq Ids(t) \cup Ids(s)
<1>1. Len(s) \in Nat /\ Len(t) \in Nat /\ DOMAIN s = 1 .. Len(s) /\ DOMAIN t = 1 .. Len(t)
  BY LenProperties
<1>2. Ids(<<>>) = {}
  BY DEF Ids
<1>3. Ids(s) \subseteq Request
  <2>1. \A i \in 1 .. Len(s) : s[i] \in Piece  BY ElementOfSeq
  <2>2. QED  BY <1>1, <2>1 DEF Ids, Piece
<1>4. ASSUME NEW e \in Piece
      PROVE  Ids(Append(s, e)) = Ids(s) \cup {e.id}
  <2> DEFINE a == Append(s, e)
  <2>1. /\ a \in Seq(Piece) /\ Len(a) = Len(s) + 1
        /\ \A i \in 1 .. Len(s) : a[i] = s[i]
        /\ a[Len(s) + 1] = e
    BY AppendProperties
  <2> HIDE DEF a
  <2>2. DOMAIN a = 1 .. Len(s) + 1  BY <2>1, LenProperties
  <2>3. DOMAIN a = DOMAIN s \cup {Len(s) + 1}  BY <1>1, <2>2
  <2>4. Ids(a) = Ids(s) \cup {e.id}  BY <1>1, <2>1, <2>3 DEF Ids
  <2>5. QED  BY <2>4 DEF a
<1>5. ASSUME NEW n \in 0 .. Len(s)
      PROVE  Ids(Without(s, n)) \subseteq Ids(s)
  <2> DEFINE w == Without(s, n)
  <2>1. /\ w \in Seq(Piece) /\ Len(w) = Len(s) - n
        /\ \A i \in 1 .. Len(s) - n : w[i] = s[n + i]
    BY WithoutProperties
  <2> HIDE DEF w
  <2>2. DOMAIN w = 1 .. Len(s) - n  BY <2>1, LenProperties
  <2>3. \A i \in DOMAIN w : n + i \in DOMAIN s /\ w[i] = s[n + i]  BY <1>1, <2>1, <2>2
  <2>4. QED  BY <2>3 DEF Ids, w
<1>6. ASSUME NEW n \in 0 .. Len(s)
      PROVE  Ids(t \o First(s, n)) \subseteq Ids(t) \cup Ids(s)
  <2> DEFINE f == First(s, n)
  <2>1. /\ f \in Seq(Piece) /\ Len(f) = n /\ \A i \in 1 .. n : f[i] = s[i]
    BY FirstProperties
  <2> HIDE DEF f
  <2>2. /\ t \o f \in Seq(Piece) /\ Len(t \o f) = Len(t) + n
        /\ \A i \in 1 .. Len(t) + n : (t \o f)[i] = IF i <= Len(t) THEN t[i] ELSE f[i - Len(t)]
    BY <2>1, ConcatProperties
  <2>3. DOMAIN (t \o f) = 1 .. Len(t) + n  BY <2>2, LenProperties
  <2>4. ASSUME NEW i \in DOMAIN (t \o f)
        PROVE  (t \o f)[i].id \in Ids(t) \cup Ids(s)
    <3>1. CASE i <= Len(t)
      BY <1>1, <2>2, <2>3, <3>1 DEF Ids
    <3>2. CASE ~(i <= Len(t))
      <4>1. i - Len(t) \in 1 .. n /\ i - Len(t) \in DOMAIN s
        BY <1>1, <2>3, <3>2
      <4>2. (t \o f)[i] = s[i - Len(t)]
        BY <2>1, <2>2, <2>3, <3>2, <4>1
      <4>3. QED  BY <4>1, <4>2 DEF Ids
    <3>3. QED  BY <3>1, <3>2
  <2>5. Ids(t \o f) \subseteq Ids(t) \cup Ids(s)  BY <2>4 DEF Ids
  <2>6. QED  BY <2>5 DEF f
<1>7. QED  BY <1>2, <1>3, <1>4, <1>5, <1>6

\* Where the requests are that k carries.
LEMMA CarriedBy ==
    ASSUME NEW k
    PROVE  /\ Ids(up[k]) \subseteq Early(k) /\ Ids(sbuf[k]) \subseteq Early(k)
           /\ loop.conn = k => loop.id \in Early(k) \cup {NoRequest}
           /\ \A j \in JobsOn(k) : IF j.pc = "queued" THEN j.id \in Early(k) ELSE j.id \in Late(k)
           /\ Ids(down[k]) \subseteq Late(k) /\ Ids(cbuf[k]) \subseteq Late(k)
BY DEF Early, Late

\* k carries nothing but what it carried, as far as it was carried.
LEMMA CarriesNoMore ==
    ASSUME NEW k,
           Ids(up'[k]) \subseteq Early(k), Ids(sbuf'[k]) \subseteq Early(k),
           loop'.conn = k => loop'.id \in Early(k) \cup {NoRequest},
           \A j \in JobsOn(k)' : IF j.pc = "queued" THEN j.id \in Early(k) ELSE j.id \in Late(k),
           Ids(down'[k]) \subseteq Late(k), Ids(cbuf'[k]) \subseteq Late(k)
    PROVE  Early(k)' \subseteq Early(k) /\ Late(k)' \subseteq Late(k)
<1>1. Early(k)' \subseteq Early(k)
  <2> SUFFICES ASSUME NEW r \in Early(k)' PROVE r \in Early(k)
    OBVIOUS
  <2>1. \/ r \in Ids(up'[k]) \cup Ids(sbuf'[k])
        \/ loop'.conn = k /\ r \in {loop'.id} \ {NoRequest}
        \/ \E j \in JobsOn(k)' : j.pc = "queued" /\ r = j.id
    BY DEF Early, Ids
  <2>2. QED  BY <2>1
<1>2. Late(k)' \subseteq Late(k)
  <2> SUFFICES ASSUME NEW r \in Late(k)' PROVE r \in Late(k)
    OBVIOUS
  <2>1. \/ r \in Ids(down'[k]) \cup Ids(cbuf'[k])
        \/ \E j \in JobsOn(k)' : j.pc # "queued" /\ r = j.id
    BY DEF Late, Ids
  <2>2. QED  BY <2>1
<1>3. QED  BY <1>1, <1>2

\* A step that puts nothing on any connection.
LEMMA IdsEase ==
    ASSUME IdsInv, UNCHANGED <<executed, sequence_id_>>,
           \A k \in Conn : Early(k)' \subseteq Early(k) /\ Late(k)' \subseteq Late(k),
           \A c \in Client : call'[c] \in InCall =>
              /\ call[c] \in InCall /\ connection_'[c] = connection_[c]
              /\ connection_[c] \in Conn
              /\ call'[c] = "write" => call[c] = "write"
    PROVE  IdsInv'
<1>1. \A k \in Conn : OnTheWay(k)' \subseteq OnTheWay(k)
  BY DEF OnTheWay
<1>2. \A k \in Conn : IdsOK(k)'
  BY <1>1 DEF IdsInv, IdsOK
<1>3. \A c \in Client : Current(c)' = Current(c)
  BY DEF Current
<1>4. RequestsOK'
  <2>1. \A k, l \in Conn : \A r \in OnTheWay(k)' \cap OnTheWay(l)' : k = l
    BY <1>1 DEF IdsInv, RequestsOK
  <2>2. ASSUME NEW c \in Client, call'[c] \in InCall, NEW k \in Conn, connection_'[c] = k
        PROVE  OnTheWay(k)' \subseteq {Current(c)'}
    <3>1. call[c] \in InCall /\ connection_[c] = k  BY <2>2
    <3>2. OnTheWay(k) \subseteq {Current(c)}  BY <3>1 DEF IdsInv, RequestsOK
    <3>3. QED  BY <1>1, <1>3, <3>2
  <2>3. ASSUME NEW c \in Client, call'[c] = "write"
        PROVE  /\ executed'[Current(c)'] = 0
               /\ \A k \in Conn : Current(c)' \in OnTheWay(k)' => k = connection_'[c]
    <3>1. call[c] = "write" /\ connection_'[c] = connection_[c]  BY <2>3 DEF InCall
    <3>2. /\ executed[Current(c)] = 0
          /\ \A k \in Conn : Current(c) \in OnTheWay(k) => k = connection_[c]
      BY <3>1 DEF IdsInv, RequestsOK
    <3>3. QED  BY <1>1, <1>3, <3>1, <3>2
  <2>4. \A r \in Request : r.seq > sequence_id_'[r.from] => executed'[r] = 0
    BY DEF IdsInv, RequestsOK
  <2>5. QED  BY <2>1, <2>2, <2>3, <2>4 DEF RequestsOK
<1>5. QED  BY <1>2, <1>4 DEF IdsInv

\* A frame that is erased takes its pieces along.
LEMMA AfterFrameIds ==
    ASSUME NEW s \in Seq(Piece), FrameStatus(s) # "kIncomplete"
    PROVE  Ids(AfterFrame(s)) \subseteq Ids(s)
<1>1. Parts \in Nat \ {0} /\ Len(s) \in Nat
  BY ConnectionAssumption, LenProperties
<1>2. ~(Len(s) < Parts)  BY DEF FrameStatus
<1>3. Parts \in 0 .. Len(s)  BY <1>1, <1>2
<1>4. QED  BY <1>3, IdsProperties DEF AfterFrame

\* A client adds nothing to what is on the way, unless it writes.
LEMMA ClientCarriesNoMore ==
    ASSUME TypeInv, NEW c \in Client, ClientStep(c), ~WritePiece(c), UNCHANGED serverVars,
           NEW k \in Conn
    PROVE  Early(k)' \subseteq Early(k) /\ Late(k)' \subseteq Late(k)
<1>1. /\ down[k] \in Seq(Piece) /\ cbuf[k] \in Seq(Piece)
      /\ down \in [Conn -> Seq(Piece)] /\ cbuf \in [Conn -> Seq(Piece)]
  BY DEF TypeInv, TypeOK, LinkTypeOK, ClientTypeOK
<1>2. up' = up
  BY DEF ClientStep, CallBegin, CallStep, Connect, ConnectFail, SerializeFail, MakeRequest,
         WriteFail, SelectReady, SelectTimeout, ClientRead, ClientReadEnd, ClientExtract,
         Disconnect, ClientDies, linkVars
<1>3. Ids(down'[k]) \subseteq Late(k) /\ Ids(cbuf'[k]) \subseteq Late(k)
  <2>1. CASE ClientRead(c)
    <3>1. call[c] = "read" /\ down[connection_[c]] # <<>>  BY <2>1 DEF ClientRead
    <3>2. CASE k # connection_[c]
      <4>1. down'[k] = down[k] /\ cbuf'[k] = cbuf[k]
        BY <1>1, <2>1, <3>2 DEF ClientRead
      <4>2. QED  BY <4>1, CarriedBy
    <3>3. CASE k = connection_[c]
      <4>1. PICK r \in Reads(down[k]) :
               /\ down'[k] = Without(down[k], r.n)
               /\ cbuf'[k] = cbuf[k] \/ cbuf'[k] = cbuf[k] \o First(down[k], r.n)
        BY <1>1, <2>1, <3>3 DEF ClientRead
      <4>2. r.n \in 1 .. Len(down[k])
        BY <1>1, <3>1, <3>3, ReadsProperties
      <4>3. r.n \in 0 .. Len(down[k])  BY <4>2
      <4>4. Ids(down'[k]) \subseteq Ids(down[k])
        BY <1>1, <4>1, <4>3, IdsProperties
      <4>5. Ids(cbuf'[k]) \subseteq Ids(cbuf[k]) \cup Ids(down[k])
        BY <1>1, <4>1, <4>3, IdsProperties
      <4>6. QED  BY <4>4, <4>5, CarriedBy
    <3>4. QED  BY <3>2, <3>3
  <2>2. CASE ClientExtract(c)
    <3>1. down' = down  BY <2>2 DEF ClientExtract, linkVars
    <3>2. \/ cbuf'[k] = cbuf[k]
          \/ FrameStatus(cbuf[k]) # "kIncomplete" /\ cbuf'[k] = AfterFrame(cbuf[k])
      BY <1>1, <2>2 DEF ClientExtract
    <3>3. Ids(cbuf'[k]) \subseteq Ids(cbuf[k])
      BY <1>1, <3>2, AfterFrameIds
    <3>4. QED  BY <3>1, <3>3, CarriedBy
  <2>3. CASE ~ClientRead(c) /\ ~ClientExtract(c)
    <3>1. cbuf' = cbuf /\ (down'[k] = down[k] \/ down'[k] = <<>>)
      BY <2>3
         DEF ClientStep, CallBegin, CallStep, Connect, ConnectFail, SerializeFail, MakeRequest,
             WriteFail, SelectReady, SelectTimeout, ClientReadEnd, Disconnect, ClientDies,
             ClientEndClosed, linkVars
    <3>2. QED  BY <1>1, <3>1, CarriedBy, IdsProperties
  <2>4. QED  BY <2>1, <2>2, <2>3
<1>4. QED
  BY <1>2, <1>3, CarriedBy, CarriesNoMore DEF serverVars, JobsOn

\* Nor does the server, which hands a request on or its answer, until it carries
\* the request out.
LEMMA LoopCarriesNoMore ==
    ASSUME TypeInv,
           \/ \E l \in Conn : Accept(l) \/ AcceptFail(l)
           \/ \E f \in Fd : LoopEvent(f)
           \/ LoopStep \/ Stop \/ ServerDies,
           UNCHANGED clientVars, NEW k \in Conn
    PROVE  Early(k)' \subseteq Early(k) /\ Late(k)' \subseteq Late(k)
<1>1. /\ up[k] \in Seq(Piece) /\ sbuf[k] \in Seq(Piece)
      /\ up \in [Conn -> Seq(Piece)] /\ sbuf \in [Conn -> Seq(Piece)]
  BY DEF TypeInv, TypeOK, LinkTypeOK, ServerTypeOK
<1>2. down' = down /\ cbuf' = cbuf
  BY DEF Accept, AcceptFail, LoopEvent, LoopStep, LoopRead, LoopReadNothing, LoopExtract,
         LoopEnqueue, LoopEnd, Stop, ServerDies, linkVars, clientVars
<1>3. ASSUME loop'.conn = k => loop'.id \in Early(k) \cup {NoRequest},
             \A j \in JobsOn(k)' : j \in JobsOn(k) \/ (j.pc = "queued" /\ j.id \in Early(k)),
             Ids(up'[k]) \subseteq Early(k), Ids(sbuf'[k]) \subseteq Early(k)
      PROVE  Early(k)' \subseteq Early(k) /\ Late(k)' \subseteq Late(k)
  BY <1>2, <1>3, CarriedBy, CarriesNoMore
<1>4. Waiting.id = NoRequest /\ Ended.id = NoRequest /\ Waiting.conn = NoConn
  BY DEF Waiting, Ended, LoopAt
<1>5. CASE (\E l \in Conn : Accept(l) \/ AcceptFail(l)) \/ Stop \/ LoopEnd
  <2>1. UNCHANGED <<up, sbuf, jobs>> /\ loop' \in {loop, Ended}
    BY <1>5 DEF Accept, AcceptFail, Stop, LoopEnd, linkVars, serverVars
  <2>2. QED  BY <1>3, <1>4, <2>1, CarriedBy DEF JobsOn
<1>6. CASE ServerDies
  <2>1. UNCHANGED <<up, sbuf>> /\ jobs' = {} /\ loop' = Ended
    BY <1>6 DEF ServerDies
  <2>2. QED  BY <1>3, <1>4, <2>1, CarriedBy DEF JobsOn
<1>7. CASE (\E f \in Fd : LoopEvent(f)) \/ LoopReadNothing
  <2>1. UNCHANGED <<up, sbuf, jobs>> /\ loop'.id = NoRequest
    BY <1>4, <1>7
       DEF LoopEvent, LoopReadNothing, ReadEnds, ReadFails, RemoveConnection, LoopAt
  <2>2. QED  BY <1>3, <2>1, CarriedBy DEF JobsOn
<1>8. CASE LoopRead
  <2>1. /\ jobs' = jobs /\ up[loop.conn] # <<>>
        /\ loop' = loop \/ loop'.id = NoRequest
    <3>1. ReadFails(loop.conn) => jobs' = jobs /\ loop'.id = NoRequest
      BY <1>4 DEF ReadFails, RemoveConnection
    <3>2. ReadEnds => jobs' = jobs /\ loop'.id = NoRequest
      BY DEF ReadEnds, LoopAt
    <3>3. QED  BY <1>8, <3>1, <3>2 DEF LoopRead
  <2>2. CASE k # loop.conn
    <3>1. up'[k] = up[k] /\ sbuf'[k] = sbuf[k]
      BY <1>1, <1>8, <2>2 DEF LoopRead, ReadEnds, ReadFails
    <3>2. QED  BY <1>3, <2>1, <3>1, CarriedBy DEF JobsOn
  <2>3. CASE k = loop.conn
    <3>1. PICK r \in Reads(up[k]) :
             /\ up'[k] = Without(up[k], r.n)
             /\ sbuf'[k] = sbuf[k] \/ sbuf'[k] = sbuf[k] \o First(up[k], r.n)
      BY <1>1, <1>8, <2>3 DEF LoopRead, ReadFails
    <3>2. r.n \in 1 .. Len(up[k])
      BY <1>1, <2>1, <2>3, ReadsProperties
    <3>3. r.n \in 0 .. Len(up[k])  BY <3>2
    <3>4. Ids(up'[k]) \subseteq Ids(up[k])
      BY <1>1, <3>1, <3>3, IdsProperties
    <3>5. Ids(sbuf'[k]) \subseteq Ids(sbuf[k]) \cup Ids(up[k])
      BY <1>1, <3>1, <3>3, IdsProperties
    <3>6. QED  BY <1>3, <2>1, <3>4, <3>5, CarriedBy DEF JobsOn
  <2>4. QED  BY <2>2, <2>3
<1>9. CASE LoopExtract
  <2>1. UNCHANGED <<up, jobs>> /\ loop.conn \in Conn
    BY <1>9, LoopTypes DEF LoopExtract, RemoveConnection
  <2>2. \/ sbuf'[k] = sbuf[k]
        \/ FrameStatus(sbuf[k]) # "kIncomplete" /\ sbuf'[k] = AfterFrame(sbuf[k])
    BY <1>1, <1>9 DEF LoopExtract
  <2>3. Ids(sbuf'[k]) \subseteq Ids(sbuf[k])
    BY <1>1, <2>2, AfterFrameIds
  <2>4. \/ loop'.id = NoRequest
        \/ /\ FrameStatus(sbuf[loop.conn]) # "kIncomplete"
           /\ loop'.conn = loop.conn /\ loop'.id = sbuf[loop.conn][1].id
    BY <1>4, <1>9 DEF LoopExtract, RemoveConnection, LoopAt
  <2>5. loop'.conn = k => loop'.id \in Early(k) \cup {NoRequest}
    BY <1>1, <2>4, ExtractTypes, CarriedBy
  <2>6. QED  BY <1>3, <2>1, <2>3, <2>5, CarriedBy DEF JobsOn
<1>10. CASE LoopEnqueue
  <2>1. /\ UNCHANGED <<up, sbuf>> /\ loop'.id = NoRequest /\ loop.id \in Request
        /\ jobs' = jobs \cup {JobAt(loop, "queued", 0)}
    BY <1>10, LoopTypes DEF LoopEnqueue, LoopAt, linkVars
  <2>2. ASSUME NEW j \in JobsOn(k)', j \notin JobsOn(k)
        PROVE  j.pc = "queued" /\ j.id \in Early(k)
    <3>1. j = JobAt(loop, "queued", 0) /\ j.conn = k  BY <2>1, <2>2 DEF JobsOn
    <3>2. j.pc = "queued" /\ j.id = loop.id /\ loop.conn = k  BY <3>1 DEF JobAt
    <3>3. QED  BY <2>1, <3>2, CarriedBy, LoopTypes
  <2>3. QED  BY <1>3, <2>1, <2>2, CarriedBy
<1>11. QED  BY <1>5, <1>6, <1>7, <1>8, <1>9, <1>10 DEF LoopStep

\* A job's steps, but for carrying out its request, bring no request to a connection.
LEMMA JobCarriesNoMore ==
    ASSUME TypeInv, DescriptorInv, NEW j \in jobs, JobStep(j), ~JobRun(j), UNCHANGED clientVars,
           NEW k \in Conn
    PROVE  Early(k)' \subseteq Early(k) /\ Late(k)' \subseteq Late(k)
<1>1. /\ UNCHANGED <<up, sbuf, cbuf, loop>> /\ j.pc # "queued"
  BY DEF JobStep, JobTest, JobWrite, JobWriteClosed, JobWriteFail, JobWrites, Advance, JobEnd,
         clientVars
<1>2. \A i \in JobsOn(k)' :
         i \in JobsOn(k) \/ (j \in JobsOn(k) /\ i.pc # "queued" /\ i.id = j.id)
  BY DEF JobStep, JobTest, JobWrite, JobWriteClosed, JobWriteFail, Advance, JobEnd, JobsOn,
         JobAt
<1>3. Ids(down'[k]) \subseteq Late(k)
  <2>1. down \in [Conn -> Seq(Piece)] /\ down[k] \in Seq(Piece)
    BY DEF TypeInv, TypeOK, LinkTypeOK
  <2>2. CASE JobWrite(j)
    <3>1. /\ sock[fd_[j.conn]] = j.conn /\ j.id \in Request /\ j.sent + 1 \in 1 .. Parts
      <4>1. j \in Job /\ j.sent < Parts /\ sock[fd_[j.conn]] = j.conn
        BY JobOwnsDescriptor DEF TypeInv, ServerOK
      <4>2. QED  BY <4>1, ConnectionAssumption DEF Job
    <3>2. CASE k # j.conn
      BY <2>1, <2>2, <3>1, <3>2, CarriedBy DEF JobWrite
    <3>3. CASE k = j.conn
      <4>1. [id |-> j.id, part |-> j.sent + 1] \in Piece  BY <3>1 DEF Piece
      <4>2. down'[k] = Append(down[k], [id |-> j.id, part |-> j.sent + 1])
        BY <2>1, <2>2, <3>1, <3>3 DEF JobWrite
      <4>3. Ids(down'[k]) = Ids(down[k]) \cup {j.id}
        BY <2>1, <4>1, <4>2, IdsProperties
      <4>4. j \in JobsOn(k)  BY <3>3 DEF JobsOn
      <4>5. QED  BY <1>1, <4>3, <4>4, CarriedBy
    <3>4. QED  BY <3>2, <3>3
  <2>3. CASE ~JobWrite(j)
    <3>1. down' = down
      BY <2>3 DEF JobStep, JobTest, JobWriteClosed, JobWriteFail
    <3>2. QED  BY <3>1, CarriedBy
  <2>4. QED  BY <2>2, <2>3
<1>4. QED  BY <1>1, <1>2, <1>3, CarriedBy, CarriesNoMore

\* A connection on which there is nothing carries no request.
LEMMA QuietIsEmpty ==
    ASSUME TypeInv, NEW k \in Conn, Quiet(k)
    PROVE  OnTheWay(k) = {}
<1>1. loop.conn = k => loop.id = NoRequest
  BY DEF Quiet, Requested, TypeInv, ServerOK
<1>2. Ids(<<>>) = {}
  BY DEF Ids
<1>3. QED  BY <1>1, <1>2 DEF Quiet, OnTheWay, Early, Late

\* A new request has a number that nothing on the way has.
LEMMA MakeRequestKeepsIds ==
    ASSUME TypeInv, StreamInv, IdsInv, NEW c \in Client, MakeRequest(c), UNCHANGED serverVars
    PROVE  IdsInv'
<1>1. /\ call[c] = "request" /\ connection_[c] \in Conn /\ is_connected_[c]
      /\ call' = [call EXCEPT ![c] = "write"]
      /\ sequence_id_' = [sequence_id_ EXCEPT ![c] = sequence_id_[c] + 1]
      /\ UNCHANGED <<connection_, executed>>
  BY CallerAttends DEF MakeRequest, serverVars
<1>2. /\ \A d \in Client : sequence_id_[d] \in Nat
      /\ sequence_id_[c] + 1 \in 1 .. MaxCalls
      /\ sequence_id_'[c] = sequence_id_[c] + 1
      /\ \A d \in Client \ {c} : sequence_id_'[d] = sequence_id_[d] /\ call'[d] = call[d]
  BY <1>1, ConnectionAssumption DEF TypeInv, TypeOK, ClientTypeOK, ClientOK, ClientFits
<1>3. \A d \in Client : sequence_id_[d] <= sequence_id_'[d]
  BY <1>1, <1>2
<1>4. ASSUME NEW k \in Conn
      PROVE  Early(k)' \subseteq Early(k) /\ Late(k)' \subseteq Late(k)
             /\ OnTheWay(k)' \subseteq OnTheWay(k)
  <2>1. ClientStep(c) /\ ~WritePiece(c)
    BY <1>1 DEF ClientStep, CallStep, WritePiece
  <2>2. QED  BY <2>1, ClientCarriesNoMore DEF OnTheWay
<1>5. ASSUME NEW k \in Conn, NEW r \in OnTheWay(k)
      PROVE  r \in Request /\ r.seq <= sequence_id_[r.from] /\ r.seq <= sequence_id_'[r.from]
  <2>1. r \in Request /\ r.seq <= sequence_id_[r.from]  BY DEF IdsInv, IdsOK
  <2>2. r.from \in Client /\ r.seq \in Int  BY <2>1, ConnectionAssumption DEF Request
  <2>3. sequence_id_[r.from] \in Int /\ sequence_id_'[r.from] \in Int
    BY <1>2, <2>2
  <2>4. QED  BY <1>3, <2>1, <2>2, <2>3
<1>6. \A k \in Conn : IdsOK(k)'
  BY <1>1, <1>4, <1>5 DEF IdsInv, IdsOK
<1>7. Current(c)' \in Request /\ Current(c)'.seq > sequence_id_[c] /\ Current(c)'.from = c
  BY <1>2 DEF Current, Request
<1>8. \A k \in Conn : Current(c)' \notin OnTheWay(k)'
  <2> SUFFICES ASSUME NEW k \in Conn, Current(c)' \in OnTheWay(k)' PROVE FALSE
    OBVIOUS
  <2>1. Current(c)'.seq <= sequence_id_[c]  BY <1>4, <1>5, <1>7
  <2>2. QED  BY <1>2, <1>7, <2>1 DEF Current
<1>9. executed'[Current(c)'] = 0
  BY <1>1, <1>7 DEF IdsInv, RequestsOK
<1>10. \A k \in Conn : connection_[c] = k => OnTheWay(k)' = {}
  <2> SUFFICES ASSUME NEW k \in Conn, connection_[c] = k PROVE OnTheWay(k)' = {}
    OBVIOUS
  <2>1. Quiet(k)  BY <1>1 DEF StreamInv, StreamOK, OwnerOK
  <2>2. QED  BY <1>4, <2>1, QuietIsEmpty
<1>11. \A d \in Client \ {c} : Current(d)' = Current(d)
  BY <1>2 DEF Current
<1>12. RequestsOK'
  <2>1. \A k, l \in Conn : \A r \in OnTheWay(k)' \cap OnTheWay(l)' : k = l
    BY <1>4 DEF IdsInv, RequestsOK
  <2>2. ASSUME NEW r \in Request, r.seq > sequence_id_'[r.from]
        PROVE  executed'[r] = 0
    <3>1. r.from \in Client /\ r.seq \in Int  BY ConnectionAssumption DEF Request
    <3>2. r.seq > sequence_id_[r.from]
      <4>1. sequence_id_[r.from] \in Int /\ sequence_id_'[r.from] \in Int
        BY <1>2, <3>1
      <4>2. QED  BY <1>3, <2>2, <3>1, <4>1
    <3>3. QED  BY <1>1, <3>2 DEF IdsInv, RequestsOK
  <2>3. ASSUME NEW d \in Client, call'[d] \in InCall, NEW k \in Conn, connection_'[d] = k
        PROVE  OnTheWay(k)' \subseteq {Current(d)'}
    <3>1. CASE d = c  BY <1>1, <1>10, <2>3, <3>1
    <3>2. CASE d # c
      <4>1. call[d] \in InCall /\ connection_[d] = k  BY <1>1, <1>2, <2>3, <3>2
      <4>2. OnTheWay(k) \subseteq {Current(d)}  BY <4>1 DEF IdsInv, RequestsOK
      <4>3. QED  BY <1>4, <1>11, <3>2, <4>2
    <3>3. QED  BY <3>1, <3>2
  <2>4. ASSUME NEW d \in Client, call'[d] = "write"
        PROVE  /\ executed'[Current(d)'] = 0
               /\ \A k \in Conn : Current(d)' \in OnTheWay(k)' => k = connection_'[d]
    <3>1. CASE d = c  BY <1>8, <1>9, <3>1
    <3>2. CASE d # c
      <4>1. call[d] = "write"  BY <1>2, <2>4, <3>2
      <4>2. /\ executed[Current(d)] = 0
            /\ \A k \in Conn : Current(d) \in OnTheWay(k) => k = connection_[d]
        BY <4>1 DEF IdsInv, RequestsOK
      <4>3. QED  BY <1>1, <1>4, <1>11, <3>2, <4>2
    <3>3. QED  BY <3>1, <3>2
  <2>5. QED  BY <2>1, <2>2, <2>3, <2>4 DEF RequestsOK
<1>13. QED  BY <1>6, <1>12 DEF IdsInv

\* A client puts its own request on its own connection.
LEMMA WritePieceKeepsIds ==
    ASSUME TypeInv, StreamInv, IdsInv, NEW c \in Client, WritePiece(c), UNCHANGED serverVars
    PROVE  IdsInv'
<1> DEFINE h == connection_[c]
           piece == [id |-> Current(c), part |-> sent[c] + 1]
<1>1. /\ call[c] = "write" /\ h \in Conn
      /\ up' = up \/ up' = [up EXCEPT ![h] = Append(@, piece)]
      /\ call' = call \/ call' = [call EXCEPT ![c] = "select"]
      /\ UNCHANGED <<down, cbuf, connection_, sequence_id_>>
      /\ UNCHANGED <<executed, loop, jobs, sbuf>>
  BY CallerAttends DEF WritePiece, InCall, Current, serverVars
<1>2. piece \in Piece /\ Current(c) \in Request /\ Current(c).seq = sequence_id_[c]
      /\ Current(c).from = c /\ sequence_id_[c] \in Nat
  <2>1. sent[c] \in 0 .. Parts /\ sent[c] < Parts /\ sequence_id_[c] \in 1 .. MaxCalls
    BY <1>1, ConnectionAssumption
       DEF TypeInv, TypeOK, ClientTypeOK, ClientOK, ClientFits, InCall
  <2>2. sent[c] + 1 \in 1 .. Parts  BY <2>1, ConnectionAssumption
  <2>3. QED  BY <2>1, <2>2, ConnectionAssumption DEF Piece, Request, Current
<1>3. /\ executed[Current(c)] = 0 /\ OnTheWay(h) \subseteq {Current(c)}
      /\ \A k \in Conn : Current(c) \in OnTheWay(k) => k = h
  BY <1>1 DEF IdsInv, RequestsOK, InCall
<1>4. Late(h) = {}
  <2>1. Unanswered(h)
    BY <1>1 DEF StreamInv, StreamOK, OwnerOK
  <2>2. QED  BY <2>1 DEF Unanswered, Late, Ids
<1>5. ASSUME NEW k \in Conn, k # h
      PROVE  /\ Early(k)' \subseteq Early(k) /\ Late(k)' \subseteq Late(k)
             /\ OnTheWay(k)' \subseteq OnTheWay(k)
  <2>1. up'[k] = up[k]  BY <1>1, <1>5 DEF TypeInv, TypeOK, LinkTypeOK
  <2>2. QED  BY <1>1, <2>1 DEF Early, Late, OnTheWay, Ids, JobsOn
<1>6. ASSUME NEW k \in Conn, k = h
      PROVE  /\ Early(k)' \subseteq {Current(c)} /\ Late(k)' = {}
             /\ OnTheWay(k)' \subseteq {Current(c)}
  <2>1. up[k] \in Seq(Piece)  BY DEF TypeInv, TypeOK, LinkTypeOK
  <2>2. up'[k] = up[k] \/ up'[k] = Append(up[k], piece)
    BY <1>1, <1>6 DEF TypeInv, TypeOK, LinkTypeOK
  <2>3. Ids(up'[k]) \subseteq Ids(up[k]) \cup {Current(c)}
    <3>1. Ids(Append(up[k], piece)) = Ids(up[k]) \cup {piece.id}
      BY <1>2, <2>1, IdsProperties
    <3>2. QED  BY <2>2, <3>1
  <2>4. Early(k)' \subseteq Early(k) \cup {Current(c)}
    BY <1>1, <2>3 DEF Early, Ids, JobsOn
  <2>5. Late(k)' = Late(k)
    BY <1>1 DEF Late, Ids, JobsOn
  <2>6. Early(k) \subseteq {Current(c)} /\ Late(k) = {}
    BY <1>3, <1>4, <1>6 DEF OnTheWay
  <2>7. QED  BY <2>4, <2>5, <2>6 DEF OnTheWay
<1>7. ASSUME NEW k \in Conn
      PROVE  IdsOK(k)'
  <2>1. CASE k = h
    <3>1. /\ Early(k)' \subseteq {Current(c)} /\ Late(k)' = {}
          /\ OnTheWay(k)' \subseteq {Current(c)}
      BY <1>6, <2>1
    <3>2. QED  BY <1>1, <1>2, <1>3, <3>1 DEF IdsOK
  <2>2. CASE k # h
    BY <1>1, <1>5, <2>2 DEF IdsInv, IdsOK
  <2>3. QED  BY <2>1, <2>2
<1>8. \A k \in Conn : OnTheWay(k)' \subseteq OnTheWay(k) \cup (IF k = h THEN {Current(c)} ELSE {})
  <2> SUFFICES ASSUME NEW k \in Conn
               PROVE  OnTheWay(k)' \subseteq OnTheWay(k) \cup (IF k = h THEN {Current(c)} ELSE {})
    OBVIOUS
  <2>1. CASE k = h  BY <1>6, <2>1
  <2>2. CASE k # h  BY <1>5, <2>2
  <2>3. QED  BY <2>1, <2>2
<1>9. \A d \in Client : /\ Current(d)' = Current(d)
                        /\ call'[d] \in InCall => call[d] \in InCall
                        /\ call'[d] = "write" => call[d] = "write"
  BY <1>1 DEF Current, InCall, TypeInv, TypeOK, ClientTypeOK
<1>10. \A d \in Client : Current(d) = Current(c) => d = c
  BY DEF Current
<1>11. RequestsOK'
  <2>1. \A k, l \in Conn : \A r \in OnTheWay(k)' \cap OnTheWay(l)' : k = l
    BY <1>3, <1>8 DEF IdsInv, RequestsOK
  <2>2. \A r \in Request : r.seq > sequence_id_'[r.from] => executed'[r] = 0
    BY <1>1 DEF IdsInv, RequestsOK
  <2>3. ASSUME NEW d \in Client, call'[d] \in InCall, NEW k \in Conn, connection_'[d] = k
        PROVE  OnTheWay(k)' \subseteq {Current(d)'}
    <3>1. call[d] \in InCall /\ connection_[d] = k  BY <1>1, <1>9, <2>3
    <3>2. OnTheWay(k) \subseteq {Current(d)}  BY <3>1 DEF IdsInv, RequestsOK
    <3>3. k = h => d = c
      BY <1>1, <3>1 DEF TypeInv, ClientOK, ConnectionsOwned
    <3>4. QED  BY <1>8, <1>9, <3>2, <3>3
  <2>4. ASSUME NEW d \in Client, call'[d] = "write"
        PROVE  /\ executed'[Current(d)'] = 0
               /\ \A k \in Conn : Current(d)' \in OnTheWay(k)' => k = connection_'[d]
    <3>1. call[d] = "write"  BY <1>9, <2>4
    <3>2. /\ executed[Current(d)] = 0
          /\ \A k \in Conn : Current(d) \in OnTheWay(k) => k = connection_[d]
      BY <3>1 DEF IdsInv, RequestsOK
    <3>3. QED  BY <1>1, <1>8, <1>9, <1>10, <3>2
  <2>5. QED  BY <2>1, <2>2, <2>3, <2>4 DEF RequestsOK
<1>12. QED  BY <1>7, <1>11 DEF IdsInv

\* A worker carries out a request that is nowhere else, and was never carried
\* out.
LEMMA JobRunKeepsIds ==
    ASSUME TypeInv, StreamInv, IdsInv, NEW j \in jobs, JobRun(j), UNCHANGED clientVars
    PROVE  IdsInv'
<1> DEFINE h == j.conn
           done == JobAt(j, "ran", 0)
<1>1. /\ j.pc = "queued" /\ h \in Conn /\ j.id \in Request
      /\ executed' = [executed EXCEPT ![j.id] = executed[j.id] + 1]
      /\ jobs' = (jobs \ {j}) \cup {done}
      /\ UNCHANGED <<up, down, sbuf, cbuf, loop, call, connection_, sequence_id_>>
  <2>1. j \in Job  BY DEF TypeInv, TypeOK, ServerTypeOK
  <2>2. QED  BY <2>1 DEF JobRun, Queued, Job, linkVars, clientVars
<1>2. done.conn = h /\ done.id = j.id /\ done.pc = "ran"
  BY DEF JobAt
<1>3. /\ JobsOn(h) = {j} /\ up[h] = <<>> /\ sbuf[h] = <<>> /\ down[h] = <<>> /\ cbuf[h] = <<>>
      /\ loop.conn = h => loop.id = NoRequest
  <2>1. StreamOK(h)  BY <1>1 DEF StreamInv
  <2>2. JobsOn(h) = {j} /\ up[h] = <<>> /\ sbuf[h] = <<>> /\ ~Requested(h)
    BY <2>1, JobAlone
  <2>3. down[h] = <<>> /\ cbuf[h] = <<>>
    BY <1>1, <2>1, <2>2 DEF StreamOK, OnePlace
  <2>4. QED  BY <2>2, <2>3 DEF Requested, TypeInv, ServerOK
<1>4. j.id \in Early(h) /\ j.id \in OnTheWay(h)
  BY <1>1, <1>3 DEF Early, OnTheWay
<1>5. executed[j.id] = 0 /\ j.id.seq <= sequence_id_[j.id.from]
  BY <1>1, <1>4 DEF IdsInv, IdsOK
<1>6. executed'[j.id] = 1 /\ \A r \in Request : r # j.id => executed'[r] = executed[r]
  BY <1>1, <1>5 DEF TypeInv, TypeOK, ServerTypeOK
<1>7. ASSUME NEW k \in Conn, k # h
      PROVE  Early(k)' = Early(k) /\ Late(k)' = Late(k) /\ j.id \notin OnTheWay(k)
  <2>1. JobsOn(k)' = JobsOn(k)  BY <1>1, <1>2, <1>7 DEF JobsOn
  <2>2. j.id \notin OnTheWay(k)  BY <1>1, <1>4, <1>7 DEF IdsInv, RequestsOK
  <2>3. QED  BY <1>1, <2>1, <2>2 DEF Early, Late, Ids
<1>8. ASSUME NEW k \in Conn, k = h
      PROVE  Early(k)' = {} /\ Late(k)' = {j.id}
  <2>1. JobsOn(k)' = {done}
    BY <1>1, <1>2, <1>3, <1>8 DEF JobsOn
  <2>2. Ids(<<>>) = {}  BY DEF Ids
  <2>3. Early(k)' = {}
    BY <1>1, <1>2, <1>3, <1>8, <2>1, <2>2 DEF Early, Ids
  <2>4. Late(k)' = {j.id}
    BY <1>1, <1>2, <1>3, <1>8, <2>1, <2>2 DEF Late, Ids
  <2>5. QED  BY <2>3, <2>4
<1>9. \A k \in Conn : OnTheWay(k)' \subseteq OnTheWay(k)
  BY <1>4, <1>7, <1>8 DEF OnTheWay
<1>10. ASSUME NEW k \in Conn
       PROVE  IdsOK(k)'
  <2>1. CASE k = h
    <3>1. Early(k)' = {} /\ Late(k)' = {j.id} /\ OnTheWay(k)' = {j.id}
      BY <1>8, <2>1 DEF OnTheWay
    <3>2. QED  BY <1>1, <1>5, <1>6, <3>1 DEF IdsOK
  <2>2. CASE k # h
    <3>1. /\ Early(k)' = Early(k) /\ Late(k)' = Late(k) /\ OnTheWay(k)' = OnTheWay(k)
          /\ j.id \notin OnTheWay(k)
      BY <1>7, <2>2 DEF OnTheWay
    <3>2. \A r \in OnTheWay(k) : executed'[r] = executed[r]
      BY <1>6, <3>1 DEF IdsInv, IdsOK
    <3>3. QED  BY <1>1, <3>1, <3>2 DEF IdsInv, IdsOK, OnTheWay
  <2>3. QED  BY <2>1, <2>2
<1>11. \A d \in Client : Current(d)' = Current(d)
  BY <1>1 DEF Current
<1>12. RequestsOK'
  <2>1. \A k, l \in Conn : \A r \in OnTheWay(k)' \cap OnTheWay(l)' : k = l
    BY <1>9 DEF IdsInv, RequestsOK
  <2>2. ASSUME NEW r \in Request, r.seq > sequence_id_'[r.from]
        PROVE  executed'[r] = 0
    <3>1. executed[r] = 0  BY <1>1, <2>2 DEF IdsInv, RequestsOK
    <3>2. r # j.id
      <4>1. r.seq \in Int /\ r.from \in Client  BY ConnectionAssumption DEF Request
      <4>2. sequence_id_[r.from] \in Int
        BY <4>1, ConnectionAssumption DEF TypeInv, TypeOK, ClientTypeOK
      <4>3. QED  BY <1>1, <1>5, <2>2, <4>1, <4>2
    <3>3. QED  BY <1>6, <3>1, <3>2
  <2>3. ASSUME NEW d \in Client, call'[d] \in InCall, NEW k \in Conn, connection_'[d] = k
        PROVE  OnTheWay(k)' \subseteq {Current(d)'}
    BY <1>1, <1>9, <1>11, <2>3 DEF IdsInv, RequestsOK
  <2>4. ASSUME NEW d \in Client, call'[d] = "write"
        PROVE  /\ executed'[Current(d)'] = 0
               /\ \A k \in Conn : Current(d)' \in OnTheWay(k)' => k = connection_'[d]
    <3>1. /\ call[d] = "write" /\ executed[Current(d)] = 0
          /\ \A k \in Conn : Current(d) \in OnTheWay(k) => k = connection_[d]
      BY <1>1, <2>4 DEF IdsInv, RequestsOK
    <3>2. connection_[d] \in Conn
      BY <3>1, CallerAttends DEF InCall
    <3>3. JobsOn(connection_[d]) = {}
      BY <3>1, <3>2 DEF StreamInv, StreamOK, OwnerOK, Unanswered
    <3>4. Current(d) # j.id
      <4>1. connection_[d] # h  BY <1>3, <3>3
      <4>2. QED  BY <1>1, <1>4, <3>1, <4>1
    <3>5. Current(d) \in Request
      BY <3>1, ConnectionAssumption
         DEF Current, Request, TypeInv, TypeOK, ClientTypeOK, ClientOK, ClientFits, InCall
    <3>6. QED  BY <1>1, <1>6, <1>9, <1>11, <3>1, <3>4, <3>5
  <2>5. QED  BY <2>1, <2>2, <2>3, <2>4 DEF RequestsOK
<1>13. QED  BY <1>10, <1>12 DEF IdsInv

\* No request is on the way at the start, and none was carried out.
LEMMA IdsInit == Init => IdsInv
<1> SUFFICES ASSUME Init PROVE IdsInv
  OBVIOUS
<1>1. \A k \in Conn : OnTheWay(k) = {}
  <2>1. Ids(<<>>) = {}  BY DEF Ids
  <2>2. QED
    BY <2>1, ConnectionAssumption
       DEF Init, LinkInit, ClientInit, ServerInit, OnTheWay, Early, Late, JobsOn, Waiting, LoopAt
<1>2. \A k \in Conn : IdsOK(k)
  BY <1>1 DEF IdsOK, OnTheWay
<1>3. RequestsOK
  BY <1>1 DEF RequestsOK, InCall, Init, ClientInit, ServerInit
<1>4. QED  BY <1>2, <1>3 DEF IdsInv

\* Every step keeps requests apart, and each carried out once at most.
LEMMA IdsNext ==
    ASSUME CallInv, [Next]_vars
    PROVE  IdsInv'
<1>1. TypeInv /\ DescriptorInv /\ StreamInv /\ IdsInv
  BY DEF CallInv
<1>2. CASE UNCHANGED vars
  <2>1. ASSUME NEW k \in Conn
        PROVE  Early(k)' \subseteq Early(k) /\ Late(k)' \subseteq Late(k)
    BY <1>2, CarriedBy, CarriesNoMore DEF vars, linkVars, clientVars, serverVars, JobsOn
  <2>2. \A c \in Client : call[c] \in InCall => connection_[c] \in Conn
    BY <1>1, CallerAttends
  <2>3. QED  BY <1>1, <1>2, <2>1, <2>2, IdsEase DEF vars, clientVars, serverVars
<1>3. ASSUME NEW c \in Client, ClientStep(c), UNCHANGED serverVars,
             ~MakeRequest(c), ~WritePiece(c)
      PROVE  IdsInv'
  <2>1. \A k \in Conn : Early(k)' \subseteq Early(k) /\ Late(k)' \subseteq Late(k)
    BY <1>1, <1>3, ClientCarriesNoMore
  <2>2. UNCHANGED <<executed, sequence_id_>>
    BY <1>3 DEF ClientStep, CallBegin, CallStep, Connect, ConnectFail, SerializeFail,
                WriteFail, SelectReady, SelectTimeout, ClientRead, ClientReadEnd,
                ClientExtract, Disconnect, ClientDies, BreakOff, serverVars
  <2>3. ASSUME NEW d \in Client, call'[d] \in InCall
        PROVE  /\ call[d] \in InCall /\ connection_'[d] = connection_[d]
               /\ call'[d] = "write" => call[d] = "write"
    <3>1. ClientTypeOK  BY <1>1 DEF TypeInv, TypeOK
    <3>2. CASE ClientRead(c) \/ ClientExtract(c)
      BY <2>3, <3>1, <3>2
         DEF ClientRead, ClientExtract, BreakOff, CallReturn, InCall, ClientTypeOK
    <3>3. CASE CallBegin(c) \/ ConnectFail(c) \/ SerializeFail(c) \/ WriteFail(c)
               \/ SelectReady(c) \/ SelectTimeout(c) \/ ClientReadEnd(c)
      BY <2>3, <3>1, <3>3
         DEF CallBegin, ConnectFail, SerializeFail, WriteFail, SelectReady, SelectTimeout,
             ClientReadEnd, BreakOff, CallReturn, Connecting, InCall, ClientTypeOK
    <3>4. CASE Disconnect(c) \/ ClientDies(c) \/ \E k \in Conn : Connect(c, k)
      BY <2>3, <3>1, <3>4
         DEF Disconnect, ClientDies, Connect, Connected, Connecting, InCall, ClientTypeOK
    <3>5. QED  BY <1>3, <3>2, <3>3, <3>4 DEF ClientStep, CallStep
  <2>4. \A d \in Client : call[d] \in InCall => connection_[d] \in Conn
    BY <1>1, CallerAttends
  <2>5. QED  BY <1>1, <2>1, <2>2, <2>3, <2>4, IdsEase
<1>4. ASSUME ServerStep, UNCHANGED clientVars, \A j \in jobs : ~JobRun(j)
      PROVE  IdsInv'
  <2>1. \A k \in Conn : Early(k)' \subseteq Early(k) /\ Late(k)' \subseteq Late(k)
    BY <1>1, <1>4, LoopCarriesNoMore, JobCarriesNoMore DEF ServerStep
  <2>2. executed' = executed
    BY <1>4 DEF ServerStep, Accept, AcceptFail, LoopEvent, LoopStep, LoopRead, LoopReadNothing,
                LoopExtract, LoopEnqueue, LoopEnd, JobStep, JobTest, JobWrite, JobWriteClosed,
                JobWriteFail, Stop, ServerDies, serverVars
  <2>3. \A d \in Client : call[d] \in InCall => connection_[d] \in Conn
    BY <1>1, CallerAttends
  <2>4. QED  BY <1>1, <1>4, <2>1, <2>2, <2>3, IdsEase DEF clientVars
<1>5. QED
  BY <1>1, <1>2, <1>3, <1>4, MakeRequestKeepsIds, WritePieceKeepsIds, JobRunKeepsIds DEF Next

-----------------------------------------------------------------------------
(* What a call gets *)

\* The four parts hold at the start ...
LEMMA CallInvInit == Init => CallInv
BY TypeInit, DescriptorInit, StreamInit, IdsInit DEF CallInv

\* ... and are inductive together.
LEMMA CallInvNext ==
    ASSUME CallInv, [Next]_vars
    PROVE  CallInv'
BY TypeNext, DescriptorNext, StreamNext, IdsNext DEF CallInv

\* A connection carries one request, and nothing of the last call is left on it
\* when the next one begins.
THEOREM OneRequestOutstanding == Spec => []OneOutstanding
<1>1. CallInv => OneOutstanding
  <2> SUFFICES ASSUME CallInv PROVE OneOutstanding
    OBVIOUS
  <2>1. \A k \in Conn : \A r, s \in OnTheWay(k) : r = s
    BY DEF CallInv, IdsInv, IdsOK
  <2>2. ASSUME NEW c \in Client, call[c] = "idle", is_connected_[c]
        PROVE  OnTheWay(connection_[c]) = {}
    <3>1. connection_[c] \in Conn
      BY <2>2 DEF CallInv, TypeInv, ClientOK, ClientFits
    <3>2. Quiet(connection_[c])
      BY <2>2, <3>1 DEF CallInv, StreamInv, StreamOK, OwnerOK
    <3>3. QED  BY <3>1, <3>2, QuietIsEmpty DEF CallInv
  <2>3. QED  BY <2>1, <2>2 DEF OneOutstanding
<1>2. CallInv /\ [Next]_vars => CallInv'  BY CallInvNext
<1>3. QED  BY <1>1, <1>2, CallInvInit, PTL DEF Spec

\* No reader ever finds a frame whose pieces are out of order or mixed.
THEOREM FramesStayIntact == Spec => []FramesIntact
<1>1. CallInv => FramesIntact
  BY BuffersInOrder DEF CallInv, StreamInv, IdsInv, FramesIntact
<1>2. CallInv /\ [Next]_vars => CallInv'  BY CallInvNext
<1>3. QED  BY <1>1, <1>2, CallInvInit, PTL DEF Spec

\* What ExtractFrame() gives a client is the answer to the request it waits for,
\* which was carried out.
LEMMA ClientGetsItsAnswer ==
    ASSUME CallInv, NEW c \in Client, ClientExtract(c),
           FrameStatus(cbuf[connection_[c]]) # "kIncomplete"
    PROVE  /\ FrameStatus(cbuf[connection_[c]]) = "kComplete"
           /\ cbuf[connection_[c]][1].id = Current(c)
           /\ Current(c) \in Request /\ executed[Current(c)] = 1
<1> DEFINE k == connection_[c]
<1>1. call[c] = "extract" /\ k \in Conn
  BY CallerAttends DEF ClientExtract, InCall, CallInv
<1>2. TypeInv /\ StreamOK(k) /\ IdsOK(k)
  BY <1>1 DEF CallInv, StreamInv, IdsInv
<1>3. cbuf[k] \in Seq(Piece)
  BY <1>1, <1>2 DEF TypeInv, TypeOK, ClientTypeOK
<1>4. cbuf[k][1].id \in Ids(cbuf[k]) /\ cbuf[k][1].id \in Request
  BY <1>3, ExtractTypes
<1>5. cbuf[k][1].id \in Late(k) /\ cbuf[k][1].id \in OnTheWay(k)
  BY <1>4 DEF Late, OnTheWay
<1>6. executed[cbuf[k][1].id] = 1
  BY <1>2, <1>5 DEF IdsOK
<1>7. cbuf[k][1].id = Current(c)
  BY <1>1, <1>5 DEF CallInv, IdsInv, RequestsOK, InCall
<1>8. FrameStatus(cbuf[k]) = "kComplete"
  BY <1>1, <1>2, BuffersInOrder
<1>9. QED  BY <1>4, <1>6, <1>7, <1>8

\* What a client's step does to call, in one assignment.
LEMMA PhaseChanges ==
    ASSUME TypeInv, NEW c \in Client, NEW pc \in CallPC, call' = [call EXCEPT ![c] = pc]
    PROVE  [d \in Client |-> Phase(call'[d])]
              = [[d \in Client |-> Phase(call[d])] EXCEPT ![c] = Phase(pc)]
BY DEF TypeInv, TypeOK, ClientTypeOK

\* A client may move on without RpcCall seeing it.
LEMMA PhaseStays ==
    ASSUME TypeInv, NEW c \in Client, NEW pc \in CallPC, call' = [call EXCEPT ![c] = pc],
           Phase(pc) = Phase(call[c])
    PROVE  [d \in Client |-> Phase(call'[d])] = [d \in Client |-> Phase(call[d])]
BY DEF TypeInv, TypeOK, ClientTypeOK

\* What RpcCall sees of where a client is.
LEMMA Phases ==
    /\ \A pc \in {"construct", "idle", "connect", "request"} : Phase(pc) = "idle"
    /\ \A pc \in InCall : Phase(pc) = "calling"
    /\ Phase("dead") = "dead"
BY DEF Phase, InCall

\* Call() returns.
LEMMA ReturnChangesPhase ==
    ASSUME TypeInv, NEW c \in Client, call' = [call EXCEPT ![c] = "idle"]
    PROVE  [d \in Client |-> Phase(call'[d])]
              = [[d \in Client |-> Phase(call[d])] EXCEPT ![c] = "idle"]
<1>1. "idle" \in CallPC /\ Phase("idle") = "idle"
  BY Phases DEF CallPC
<1>2. [d \in Client |-> Phase(call'[d])]
         = [[d \in Client |-> Phase(call[d])] EXCEPT ![c] = Phase("idle")]
  BY <1>1, PhaseChanges
<1>3. QED  BY <1>1, <1>2

\* Whatever lets Call() return false, once it has made a request.
LEMMA BreakOffFails ==
    ASSUME TypeInv, NEW c \in Client, call[c] \in InCall, BreakOff(c), UNCHANGED executed
    PROVE  Calls!Fail(c)
<1>1. [d \in Client |-> Phase(call'[d])]
         = [[d \in Client |-> Phase(call[d])] EXCEPT ![c] = "idle"]
  BY ReturnChangesPhase DEF BreakOff, CallReturn
<1>2. QED
  BY <1>1, Phases DEF BreakOff, CallReturn, Calls!Fail, Calls!Failed, Failed

\* What a call returns is the answer to its own request, if it is not Failed.
LEMMA ExtractReturns ==
    ASSUME CallInv, NEW c \in Client, ClientExtract(c), UNCHANGED executed,
           FrameStatus(cbuf[connection_[c]]) # "kIncomplete"
    PROVE  /\ Calls!Return(c) \/ Calls!Fail(c)
           /\ call' = [call EXCEPT ![c] = "idle"]
           /\ \E r \in {Failed, Current(c)} : result' = [result EXCEPT ![c] = r]
           /\ UNCHANGED sequence_id_
<1>1. /\ FrameStatus(cbuf[connection_[c]]) = "kComplete"
      /\ cbuf[connection_[c]][1].id = Current(c) /\ executed[Current(c)] = 1
  BY ClientGetsItsAnswer
<1>2. call[c] = "extract" /\ CallReturn(c, Answer(Current(c))) /\ UNCHANGED sequence_id_
  BY <1>1 DEF ClientExtract
<1>3. [d \in Client |-> Phase(call'[d])]
         = [[d \in Client |-> Phase(call[d])] EXCEPT ![c] = "idle"]
  BY <1>2, ReturnChangesPhase DEF CallInv, CallReturn
<1>4. Phase(call[c]) = "calling"
  BY <1>2, Phases DEF InCall
<1>5. CASE Answer(Current(c)) = Failed
  BY <1>2, <1>3, <1>4, <1>5 DEF CallReturn, Calls!Fail, Calls!Failed, Failed
<1>6. CASE Answer(Current(c)) = Current(c)
  BY <1>1, <1>2, <1>3, <1>4, <1>6 DEF CallReturn, Calls!Return, Current
<1>7. QED  BY <1>5, <1>6 DEF Answer

\* Call() never returns the answer to another request, although it does not
\* compare sequence ids.
LEMMA AnswerNext ==
    ASSUME CallInv, AnswerMatches, [Next]_vars
    PROVE  AnswerMatches'
<1> SUFFICES ASSUME NEW d \in Client, call'[d] = "idle", result'[d] # Failed
             PROVE  result'[d] = Current(d)'
  BY DEF AnswerMatches, Current
<1>1. TypeInv /\ ClientTypeOK
  BY DEF CallInv, TypeInv, TypeOK
<1>2. CASE call[d] = "idle" /\ result'[d] = result[d] /\ sequence_id_'[d] = sequence_id_[d]
  BY <1>2 DEF AnswerMatches, Current
<1>3. CASE UNCHANGED clientVars
  BY <1>2, <1>3 DEF clientVars
<1>4. ASSUME NEW c \in Client, ClientStep(c), UNCHANGED serverVars
      PROVE  result'[d] = Current(d)'
  <2>1. CASE ClientExtract(c) /\ FrameStatus(cbuf[connection_[c]]) # "kIncomplete"
    <3>1. UNCHANGED executed  BY <1>4 DEF serverVars
    <3>2. /\ call' = [call EXCEPT ![c] = "idle"] /\ UNCHANGED sequence_id_
          /\ \E r \in {Failed, Current(c)} : result' = [result EXCEPT ![c] = r]
      BY <2>1, <3>1, ExtractReturns
    <3>3. QED  BY <1>1, <1>2, <3>2 DEF Current, ClientTypeOK
  <2>2. CASE ClientExtract(c) /\ FrameStatus(cbuf[connection_[c]]) = "kIncomplete"
    BY <1>1, <1>2, <2>2 DEF ClientExtract, ClientTypeOK
  <2>3. CASE ClientRead(c) \/ WriteFail(c) \/ SelectTimeout(c) \/ ClientReadEnd(c)
    BY <1>1, <1>2, <2>3
       DEF ClientRead, WriteFail, SelectTimeout, ClientReadEnd, BreakOff, CallReturn, ClientTypeOK
  <2>4. CASE ConnectFail(c) \/ SerializeFail(c)
    BY <1>1, <1>2, <2>4 DEF ConnectFail, SerializeFail, CallReturn, ClientTypeOK
  <2>5. CASE CallBegin(c) \/ MakeRequest(c) \/ WritePiece(c) \/ SelectReady(c)
    BY <1>1, <1>2, <2>5 DEF CallBegin, MakeRequest, WritePiece, SelectReady, ClientTypeOK
  <2>6. CASE Disconnect(c) \/ ClientDies(c)
    BY <1>1, <1>2, <2>6 DEF Disconnect, ClientDies, ClientTypeOK
  <2>7. ASSUME NEW k \in Conn, Connect(c, k)
        PROVE  result'[d] = Current(d)'
    <3>1. call[c] = "construct" => result[c] = Failed
      BY <1>1 DEF TypeInv, ClientOK, ClientFits
    <3>2. QED  BY <1>1, <1>2, <2>7, <3>1 DEF Connect, Connected, Connecting, ClientTypeOK
  <2>8. QED
    BY <1>4, <2>1, <2>2, <2>3, <2>4, <2>5, <2>6, <2>7 DEF ClientStep, CallStep
<1>5. QED  BY <1>3, <1>4 DEF Next, vars

\* Call() never returns the answer to another request, although it does not
\* compare sequence ids: for any number of clients, calls and time-outs.
THEOREM AnswersMatch == Spec => []AnswerMatches
<1>1. Init => CallInv /\ AnswerMatches
  BY CallInvInit DEF Init, ClientInit, AnswerMatches
<1>2. CallInv /\ AnswerMatches /\ [Next]_vars => CallInv' /\ AnswerMatches'
  BY CallInvNext, AnswerNext
<1>3. QED  BY <1>1, <1>2, PTL DEF Spec

-----------------------------------------------------------------------------
(* The refinement of RpcCall *)

\* The mapping of a state of the channel to one of RpcCall.
Mapped == <<[d \in Client |-> Phase(call[d])], sequence_id_, executed, result>>

\* Initial states are initial states of RpcCall.
LEMMA MapInit == Init => Calls!Init
<1> SUFFICES ASSUME Init PROVE Calls!Init
  OBVIOUS
<1>1. [d \in Client |-> Phase(call[d])] = [d \in Client |-> "idle"]
  BY Phases DEF Init, ClientInit
<1>2. QED
  BY <1>1
     DEF Init, ClientInit, ServerInit, Calls!Init, Calls!Request, Request, Calls!Failed, Failed

\* A step of a client is one step of RpcCall, or none that it can see.
LEMMA MapClient ==
    ASSUME CallInv, NEW c \in Client, ClientStep(c), UNCHANGED serverVars
    PROVE  Calls!Next \/ UNCHANGED Mapped
<1>1. TypeInv /\ ClientTypeOK /\ UNCHANGED executed
  BY DEF CallInv, TypeInv, TypeOK, serverVars
<1>2. ASSUME NEW pc \in CallPC, call' = [call EXCEPT ![c] = pc], Phase(pc) = Phase(call[c]),
             UNCHANGED <<sequence_id_, result>>
      PROVE  UNCHANGED Mapped
  BY <1>1, <1>2, PhaseStays DEF Mapped
<1>3. UNCHANGED <<call, sequence_id_, result>> => UNCHANGED Mapped
  BY <1>1 DEF Mapped
<1>4. Calls!Begin(c) \/ Calls!Refuse(c) \/ Calls!Return(c) \/ Calls!Fail(c) \/ Calls!Die(c)
         => Calls!Next
  BY DEF Calls!Next
<1>5. CASE CallBegin(c)
  <2>1. PICK pc \in {"request", "connect"} : call' = [call EXCEPT ![c] = pc]
    BY <1>5 DEF CallBegin
  <2>2. pc \in CallPC /\ Phase(pc) = "idle" /\ Phase(call[c]) = "idle"
    BY <1>5, Phases DEF CallBegin, CallPC
  <2>3. QED  BY <1>2, <1>5, <2>1, <2>2 DEF CallBegin
<1>6. ASSUME NEW k \in Conn, Connect(c, k)
      PROVE  UNCHANGED Mapped
  <2>1. PICK pc \in {"idle", "request"} : call' = [call EXCEPT ![c] = pc]
    BY <1>1, <1>6 DEF Connect, Connected, ClientTypeOK
  <2>2. pc \in CallPC /\ Phase(pc) = "idle" /\ Phase(call[c]) = "idle"
    BY <1>6, Phases DEF Connect, Connecting, CallPC
  <2>3. QED  BY <1>2, <1>6, <2>1, <2>2 DEF Connect
<1>7. ASSUME call[c] \in {"connect", "request"}, CallReturn(c, Failed), UNCHANGED sequence_id_
      PROVE  Calls!Refuse(c)
  <2>1. Phase(call[c]) = "idle" /\ Phase("idle") = "idle" /\ "idle" \in CallPC
    BY <1>7, Phases DEF CallPC
  <2>2. [d \in Client |-> Phase(call'[d])] = [d \in Client |-> Phase(call[d])]
    BY <1>1, <1>7, <2>1, PhaseStays DEF CallReturn
  <2>3. QED
    BY <1>1, <1>7, <2>1, <2>2 DEF CallReturn, Calls!Refuse, Calls!Failed, Failed
<1>8. ASSUME call' = [call EXCEPT ![c] = "dead"], UNCHANGED <<sequence_id_, result>>
      PROVE  Calls!Die(c)
  <2>1. Phase("dead") = "dead" /\ "dead" \in CallPC
    BY Phases DEF CallPC
  <2>2. [d \in Client |-> Phase(call'[d])]
           = [[d \in Client |-> Phase(call[d])] EXCEPT ![c] = Phase("dead")]
    BY <1>1, <1>8, <2>1, PhaseChanges
  <2>3. QED  BY <1>1, <1>8, <2>1, <2>2 DEF Calls!Die
<1>9. CASE ConnectFail(c) \/ SerializeFail(c) \/ ClientDies(c)
  BY <1>4, <1>7, <1>8, <1>9 DEF ConnectFail, SerializeFail, ClientDies, Connecting
<1>10. CASE MakeRequest(c)
  <2>1. Phase(call[c]) = "idle" /\ Phase("write") = "calling" /\ "write" \in CallPC
    BY <1>10, Phases DEF MakeRequest, CallPC, InCall
  <2>2. [d \in Client |-> Phase(call'[d])]
           = [[d \in Client |-> Phase(call[d])] EXCEPT ![c] = Phase("write")]
    BY <1>1, <1>10, <2>1, PhaseChanges DEF MakeRequest
  <2>3. Calls!Begin(c)
    BY <1>1, <1>10, <2>1, <2>2 DEF MakeRequest, Calls!Begin
  <2>4. QED  BY <1>4, <2>3
<1>11. ASSUME call[c] \in InCall, BreakOff(c)
       PROVE  Calls!Next
  BY <1>1, <1>4, <1>11, BreakOffFails
<1>12. CASE WriteFail(c) \/ SelectTimeout(c) \/ ClientReadEnd(c)
  BY <1>11, <1>12 DEF WriteFail, SelectTimeout, ClientReadEnd, InCall
<1>13. ASSUME call[c] \in InCall, NEW pc \in InCall, call' = [call EXCEPT ![c] = pc],
              UNCHANGED <<sequence_id_, result>>
       PROVE  UNCHANGED Mapped
  <2>1. pc \in CallPC /\ Phase(pc) = Phase(call[c])
    BY <1>13, Phases DEF InCall, CallPC
  <2>2. QED  BY <1>2, <1>13, <2>1
<1>14. CASE WritePiece(c)
  <2>1. call[c] \in InCall /\ "select" \in InCall  BY <1>14 DEF WritePiece, InCall
  <2>2. QED  BY <1>3, <1>13, <1>14, <2>1 DEF WritePiece
<1>15. CASE SelectReady(c)
  <2>1. call[c] \in InCall /\ "read" \in InCall  BY <1>15 DEF SelectReady, InCall
  <2>2. QED  BY <1>13, <1>15, <2>1 DEF SelectReady
<1>16. CASE ClientRead(c)
  <2>1. call[c] \in InCall /\ "extract" \in InCall  BY <1>16 DEF ClientRead, InCall
  <2>2. BreakOff(c) \/ UNCHANGED <<call, sequence_id_, result>>
        \/ (call' = [call EXCEPT ![c] = "extract"] /\ UNCHANGED <<sequence_id_, result>>)
    BY <1>16 DEF ClientRead
  <2>3. QED  BY <1>3, <1>11, <1>13, <2>1, <2>2
<1>17. CASE ClientExtract(c)
  <2>1. call[c] \in InCall /\ "select" \in InCall  BY <1>17 DEF ClientExtract, InCall
  <2>2. CASE FrameStatus(cbuf[connection_[c]]) = "kIncomplete"
    BY <1>13, <1>17, <2>1, <2>2 DEF ClientExtract
  <2>3. CASE FrameStatus(cbuf[connection_[c]]) # "kIncomplete"
    BY <1>1, <1>4, <1>17, <2>3, ExtractReturns
  <2>4. QED  BY <2>2, <2>3
<1>18. CASE Disconnect(c)
  BY <1>3, <1>18 DEF Disconnect
<1>19. QED
  BY <1>5, <1>6, <1>9, <1>10, <1>12, <1>14, <1>15, <1>16, <1>17, <1>18
     DEF ClientStep, CallStep

\* A worker that runs a job carries out a request that was made and never
\* carried out; nothing else that the server does is seen.
LEMMA MapServer ==
    ASSUME CallInv, ServerStep, UNCHANGED clientVars
    PROVE  Calls!Next \/ UNCHANGED Mapped
<1>1. TypeInv /\ StreamInv /\ IdsInv
  BY DEF CallInv
<1>2. UNCHANGED <<[d \in Client |-> Phase(call[d])], sequence_id_, result>>
  BY DEF clientVars
<1>3. ASSUME NEW j \in jobs, JobRun(j)
      PROVE  Calls!Next
  <2>1. j \in Job /\ j.conn \in Conn /\ j.id \in Request /\ j.pc = "queued"
    BY <1>1, <1>3 DEF TypeInv, TypeOK, ServerTypeOK, JobRun, Queued, Job
  <2>2. j.id \in Early(j.conn) /\ j.id \in OnTheWay(j.conn)
    BY <2>1 DEF Early, OnTheWay, JobsOn
  <2>3. executed[j.id] = 0 /\ j.id.seq <= sequence_id_[j.id.from]
    BY <1>1, <2>1, <2>2 DEF IdsInv, IdsOK
  <2>4. executed' = [executed EXCEPT ![j.id] = 1]
    BY <1>3, <2>3 DEF JobRun
  <2>5. Calls!Execute(j.id)
    BY <1>2, <2>3, <2>4 DEF Calls!Execute
  <2>6. QED  BY <2>1, <2>5 DEF Calls!Next, Calls!Request, Request
<1>4. CASE \A j \in jobs : ~JobRun(j)
  <2>1. executed' = executed
    BY <1>4 DEF ServerStep, Accept, AcceptFail, LoopEvent, LoopStep, LoopRead, LoopReadNothing,
                LoopExtract, LoopEnqueue, LoopEnd, JobStep, JobTest, JobWrite, JobWriteClosed,
                JobWriteFail, Stop, ServerDies, serverVars
  <2>2. QED  BY <1>2, <2>1 DEF Mapped
<1>5. QED  BY <1>3, <1>4

\* Every step is a step of RpcCall or a stutter.
LEMMA MapNext == CallInv /\ [Next]_vars => [Calls!Next]_(Calls!vars)
<1> SUFFICES ASSUME CallInv, [Next]_vars PROVE [Calls!Next]_(Calls!vars)
  OBVIOUS
<1>1. CASE UNCHANGED vars
  BY <1>1 DEF vars, clientVars, serverVars, Calls!vars
<1>2. CASE Next
  <2>1. Calls!Next \/ UNCHANGED Mapped
    BY <1>2, MapClient, MapServer DEF Next
  <2>2. UNCHANGED Mapped => UNCHANGED Calls!vars
    BY DEF Mapped, Calls!vars
  <2>3. QED  BY <2>1, <2>2
<1>3. QED  BY <1>1, <1>2

\* Clients and server implement RpcCall, for any number of clients, connections,
\* pieces and workers, with time-outs, overflows and deaths on either side: a
\* call fails or returns the result of its own request, which was carried out,
\* and no request is ever carried out twice.
THEOREM ChannelImplementsCalls == Spec => ImplementsRpcCall
<1>1. CallInv /\ [Next]_vars => CallInv'  BY CallInvNext
<1>2. QED  BY <1>1, CallInvInit, MapInit, MapNext, PTL DEF Spec, ImplementsRpcCall, Calls!Spec

=============================================================================
