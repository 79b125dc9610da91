--------------------------- MODULE RpcChannelProofs ---------------------------
(***************************************************************************)
(* The life of a descriptor in the server, proved for any number of        *)
(* clients, connections, descriptors and jobs.                             *)
(***************************************************************************)
EXTENDS RpcChannel, TLAPS

TablesOK ==
    /\ link \in [Conn -> LinkState]
    /\ connections_ \in [Fd -> Conn \cup {NoConn}]
    /\ fd_ \in [Conn -> Fd \cup {NoFd}]
    /\ sock \in [Fd -> Conn \cup {NoConn}]

\* Whoever is referred to has a descriptor.
ReferencedIsOpen == \A k \in Conn : Referenced(k) => fd_[k] # NoFd

\* The kernel's table agrees with fd_.
KernelAgrees == \A k \in Conn : fd_[k] # NoFd => sock[fd_[k]] = k

\* connections_ has each Connection under its own descriptor.
ConnectionsAgree == \A f \in Fd : connections_[f] # NoConn => fd_[connections_[f]] = f

\* A connection that waits or has a descriptor is not closed.
ShutIsClosed == \A k \in Conn : k \in backlog \/ fd_[k] # NoFd => k \notin shut

\* A connection that is not accepted yet has no descriptor.
NotYetAccepted ==
    \A k \in Conn :
       /\ link[k] = "free" \/ k \in backlog => fd_[k] = NoFd
       /\ k \in backlog => link[k] # "free"

DescriptorInv ==
    /\ TablesOK /\ ReferencedIsOpen /\ KernelAgrees
    /\ ConnectionsAgree /\ ShutIsClosed /\ NotYetAccepted

\* What most steps do to the connections: none is made, none enters the backlog.
LinksOnlyAge ==
    /\ link' \in [Conn -> LinkState]
    /\ \A k \in Conn : link'[k] = "free" => link[k] = "free"
    /\ backlog' \subseteq backlog

\* What most steps do to the shared pointers: no Connection is referred to anew.
ReferencesOnlyDrop ==
    /\ connections_' \in [Fd -> Conn \cup {NoConn}]
    /\ \A f \in Fd : connections_'[f] \in {connections_[f], NoConn}
    /\ \A k \in Conn : Referenced(k)' => Referenced(k)

\* A step that leaves the descriptors alone.
LEMMA KeepsDescriptors ==
    ASSUME DescriptorInv, LinksOnlyAge, ReferencesOnlyDrop,
           UNCHANGED <<fd_, sock, shut>>
    PROVE  DescriptorInv'
<1>1. TablesOK'
  BY DEF DescriptorInv, TablesOK, LinksOnlyAge, ReferencesOnlyDrop
<1>2. ReferencedIsOpen'
  BY DEF DescriptorInv, ReferencedIsOpen, ReferencesOnlyDrop
<1>3. KernelAgrees' /\ NotYetAccepted'
  BY DEF DescriptorInv, KernelAgrees, NotYetAccepted, LinksOnlyAge
<1>4. ConnectionsAgree'
  BY DEF DescriptorInv, ConnectionsAgree, ReferencesOnlyDrop
<1>5. ShutIsClosed'
  BY DEF DescriptorInv, ShutIsClosed, LinksOnlyAge
<1>6. QED  BY <1>1, <1>2, <1>3, <1>4, <1>5 DEF DescriptorInv

\* ~Connection() closes the descriptors of those that nobody refers to any more,
\* and of no others.
LEMMA ReleaseKeepsDescriptors ==
    ASSUME DescriptorInv, LinksOnlyAge, ReferencesOnlyDrop, Release
    PROVE  DescriptorInv'
<1> DEFINE gone == {k \in Conn : fd_[k] # NoFd /\ ~Referenced(k)'}
<1>1. /\ fd_' = [k \in Conn |-> IF k \in gone THEN NoFd ELSE fd_[k]]
      /\ sock' = [f \in Fd |-> IF sock[f] \in gone THEN NoConn ELSE sock[f]]
      /\ shut' = shut \cup gone
  BY DEF Release, Closing
<1>2. TablesOK'
  BY <1>1 DEF DescriptorInv, TablesOK, LinksOnlyAge, ReferencesOnlyDrop
<1>3. ReferencedIsOpen'
  BY <1>1 DEF DescriptorInv, ReferencedIsOpen, ReferencesOnlyDrop
<1>4. KernelAgrees'
  <2> SUFFICES ASSUME NEW k \in Conn, fd_'[k] # NoFd
               PROVE  sock'[fd_'[k]] = k
    BY DEF KernelAgrees
  <2>1. k \notin gone /\ fd_'[k] = fd_[k]  BY <1>1
  <2>2. fd_[k] \in Fd /\ sock[fd_[k]] = k
    BY <2>1 DEF DescriptorInv, TablesOK, KernelAgrees
  <2>3. QED  BY <1>1, <2>1, <2>2
<1>5. NotYetAccepted'
  BY <1>1 DEF DescriptorInv, NotYetAccepted, LinksOnlyAge
<1>6. ConnectionsAgree'
  <2> SUFFICES ASSUME NEW f \in Fd, connections_'[f] # NoConn
               PROVE  fd_'[connections_'[f]] = f
    BY DEF ConnectionsAgree
  <2>1. connections_'[f] = connections_[f] /\ connections_[f] \in Conn
    BY DEF ReferencesOnlyDrop, DescriptorInv, TablesOK
  <2>2. connections_'[f] \notin gone
    BY <2>1 DEF Referenced
  <2>3. QED  BY <1>1, <2>1, <2>2 DEF DescriptorInv, ConnectionsAgree
<1>7. ShutIsClosed'
  BY <1>1 DEF DescriptorInv, ShutIsClosed, NotYetAccepted, LinksOnlyAge
<1>8. QED  BY <1>2, <1>3, <1>4, <1>5, <1>6, <1>7 DEF DescriptorInv

\* The server holds no descriptor at the start.
LEMMA DescriptorInit == Init => DescriptorInv
BY ConnectionAssumption, ServerAssumption
   DEF Init, LinkInit, ServerInit, Waiting, LoopAt, DescriptorInv, TablesOK, ReferencedIsOpen,
       KernelAgrees, ConnectionsAgree, ShutIsClosed, NotYetAccepted, Referenced, LinkState

-----------------------------------------------------------------------------
(* The clients *)

\* A client closes its end and opens connections that were never used.
LEMMA ClientKeepsDescriptors ==
    ASSUME DescriptorInv, NEW c \in Client, ClientStep(c), UNCHANGED serverVars
    PROVE  DescriptorInv'
<1> USE ConnectionAssumption
<1>1. ReferencesOnlyDrop /\ UNCHANGED <<fd_, sock, connections_>>
  BY DEF ReferencesOnlyDrop, DescriptorInv, TablesOK, serverVars, Referenced
<1>2. CASE UNCHANGED <<link, shut, backlog>>
  <2>1. LinksOnlyAge  BY <1>2 DEF LinksOnlyAge, DescriptorInv, TablesOK
  <2>2. QED  BY <1>1, <1>2, <2>1, KeepsDescriptors
<1>3. CASE link' = LinkClosed(connection_[c]) /\ UNCHANGED <<shut, backlog>>
  <2>1. LinksOnlyAge
    BY <1>3 DEF LinksOnlyAge, LinkClosed, LinkState, DescriptorInv, TablesOK, NotYetAccepted
  <2>2. QED  BY <1>1, <1>3, <2>1, KeepsDescriptors
<1>4. ASSUME NEW k \in Conn, Connect(c, k)
      PROVE  DescriptorInv'
  <2>1. /\ link' = [LinkClosed(connection_[c]) EXCEPT ![k] = "open"]
        /\ backlog' = backlog \cup {k} /\ link[k] = "free"
        /\ k \notin shut /\ shut' = shut
    BY <1>4 DEF Connect
  <2>2. /\ link' \in [Conn -> LinkState] /\ link'[k] = "open"
        /\ \A j \in Conn : link'[j] = "free" => link[j] = "free"
    BY <2>1 DEF LinkClosed, LinkState, DescriptorInv, TablesOK
  <2>3. NotYetAccepted'
    BY <1>1, <2>1, <2>2 DEF NotYetAccepted, DescriptorInv
  <2>4. TablesOK' /\ ReferencedIsOpen' /\ KernelAgrees'
    BY <1>1, <2>2 DEF DescriptorInv, TablesOK, ReferencedIsOpen, KernelAgrees,
                      ReferencesOnlyDrop
  <2>5. ConnectionsAgree' /\ ShutIsClosed'
    BY <1>1, <2>1 DEF DescriptorInv, ConnectionsAgree, ShutIsClosed
  <2>6. QED  BY <2>3, <2>4, <2>5 DEF DescriptorInv
<1>5. CASE CallBegin(c) \/ ConnectFail(c) \/ SerializeFail(c) \/ MakeRequest(c)
  BY <1>2, <1>5 DEF CallBegin, ConnectFail, SerializeFail, MakeRequest, linkVars
<1>6. CASE WritePiece(c) \/ WriteFail(c) \/ SelectReady(c) \/ SelectTimeout(c)
  BY <1>2, <1>6 DEF WritePiece, WriteFail, SelectReady, SelectTimeout, linkVars
<1>7. CASE ClientRead(c) \/ ClientReadEnd(c) \/ ClientExtract(c)
  BY <1>2, <1>7 DEF ClientRead, ClientReadEnd, ClientExtract, linkVars
<1>8. CASE Disconnect(c) \/ ClientDies(c)
  BY <1>3, <1>8 DEF Disconnect, ClientDies
<1>9. QED
  BY <1>4, <1>5, <1>6, <1>7, <1>8 DEF ClientStep, CallStep

-----------------------------------------------------------------------------
(* The server *)

\* accept() gives out a descriptor that no Connection holds.
LEMMA AcceptKeepsDescriptors ==
    ASSUME DescriptorInv, NEW k \in Conn, Accept(k)
    PROVE  DescriptorInv'
<1> USE ConnectionAssumption, ServerAssumption
<1>1. PICK f \in Fd :
         /\ sock[f] = NoConn
         /\ fd_' = [fd_ EXCEPT ![k] = f]
         /\ sock' = [sock EXCEPT ![f] = k]
         /\ connections_' = [connections_ EXCEPT ![f] = k]
  BY DEF Accept
<1>2. /\ k \in backlog /\ backlog' = backlog \ {k}
      /\ UNCHANGED <<link, shut, loop, jobs>>
  BY DEF Accept
<1>3. \A j \in Conn : fd_[j] # f
  BY <1>1 DEF DescriptorInv, TablesOK, KernelAgrees
<1>4. TablesOK'
  BY <1>1, <1>2 DEF DescriptorInv, TablesOK
<1>5. ReferencedIsOpen'
  <2> SUFFICES ASSUME NEW j \in Conn, Referenced(j)', j # k
               PROVE  fd_'[j] # NoFd
    BY <1>1 DEF ReferencedIsOpen, DescriptorInv, TablesOK
  <2>1. Referenced(j)
    BY <1>1, <1>2 DEF Referenced, DescriptorInv, TablesOK
  <2>2. QED  BY <1>1, <2>1 DEF DescriptorInv, ReferencedIsOpen, TablesOK
<1>6. KernelAgrees'
  BY <1>1, <1>3 DEF DescriptorInv, TablesOK, KernelAgrees
<1>7. NotYetAccepted'
  BY <1>1, <1>2 DEF DescriptorInv, TablesOK, NotYetAccepted
<1>8. ConnectionsAgree' /\ ShutIsClosed'
  <2>1. fd_[k] = NoFd /\ k \notin shut
    BY <1>2 DEF DescriptorInv, NotYetAccepted, ShutIsClosed
  <2>2. \A g \in Fd : connections_[g] # k
    BY <2>1, ServerAssumption DEF DescriptorInv, ConnectionsAgree
  <2>3. QED
    BY <1>1, <1>2, <2>1, <2>2 DEF DescriptorInv, TablesOK, ConnectionsAgree, ShutIsClosed
<1>9. QED  BY <1>4, <1>5, <1>6, <1>7, <1>8 DEF DescriptorInv

\* RemoveConnection() and the end of a job only drop references.
LEMMA RemoveKeepsDescriptors ==
    ASSUME DescriptorInv, LinksOnlyAge, NEW f, RemoveConnection(f)
    PROVE  DescriptorInv'
<1>1. ReferencesOnlyDrop
  BY ConnectionAssumption
     DEF RemoveConnection, ReferencesOnlyDrop, Referenced, Waiting, LoopAt, DescriptorInv, TablesOK
<1>2. QED  BY <1>1, ReleaseKeepsDescriptors DEF RemoveConnection

\* A job that ends drops its reference.
LEMMA JobEndKeepsDescriptors ==
    ASSUME DescriptorInv, LinksOnlyAge, NEW j, JobEnd(j)
    PROVE  DescriptorInv'
<1>1. ReferencesOnlyDrop
  BY DEF JobEnd, ReferencesOnlyDrop, Referenced, DescriptorInv, TablesOK
<1>2. QED  BY <1>1, ReleaseKeepsDescriptors DEF JobEnd

\* A job that goes on keeps its Connection.
LEMMA JobMovesKeepsDescriptors ==
    ASSUME DescriptorInv, LinksOnlyAge, NEW j \in jobs, NEW i, i.conn = j.conn,
           jobs' = (jobs \ {j}) \cup {i},
           UNCHANGED <<loop, connections_, fd_, sock, shut>>
    PROVE  DescriptorInv'
<1>1. ReferencesOnlyDrop
  BY DEF ReferencesOnlyDrop, Referenced, DescriptorInv, TablesOK
<1>2. QED  BY <1>1, KeepsDescriptors

\* A job that goes on keeps its reference.
LEMMA AdvanceKeepsDescriptors ==
    ASSUME DescriptorInv, LinksOnlyAge, NEW j \in jobs, Advance(j)
    PROVE  DescriptorInv'
<1>1. CASE JobEnd(j)  BY <1>1, JobEndKeepsDescriptors
<1>2. CASE /\ jobs' = (jobs \ {j}) \cup {JobAt(j, "writing", j.sent + 1)}
           /\ UNCHANGED <<loop, connections_, fd_, sock, shut>>
  BY <1>2, JobMovesKeepsDescriptors DEF JobAt
<1>3. QED  BY <1>1, <1>2 DEF Advance

\* Every step of the loop keeps DescriptorInv.
LEMMA LoopKeepsDescriptors ==
    ASSUME DescriptorInv, LoopStep \/ (\E f \in Fd : LoopEvent(f))
    PROVE  DescriptorInv'
<1>1. LinksOnlyAge
  BY DEF LinksOnlyAge, DescriptorInv, TablesOK, LoopStep, LoopEvent, LoopRead,
         LoopReadNothing, LoopExtract, LoopEnqueue, LoopEnd, linkVars
<1>2. ASSUME NEW f \in Fd, LoopEvent(f)
      PROVE  DescriptorInv'
  <2>1. CASE RemoveConnection(f)  BY <1>1, <2>1, RemoveKeepsDescriptors
  <2>2. CASE /\ loop' = LoopAt("read", connections_[f], NoRequest)
             /\ UNCHANGED <<connections_, fd_, sock, jobs, shut>>
    <3>1. ReferencesOnlyDrop
      BY <2>2 DEF ReferencesOnlyDrop, Referenced, LoopAt, DescriptorInv, TablesOK
    <3>2. QED  BY <1>1, <2>2, <3>1, KeepsDescriptors
  <2>3. QED  BY <1>2, <2>1, <2>2 DEF LoopEvent
<1>3. ASSUME UNCHANGED <<connections_, fd_, sock, shut, jobs>>, loop'.conn = loop.conn
      PROVE  DescriptorInv'
  <2>1. ReferencesOnlyDrop
    BY <1>3 DEF ReferencesOnlyDrop, Referenced, DescriptorInv, TablesOK
  <2>2. QED  BY <1>1, <1>3, <2>1, KeepsDescriptors
<1>4. ASSUME ReadEnds
      PROVE  DescriptorInv'
  BY <1>3, <1>4 DEF ReadEnds, LoopAt
<1>5. CASE LoopRead
  <2>1. CASE ReadFails(loop.conn)
    BY <1>1, <2>1, RemoveKeepsDescriptors DEF ReadFails
  <2>2. CASE UNCHANGED <<loop, connections_, fd_, sock, state_, jobs, shut>>
    BY <1>3, <2>2
  <2>3. QED  BY <1>4, <1>5, <2>1, <2>2 DEF LoopRead
<1>6. CASE LoopReadNothing
  BY <1>1, <1>4, <1>6, RemoveKeepsDescriptors DEF LoopReadNothing, ReadFails
<1>7. CASE LoopExtract
  <2>1. CASE RemoveConnection(fd_[loop.conn])
    BY <1>1, <2>1, RemoveKeepsDescriptors
  <2>2. CASE /\ loop' = Waiting \/ loop' = LoopAt("enqueue", loop.conn, sbuf[loop.conn][1].id)
             /\ UNCHANGED <<connections_, jobs>> /\ Release
    <3>1. loop'.conn = loop.conn \/ loop'.conn = NoConn  BY <2>2 DEF Waiting, LoopAt
    <3>2. ReferencesOnlyDrop
      BY <2>2, <3>1, ConnectionAssumption
         DEF ReferencesOnlyDrop, Referenced, DescriptorInv, TablesOK
    <3>3. QED  BY <1>1, <2>2, <3>2, ReleaseKeepsDescriptors
  <2>3. QED  BY <1>7, <2>1, <2>2 DEF LoopExtract
<1>8. CASE LoopEnqueue
  <2>1. ReferencesOnlyDrop
    BY <1>8 DEF LoopEnqueue, LoopAt, JobAt, ReferencesOnlyDrop, Referenced, DescriptorInv, TablesOK
  <2>2. QED  BY <1>1, <1>8, <2>1, KeepsDescriptors DEF LoopEnqueue, linkVars
<1>9. CASE LoopEnd
  <2>1. ReferencesOnlyDrop
    BY <1>9, ConnectionAssumption
       DEF LoopEnd, Ended, LoopAt, ReferencesOnlyDrop, Referenced, DescriptorInv, TablesOK
  <2>2. QED  BY <1>1, <1>9, <2>1, KeepsDescriptors DEF LoopEnd, linkVars
<1>10. QED  BY <1>2, <1>5, <1>6, <1>7, <1>8, <1>9 DEF LoopStep

\* So does every step of a job ...
LEMMA JobKeepsDescriptors ==
    ASSUME DescriptorInv, NEW j \in jobs, JobStep(j)
    PROVE  DescriptorInv'
<1>1. CASE JobRun(j)
  <2>1. LinksOnlyAge  BY <1>1 DEF JobRun, linkVars, LinksOnlyAge, DescriptorInv, TablesOK
  <2>2. QED  BY <1>1, <2>1, JobMovesKeepsDescriptors DEF JobRun, JobAt, linkVars
<1>2. CASE JobTest(j)
  <2>1. LinksOnlyAge  BY <1>2 DEF JobTest, LinksOnlyAge, DescriptorInv, TablesOK
  <2>2. CASE JobEnd(j)  BY <2>1, <2>2, JobEndKeepsDescriptors
  <2>3. CASE /\ jobs' = (jobs \ {j}) \cup {JobAt(j, "writing", 0)}
             /\ UNCHANGED <<loop, connections_, fd_, sock, shut>>
    BY <2>1, <2>3, JobMovesKeepsDescriptors DEF JobAt
  <2>4. QED  BY <1>2, <2>2, <2>3 DEF JobTest
<1>3. CASE JobWrite(j)
  <2>1. LinksOnlyAge  BY <1>3 DEF JobWrite, LinksOnlyAge, DescriptorInv, TablesOK
  <2>2. QED  BY <1>3, <2>1, AdvanceKeepsDescriptors DEF JobWrite
<1>4. CASE JobWriteClosed(j)
  <2>1. LinksOnlyAge
    BY <1>4 DEF JobWriteClosed, LinksOnlyAge, LinkState, DescriptorInv, TablesOK
  <2>2. QED  BY <1>4, <2>1, AdvanceKeepsDescriptors DEF JobWriteClosed
<1>5. CASE JobWriteFail(j)
  <2>1. LinksOnlyAge  BY <1>5 DEF JobWriteFail, LinksOnlyAge, DescriptorInv, TablesOK
  <2>2. QED  BY <1>5, <2>1, JobEndKeepsDescriptors DEF JobWriteFail
<1>6. QED  BY <1>1, <1>2, <1>3, <1>4, <1>5 DEF JobStep

\* ... and of the whole server, its end included.
LEMMA ServerKeepsDescriptors ==
    ASSUME DescriptorInv, ServerStep
    PROVE  DescriptorInv'
<1>1. CASE \E k \in Conn : Accept(k)  BY <1>1, AcceptKeepsDescriptors
<1>2. CASE Stop
  <2>1. LinksOnlyAge
    BY <1>2 DEF Stop, linkVars, LinksOnlyAge, DescriptorInv, TablesOK
  <2>2. ReferencesOnlyDrop
    BY <1>2 DEF Stop, ReferencesOnlyDrop, Referenced, DescriptorInv, TablesOK
  <2>3. QED  BY <1>2, <2>1, <2>2, KeepsDescriptors DEF Stop, linkVars
<1>3. CASE ServerDies
  BY <1>3, ConnectionAssumption, ServerAssumption
     DEF ServerDies, Ended, LoopAt, DescriptorInv, TablesOK, ReferencedIsOpen, KernelAgrees,
         ConnectionsAgree, ShutIsClosed, NotYetAccepted, Referenced
<1>4. ASSUME NEW k \in Conn, AcceptFail(k)
      PROVE  DescriptorInv'
  <2>1. /\ backlog' = backlog \ {k} /\ shut' = shut \cup {k} /\ k \in backlog
        /\ UNCHANGED <<link, connections_, fd_, sock, loop, jobs>>
    BY <1>4 DEF AcceptFail, serverVars
  <2>2. fd_[k] = NoFd  BY <2>1 DEF DescriptorInv, NotYetAccepted
  <2>3. ShutIsClosed' /\ NotYetAccepted'
    BY <2>1, <2>2 DEF DescriptorInv, ShutIsClosed, NotYetAccepted
  <2>4. QED
    BY <2>1, <2>3 DEF DescriptorInv, TablesOK, ReferencedIsOpen, Referenced, KernelAgrees,
                      ConnectionsAgree
<1>5. QED
  BY <1>1, <1>2, <1>3, <1>4, LoopKeepsDescriptors, JobKeepsDescriptors DEF ServerStep

\* Every step keeps the descriptors in order.
LEMMA DescriptorNext ==
    ASSUME DescriptorInv, [Next]_vars
    PROVE  DescriptorInv'
<1>1. CASE UNCHANGED vars
  BY <1>1 DEF vars, linkVars, serverVars, DescriptorInv, TablesOK, ReferencedIsOpen,
              KernelAgrees, ConnectionsAgree, ShutIsClosed, NotYetAccepted, Referenced
<1>2. CASE Next
  BY <1>2, ClientKeepsDescriptors, ServerKeepsDescriptors DEF Next
<1>3. QED  BY <1>1, <1>2

-----------------------------------------------------------------------------

\* A descriptor that the server still uses is its own connection's, however
\* removals, late answers and accept() interleave.
THEOREM DescriptorsStayMatched == Spec => []DescriptorsMatch
<1>1. DescriptorInv => DescriptorsMatch
  BY DEF DescriptorInv, ReferencedIsOpen, KernelAgrees, DescriptorsMatch
<1>2. DescriptorInv /\ [Next]_vars => DescriptorInv'
  BY DescriptorNext
<1>3. QED  BY <1>1, <1>2, DescriptorInit, PTL DEF Spec

=============================================================================
