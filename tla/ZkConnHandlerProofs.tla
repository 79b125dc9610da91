------------------------- MODULE ZkConnHandlerProofs -------------------------
(***************************************************************************)
(* Proofs about ZkConnHandler: for any threads and addresses, getServer()  *)
(* returns recent servers, no handle is closed twice, and few are lost.    *)
(***************************************************************************)
EXTENDS ZkConnHandler, FiniteSetTheorems, TLAPS

-----------------------------------------------------------------------------
(* Types *)

\* Whatever a call, ZooKeeper or a server does, every variable keeps its type.
LEMMA TypeStep ==
    ASSUME TypeOK, [Next]_vars
    PROVE  TypeOK'
<1> USE DEF TypeOK, HandleState, ThreadPC
<1>1. ASSUME NEW t \in Thread, NEW o \in {"init", "get"}, Begin(t, o) PROVE TypeOK'
  <2>1. UNION {since[u] : u \in Getting} \subseteq Address
    BY DEF Getting
  <2> QED BY <1>1, <2>1 DEF Begin, Goto, sharedVars, envVars
<1>2. ASSUME NEW t \in Thread, CheckHandle(t) PROVE TypeOK'
  BY <1>2 DEF CheckHandle, Goto, sharedVars, envVars
<1>3. ASSUME NEW t \in Thread, OpenHandle(t) PROVE TypeOK'
  BY <1>3, MaxLeaksAssumption DEF OpenHandle, Assign, Goto, envVars
<1>4. ASSUME NEW t \in Thread, OpenHandleFails(t) PROVE TypeOK'
  BY <1>4, MaxLeaksAssumption DEF OpenHandleFails, Assign, Ensured, envVars
<1>5. ASSUME NEW t \in Thread, PollState(t) PROVE TypeOK'
  BY <1>5 DEF PollState, Goto, Ensured, sharedVars, envVars
<1>6. ASSUME NEW t \in Thread, CleanupOnce(t) PROVE TypeOK'
  BY <1>6 DEF CleanupOnce, Goto, Ensured, envVars
<1>7. ASSUME NEW t \in Thread, CloseHandle(t) PROVE TypeOK'
  BY <1>7 DEF CloseHandle, Goto, Ensured, envVars
<1>8. ASSUME NEW t \in Thread, ClearHandle(t) PROVE TypeOK'
  BY <1>8, MaxLeaksAssumption DEF ClearHandle, Assign, Ensured, envVars
<1>9. ASSUME NEW t \in Thread, GetChildren(t) PROVE TypeOK'
  BY <1>9 DEF GetChildren, Goto, envVars
<1>10. ASSUME NEW t \in Thread, GetData(t) PROVE TypeOK'
  <2>1. PICK L \in SUBSET (list[t] \cap registered) : list' = [list EXCEPT ![t] = L]
    BY <1>10 DEF GetData
  <2> QED BY <1>10, <2>1 DEF GetData, Goto, envVars
<1>11. ASSUME NEW t \in Thread, StoreServers(t) PROVE TypeOK'
  BY <1>11 DEF StoreServers, Goto, envVars
<1>12. ASSUME NEW t \in Thread, SelectServer(t) PROVE TypeOK'
  BY <1>12 DEF SelectServer, Goto, sharedVars, envVars
<1>13. ASSUME NEW t \in Thread, UseAfterClose(t) PROVE TypeOK'
  BY <1>13 DEF UseAfterClose, sharedVars, threadVars
<1>14. ASSUME Connects \/ Disconnects \/ Expires PROVE TypeOK'
  BY <1>14 DEF Connects, Disconnects, Expires, HandleEvent, threadVars, envVars
<1>15. ASSUME NEW a \in Address, ServerComesOrGoes(a) PROVE TypeOK'
  BY <1>15 DEF ServerComesOrGoes, sharedVars
<1>16. ASSUME CalmsDown PROVE TypeOK'
  BY <1>16 DEF CalmsDown, sharedVars, threadVars
<1>17. ASSUME UNCHANGED vars PROVE TypeOK'
  BY <1>17 DEF vars, sharedVars, threadVars, envVars
<1> QED
  BY <1>1, <1>2, <1>3, <1>4, <1>5, <1>6, <1>7, <1>8, <1>9, <1>10, <1>11, <1>12,
     <1>13, <1>14, <1>15, <1>16, <1>17 DEF Next, CallStep

\* Every variable of the handler, and of the threads that call it, keeps its
\* type: in particular getServer() returns an address or "".
THEOREM TypeCorrect == Spec => []TypeOK
<1>1. ASSUME Init PROVE TypeOK
  <2>1. /\ cleanup_done \in BOOLEAN /\ init_failed \in BOOLEAN
        /\ crashed \in BOOLEAN /\ calm \in BOOLEAN
    BY <1>1, Zenon DEF Init
  <2>2. /\ zk_client_ \in HandleState /\ servers_ \subseteq Address
        /\ servers_mutex_ \in Thread \cup {NoThread} /\ registered \subseteq Address
    BY <1>1, Zenon DEF Init, HandleState
  <2>3. leaked \in 0 .. MaxLeaks
    BY <1>1, MaxLeaksAssumption DEF Init
  <2>4. pc \in [Thread -> ThreadPC] /\ op \in [Thread -> {"init", "get"}]
    BY <1>1 DEF Init, ThreadPC
  <2>5. /\ list \in [Thread -> SUBSET Address]
        /\ since \in [Thread -> SUBSET Address] /\ recent \in [Thread -> SUBSET Address]
        /\ result \in [Thread -> Address \cup {NoServer}]
    BY <1>1, Zenon DEF Init
  <2> QED BY <2>1, <2>2, <2>3, <2>4, <2>5 DEF TypeOK
<1>2. TypeOK /\ [Next]_vars => TypeOK'
  BY TypeStep
<1> QED BY <1>1, <1>2, PTL DEF Spec

-----------------------------------------------------------------------------
(* Recent answers *)

\* What a call has fetched it has found in its own time, and that is in the recent
\* of every call in progress with it: of the later ones because it was in progress
\* when they began, of the earlier ones because they were there to see it.  So a
\* call that is about to select finds only such servers stored.
RecentInv ==
    /\ \A t \in Getting : registered \subseteq since[t]
    /\ \A t, u \in Getting : since[u] \subseteq recent[t]
    /\ \A t \in Thread : list[t] \subseteq since[t]
    /\ \A t \in Thread : pc[t] \in {"children", "data", "store", "select"} => op[t] = "get"
    /\ \A t \in Thread : pc[t] \notin {"data", "store"} => list[t] = {}
    /\ \A t \in Thread : pc[t] = "select" => servers_ \subseteq recent[t]
    /\ AnswerIsRecent

\* Every step keeps RecentInv: an older list replaces a newer one only by a call
\* whose list is in the recent of every call in progress.
LEMMA RecentStep ==
    ASSUME TypeOK, RecentInv, [Next]_vars
    PROVE  RecentInv'
<1> USE DEF TypeOK, RecentInv, AnswerIsRecent, Getting
<1>1. ASSUME NEW t \in Thread, NEW o \in {"init", "get"}, Begin(t, o) PROVE RecentInv'
  <2> DEFINE R == registered \cup UNION {since[u] : u \in Getting}
  <2>1. \A u \in Getting : since[u] \subseteq R /\ registered \subseteq since[u]
    OBVIOUS
  <2>2. /\ recent' = [recent EXCEPT ![t] = IF o = "get" THEN R ELSE {}]
        /\ since' = [since EXCEPT ![t] = IF o = "get" THEN registered ELSE {}]
    BY <1>1 DEF Begin
  <2>3. /\ registered \subseteq R
        /\ registered' = registered /\ list' = list /\ servers_' = servers_
        /\ pc[t] = "idle" /\ pc' = [pc EXCEPT ![t] = "check"] /\ op' = [op EXCEPT ![t] = o]
        /\ result' = [result EXCEPT ![t] = NoServer]
    BY <1>1 DEF Begin, Goto, sharedVars, envVars
  <2> HIDE DEF R
  <2> QED BY <2>1, <2>2, <2>3
<1>2. ASSUME NEW t \in Thread, CheckHandle(t) PROVE RecentInv'
  BY <1>2 DEF CheckHandle, Goto, sharedVars, envVars
<1>3. ASSUME NEW t \in Thread, OpenHandle(t) PROVE RecentInv'
  BY <1>3 DEF OpenHandle, Goto, envVars
<1>4. ASSUME NEW t \in Thread, OpenHandleFails(t) PROVE RecentInv'
  BY <1>4 DEF OpenHandleFails, Ensured, envVars
<1>5. ASSUME NEW t \in Thread, PollState(t) PROVE RecentInv'
  BY <1>5 DEF PollState, Goto, Ensured, sharedVars, envVars
<1>6. ASSUME NEW t \in Thread, CleanupOnce(t) PROVE RecentInv'
  BY <1>6 DEF CleanupOnce, Goto, Ensured, envVars
<1>7. ASSUME NEW t \in Thread, CloseHandle(t) PROVE RecentInv'
  BY <1>7 DEF CloseHandle, Goto, Ensured, envVars
<1>8. ASSUME NEW t \in Thread, ClearHandle(t) PROVE RecentInv'
  BY <1>8 DEF ClearHandle, Ensured, envVars
<1>9. ASSUME NEW t \in Thread, GetChildren(t) PROVE RecentInv'
  BY <1>9 DEF GetChildren, Goto, envVars
<1>10. ASSUME NEW t \in Thread, GetData(t) PROVE RecentInv'
  <2>1. PICK L \in SUBSET (list[t] \cap registered) : list' = [list EXCEPT ![t] = L]
    BY <1>10 DEF GetData
  <2> QED BY <1>10, <2>1 DEF GetData, Goto, envVars
<1>11. ASSUME NEW t \in Thread, StoreServers(t) PROVE RecentInv'
  BY <1>11 DEF StoreServers, Goto, envVars
<1>12. ASSUME NEW t \in Thread, SelectServer(t) PROVE RecentInv'
  BY <1>12 DEF SelectServer, Goto, sharedVars, envVars
<1>13. ASSUME NEW t \in Thread, UseAfterClose(t) PROVE RecentInv'
  BY <1>13 DEF UseAfterClose, sharedVars, threadVars
<1>14. ASSUME Connects \/ Disconnects \/ Expires PROVE RecentInv'
  BY <1>14 DEF Connects, Disconnects, Expires, HandleEvent, threadVars, envVars
<1>15. ASSUME NEW a \in Address, ServerComesOrGoes(a) PROVE RecentInv'
  BY <1>15 DEF ServerComesOrGoes, sharedVars
<1>16. ASSUME CalmsDown PROVE RecentInv'
  BY <1>16 DEF CalmsDown, sharedVars, threadVars
<1>17. ASSUME UNCHANGED vars PROVE RecentInv'
  BY <1>17 DEF vars, sharedVars, threadVars, envVars
<1> QED
  BY <1>1, <1>2, <1>3, <1>4, <1>5, <1>6, <1>7, <1>8, <1>9, <1>10, <1>11, <1>12,
     <1>13, <1>14, <1>15, <1>16, <1>17 DEF Next, CallStep

\* getServer() never returns a server that was gone before the call, and before
\* every getServer() in progress when it began (each by its own time), although the list is fetched, stored and
\* selected from under separate locks.
THEOREM AnswersStayRecent == Spec => []AnswerIsRecent
<1>1. Init => RecentInv
  BY DEF Init, RecentInv, AnswerIsRecent, Getting
<1>2. TypeOK /\ RecentInv /\ [Next]_vars => RecentInv'
  BY RecentStep
<1>3. RecentInv => AnswerIsRecent
  BY DEF RecentInv
<1> QED BY <1>1, <1>2, <1>3, TypeCorrect, PTL DEF Spec

-----------------------------------------------------------------------------
(* Closing *)

\* cleanup_done lets one thread at most past it, and that thread is the one that
\* has to clear the pointer to a closed handle.
Closing == {t \in Thread : pc[t] \in {"close", "clear"}}

CloseInv ==
    /\ Closing # {} => cleanup_done
    /\ \A t, u \in Closing : t = u
    /\ zk_client_ = "closed" => \E t \in Thread : pc[t] = "clear"

\* A step by which no thread comes to zookeeper_close() or leaves the pointer to a
\* closed handle behind.
LEMMA CloseKept ==
    ASSUME TypeOK, CloseInv, NEW t \in Thread, NEW to, pc[t] \notin {"close", "clear"},
           to \notin {"close", "clear"}, pc' = [pc EXCEPT ![t] = to],
           cleanup_done => cleanup_done', zk_client_' = "closed" => zk_client_ = "closed"
    PROVE  CloseInv'
BY DEF TypeOK, CloseInv, Closing

\* Every step keeps CloseInv: only CleanupOnce lets a thread come to
\* zookeeper_close(), the first time it is called.
LEMMA CloseStep ==
    ASSUME TypeOK, CloseInv, [Next]_vars
    PROVE  CloseInv'
<1>1. ASSUME NEW t \in Thread, NEW o \in {"init", "get"}, Begin(t, o) PROVE CloseInv'
  BY <1>1, CloseKept DEF Begin, Goto, sharedVars
<1>2. ASSUME NEW t \in Thread, CheckHandle(t) PROVE CloseInv'
  BY <1>2, CloseKept DEF CheckHandle, Goto, sharedVars
<1>3. ASSUME NEW t \in Thread, OpenHandle(t) PROVE CloseInv'
  BY <1>3, CloseKept DEF OpenHandle, Assign, Goto
<1>4. ASSUME NEW t \in Thread, OpenHandleFails(t) PROVE CloseInv'
  BY <1>4, CloseKept DEF OpenHandleFails, Assign, Ensured
<1>5. ASSUME NEW t \in Thread, PollState(t) PROVE CloseInv'
  BY <1>5, CloseKept DEF PollState, Goto, Ensured, sharedVars
<1>6. ASSUME NEW t \in Thread, CleanupOnce(t) PROVE CloseInv'
  <2>1. CASE cleanup_done
    BY <1>6, <2>1, CloseKept DEF CleanupOnce, Ensured
  <2>2. CASE ~cleanup_done
    BY <1>6, <2>2 DEF CleanupOnce, Goto, TypeOK, CloseInv, Closing
  <2> QED BY <2>1, <2>2
<1>7. ASSUME NEW t \in Thread, CloseHandle(t) PROVE CloseInv'
  BY <1>7 DEF CloseHandle, Goto, Ensured, TypeOK, CloseInv, Closing
<1>8. ASSUME NEW t \in Thread, ClearHandle(t) PROVE CloseInv'
  BY <1>8 DEF ClearHandle, Assign, Ensured, TypeOK, CloseInv, Closing
<1>9. ASSUME NEW t \in Thread, GetChildren(t) PROVE CloseInv'
  BY <1>9, CloseKept DEF GetChildren, Goto
<1>10. ASSUME NEW t \in Thread, GetData(t) PROVE CloseInv'
  BY <1>10, CloseKept DEF GetData, Goto
<1>11. ASSUME NEW t \in Thread, StoreServers(t) PROVE CloseInv'
  BY <1>11, CloseKept DEF StoreServers, Goto
<1>12. ASSUME NEW t \in Thread, SelectServer(t) PROVE CloseInv'
  BY <1>12, CloseKept DEF SelectServer, Goto, sharedVars
<1>13. ASSUME NEW t \in Thread, UseAfterClose(t) PROVE CloseInv'
  BY <1>13 DEF UseAfterClose, sharedVars, threadVars, CloseInv, Closing
<1>14. ASSUME Connects \/ Disconnects \/ Expires PROVE CloseInv'
  BY <1>14 DEF Connects, Disconnects, Expires, HandleEvent, threadVars, CloseInv, Closing
<1>15. ASSUME NEW a \in Address, ServerComesOrGoes(a) PROVE CloseInv'
  BY <1>15 DEF ServerComesOrGoes, sharedVars, CloseInv, Closing
<1>16. ASSUME CalmsDown PROVE CloseInv'
  BY <1>16 DEF CalmsDown, sharedVars, threadVars, CloseInv, Closing
<1>17. ASSUME UNCHANGED vars PROVE CloseInv'
  BY <1>17 DEF vars, sharedVars, threadVars, CloseInv, Closing
<1> QED
  BY <1>1, <1>2, <1>3, <1>4, <1>5, <1>6, <1>7, <1>8, <1>9, <1>10, <1>11, <1>12,
     <1>13, <1>14, <1>15, <1>16, <1>17 DEF Next, CallStep

\* zookeeper_close() is never called on a handle that is closed already, although
\* zk_client_ has no lock.
THEOREM HandleClosedOnce == Spec => []ClosedOnce
<1>1. Init => CloseInv
  BY DEF Init, CloseInv, Closing
<1>2. TypeOK /\ CloseInv /\ [Next]_vars => CloseInv'
  BY CloseStep
<1>3. CloseInv => ClosedOnce
  BY DEF CloseInv, Closing, ClosedOnce
<1> QED BY <1>1, <1>2, <1>3, TypeCorrect, PTL DEF Spec

-----------------------------------------------------------------------------
(* Leaks *)

\* The threads that have found no handle and are about to open one.
Opening == {t \in Thread : pc[t] = "open"}
Threads == Cardinality(Thread)
Pending == Cardinality(Opening)

\* Until a first handle is there, threads only come to open one.
Unopened ==
    /\ zk_client_ = "nullptr" /\ leaked = 0 /\ ~cleanup_done
    /\ \A t \in Thread : pc[t] \in {"idle", "check", "open"}

\* Then nobody comes to open one any more: what is lost, and what may still be,
\* is less than the threads.  A handle that is opened over the closed one, and
\* that the pointer's assignment will lose, has cost one of them already.
Opened ==
    /\ zk_client_ # "nullptr"
    /\ cleanup_done => Closing # {}
    /\ leaked + Pending <= Threads - 1
    /\ zk_client_ \in Open /\ (\E t \in Thread : pc[t] = "clear") =>
          leaked + Pending <= Threads - 2

\* cleanup() has cleared the pointer, for the first and last time ...
Cleared ==
    zk_client_ = "nullptr" /\ cleanup_done /\ Closing = {} /\ leaked <= Threads - 1

\* ... and there is a handle again, which will never be closed.
Reopened ==
    /\ zk_client_ \in Open /\ cleanup_done /\ Closing = {}
    /\ leaked + Pending <= 2 * (Threads - 1)

LeakInv == init_failed \/ Unopened \/ Opened \/ Cleared \/ Reopened

\* The counts are numbers, and there is a thread at least.
LEMMA Counts ==
    ASSUME TypeOK
    PROVE  /\ Threads \in Nat /\ Threads >= 1
           /\ Pending \in Nat /\ Pending <= Threads /\ leaked \in Nat
<1>1. Threads \in Nat /\ Threads # 0
  BY ThreadAssumption, FS_CardinalityType, FS_EmptySet DEF Threads
<1>2. Opening \in SUBSET Thread
  BY DEF Opening
<1>3. IsFiniteSet(Opening) /\ Pending <= Threads
  BY <1>2, ThreadAssumption, FS_Subset DEF Pending, Threads
<1>4. Pending \in Nat
  BY <1>3, FS_CardinalityType DEF Pending
<1>5. leaked \in Nat
  BY MaxLeaksAssumption DEF TypeOK
<1> QED BY <1>1, <1>3, <1>4, <1>5

\* A thread that opens a handle is one less that may.
LEMMA OnePendingLess ==
    ASSUME TypeOK, NEW t \in Thread, NEW to, pc[t] = "open", to # "open",
           pc' = [pc EXCEPT ![t] = to]
    PROVE  Pending' = Pending - 1
<1>1. Opening' = Opening \ {t} /\ t \in Opening
  BY DEF Opening, TypeOK
<1>2. Opening \in SUBSET Thread
  BY DEF Opening
<1>3. IsFiniteSet(Opening)
  BY <1>2, ThreadAssumption, FS_Subset
<1>4. Cardinality(Opening \ {t}) = Cardinality(Opening) - 1
  BY <1>1, <1>3, FS_RemoveElement
<1> QED BY <1>1, <1>4 DEF Pending

\* A step of a thread that neither opens nor closes anything.
LEMMA LeakKept ==
    ASSUME TypeOK, CloseInv, LeakInv, NEW t \in Thread, NEW to, pc' = [pc EXCEPT ![t] = to],
           pc[t] \notin {"open", "close", "clear"}, to \notin {"open", "close", "clear"},
           pc[t] = "idle" => to = "check", pc[t] = "check" => zk_client_ # "nullptr",
           UNCHANGED <<zk_client_, leaked, init_failed, cleanup_done>>
    PROVE  LeakInv'
<1>1. Opening' = Opening
  BY DEF Opening, TypeOK
<1>2. Pending' = Pending /\ Threads' = Threads
  BY <1>1 DEF Pending, Threads
<1>3. Closing' = Closing
  BY DEF Closing, TypeOK
<1>4. (\E u \in Thread : pc'[u] = "clear") => (\E u \in Thread : pc[u] = "clear")
  BY DEF TypeOK
<1>5. CASE init_failed
  BY <1>5 DEF LeakInv
<1>6. CASE Unopened
  <2>1. Unopened'
    BY <1>6 DEF Unopened, TypeOK
  <2> QED BY <2>1 DEF LeakInv
<1>7. CASE Opened
  <2>1. Opened'
    BY <1>2, <1>3, <1>4, <1>7 DEF Opened
  <2> QED BY <2>1 DEF LeakInv
<1>8. CASE Cleared
  <2>1. Cleared'
    BY <1>2, <1>3, <1>8 DEF Cleared
  <2> QED BY <2>1 DEF LeakInv
<1>9. CASE Reopened
  <2>1. Reopened'
    BY <1>2, <1>3, <1>9 DEF Reopened
  <2> QED BY <2>1 DEF LeakInv
<1> QED BY <1>5, <1>6, <1>7, <1>8, <1>9 DEF LeakInv

\* A step by which threads stay where they are, and the handle open or not.
LEMMA LeakStays ==
    ASSUME TypeOK, LeakInv, UNCHANGED <<pc, leaked, init_failed, cleanup_done>>,
           zk_client_' = zk_client_ \/ (zk_client_ \in Open /\ zk_client_' \in Open)
    PROVE  LeakInv'
<1>1. Opening' = Opening /\ Closing' = Closing
  BY DEF Opening, Closing
<1>2. Pending' = Pending /\ Threads' = Threads
  BY <1>1 DEF Pending, Threads
<1>3. CASE init_failed
  BY <1>3 DEF LeakInv
<1>4. CASE Unopened
  <2>1. Unopened'  BY <1>4 DEF Unopened, Open
  <2> QED BY <2>1 DEF LeakInv
<1>5. CASE Opened
  <2>1. Opened'  BY <1>1, <1>2, <1>5 DEF Opened, Open
  <2> QED BY <2>1 DEF LeakInv
<1>6. CASE Cleared
  <2>1. Cleared'  BY <1>1, <1>2, <1>6 DEF Cleared, Open
  <2> QED BY <2>1 DEF LeakInv
<1>7. CASE Reopened
  <2>1. Reopened'  BY <1>1, <1>2, <1>7 DEF Reopened
  <2> QED BY <2>1 DEF LeakInv
<1> QED BY <1>3, <1>4, <1>5, <1>6, <1>7 DEF LeakInv

\* zookeeper_init(): the thread that found no handle may find one now.
LEMMA OpenKeepsLeaks ==
    ASSUME TypeOK, CloseInv, LeakInv, NEW t \in Thread, OpenHandle(t)
    PROVE  LeakInv'
<1>1. /\ pc[t] = "open" /\ pc' = [pc EXCEPT ![t] = "wait"]
      /\ zk_client_' = "connecting" /\ UNCHANGED <<cleanup_done, init_failed>>
      /\ leaked' = IF zk_client_ \in Open /\ leaked < MaxLeaks THEN leaked + 1 ELSE leaked
  BY DEF OpenHandle, Goto, Assign
<1>2. Pending' = Pending - 1 /\ Threads' = Threads
  BY <1>1, OnePendingLess DEF Threads
<1>3. /\ Threads \in Nat /\ Threads >= 1
      /\ Pending \in Nat /\ Pending <= Threads /\ leaked \in Nat
  BY Counts
<1>4. Closing' = Closing /\ \A u \in Thread : pc'[u] = "clear" <=> pc[u] = "clear"
  BY <1>1 DEF Closing, TypeOK
<1>5. zk_client_' \in Open /\ zk_client_' # "nullptr"
  BY <1>1 DEF Open
<1>6. CASE init_failed
  BY <1>1, <1>6 DEF LeakInv
<1>7. CASE Unopened
  <2>1. leaked' = 0 /\ ~\E u \in Thread : pc'[u] = "clear"
    BY <1>1, <1>4, <1>7 DEF Unopened, Open
  <2>2. leaked' + Pending' <= Threads' - 1
    BY <1>2, <1>3, <2>1
  <2>3. Opened'
    BY <1>1, <1>5, <1>7, <2>1, <2>2 DEF Unopened, Opened
  <2> QED BY <2>3 DEF LeakInv
<1>8. CASE Opened
  <2>1. CASE zk_client_ \in Open
    <3>1. leaked' + Pending' <= leaked + Pending
      BY <1>1, <1>2, <1>3
    <3>2. leaked' + Pending' \in Int /\ leaked + Pending \in Int
      BY <1>1, <1>2, <1>3
    <3>3. Opened'
      BY <1>1, <1>2, <1>3, <1>4, <1>5, <1>8, <2>1, <3>1, <3>2 DEF Opened
    <3> QED BY <3>3 DEF LeakInv
  <2>2. CASE zk_client_ \notin Open
    <3>1. leaked' + Pending' = leaked + Pending - 1
      BY <1>1, <1>2, <1>3, <2>2
    <3>2. leaked' + Pending' <= Threads' - 2
      BY <1>2, <1>3, <1>8, <3>1 DEF Opened
    <3>3. leaked' + Pending' <= Threads' - 1
      BY <1>1, <1>2, <1>3, <3>1, <3>2
    <3>4. Opened'
      BY <1>1, <1>4, <1>5, <1>8, <3>2, <3>3 DEF Opened
    <3> QED BY <3>4 DEF LeakInv
  <2> QED BY <2>1, <2>2
<1>9. CASE Cleared
  <2>1. leaked' = leaked
    BY <1>1, <1>9 DEF Cleared, Open
  <2>2. leaked' + Pending' <= 2 * (Threads' - 1)
    BY <1>2, <1>3, <1>9, <2>1 DEF Cleared
  <2>3. Reopened'
    BY <1>1, <1>4, <1>5, <1>9, <2>2 DEF Cleared, Reopened
  <2> QED BY <2>3 DEF LeakInv
<1>10. CASE Reopened
  <2>1. leaked' + Pending' <= 2 * (Threads' - 1)
    BY <1>1, <1>2, <1>3, <1>10 DEF Reopened
  <2>2. Reopened'
    BY <1>1, <1>4, <1>5, <1>10, <2>1 DEF Reopened
  <2> QED BY <2>2 DEF LeakInv
<1> QED BY <1>6, <1>7, <1>8, <1>9, <1>10 DEF LeakInv

\* cleanup() of the one thread that comes past cleanup_done.
LEMMA CleanupKeepsLeaks ==
    ASSUME TypeOK, CloseInv, LeakInv, NEW t \in Thread,
           CleanupOnce(t) \/ CloseHandle(t) \/ ClearHandle(t)
    PROVE  LeakInv'
<1>1. /\ Threads \in Nat /\ Threads >= 1
      /\ Pending \in Nat /\ Pending <= Threads /\ leaked \in Nat
  BY Counts
<1>2. Opening' = Opening
  BY DEF CleanupOnce, CloseHandle, ClearHandle, Ensured, Goto, Opening, TypeOK
<1>3. Pending' = Pending /\ Threads' = Threads
  BY <1>2 DEF Pending, Threads
<1>4. init_failed' = init_failed
  BY DEF CleanupOnce, CloseHandle, ClearHandle
<1>5. CASE init_failed
  BY <1>4, <1>5 DEF LeakInv
<1>6. ASSUME ~init_failed, CleanupOnce(t)
      PROVE  LeakInv'
  <2>1. CASE cleanup_done
    BY <1>6, <2>1, LeakKept DEF CleanupOnce, Ensured
  <2>2. CASE ~cleanup_done
    <3>1. /\ pc[t] = "cleanup" /\ pc' = [pc EXCEPT ![t] = "close"]
          /\ UNCHANGED <<zk_client_, leaked>>
      BY <1>6, <2>2 DEF CleanupOnce, Goto
    <3>2. Opened
      BY <1>6, <2>2, <3>1 DEF LeakInv, Unopened, Cleared, Reopened
    <3>3. t \in Closing' /\ \A u \in Thread : pc'[u] = "clear" => pc[u] = "clear"
      BY <3>1 DEF Closing, TypeOK
    <3>4. Opened'
      BY <1>3, <3>1, <3>2, <3>3 DEF Opened
    <3> QED BY <3>4 DEF LeakInv
  <2> QED BY <2>1, <2>2
<1>7. ASSUME ~init_failed, pc[t] \in {"close", "clear"}
      PROVE  Opened /\ cleanup_done
  BY <1>7 DEF LeakInv, Unopened, Cleared, Reopened, Closing, CloseInv
<1>8. ASSUME ~init_failed, CloseHandle(t)
      PROVE  LeakInv'
  <2>1. pc[t] = "close"  BY <1>8 DEF CloseHandle
  <2>2. Opened  BY <1>7, <1>8, <2>1
  <2>3. /\ pc' = [pc EXCEPT ![t] = "clear"] /\ zk_client_' = "closed" /\ leaked' = leaked
    BY <1>8, <2>2 DEF CloseHandle, Goto, Opened
  <2>4. t \in Closing'
    BY <2>3 DEF Closing, TypeOK
  <2>5. Opened'
    BY <1>3, <2>2, <2>3, <2>4 DEF Opened, Open
  <2> QED BY <2>5 DEF LeakInv
<1>9. ASSUME ~init_failed, ClearHandle(t)
      PROVE  LeakInv'
  <2>1. /\ pc[t] = "clear" /\ zk_client_' = "nullptr" /\ cleanup_done' = cleanup_done
        /\ leaked' = IF zk_client_ \in Open /\ leaked < MaxLeaks THEN leaked + 1 ELSE leaked
        /\ pc' = [pc EXCEPT ![t] = IF op[t] = "init" THEN "idle" ELSE "store"]
    BY <1>9 DEF ClearHandle, Assign, Ensured
  <2>2. Opened /\ cleanup_done  BY <1>7, <1>9, <2>1
  <2>3. Closing' = {}
    BY <2>1 DEF Closing, CloseInv, TypeOK
  <2>4. leaked' <= Threads' - 1
    <3>1. CASE zk_client_ \in Open
      <4>1. leaked + Pending <= Threads - 2
        BY <2>1, <2>2, <3>1 DEF Opened
      <4> QED BY <1>1, <1>3, <2>1, <4>1
    <3>2. CASE zk_client_ \notin Open
      <4>1. leaked + Pending <= Threads - 1 /\ leaked' = leaked
        BY <2>1, <2>2, <3>2 DEF Opened
      <4> QED BY <1>1, <1>3, <4>1
    <3> QED BY <3>1, <3>2
  <2>5. Cleared'
    BY <2>1, <2>2, <2>3, <2>4 DEF Cleared
  <2> QED BY <2>5 DEF LeakInv
<1> QED BY <1>5, <1>6, <1>8, <1>9

\* The unlocked test: a thread comes to open a handle only where there is none.
LEMMA CheckKeepsLeaks ==
    ASSUME TypeOK, CloseInv, LeakInv, NEW t \in Thread, CheckHandle(t)
    PROVE  LeakInv'
<1>1. CASE zk_client_ # "nullptr"
  BY <1>1, LeakKept DEF CheckHandle, Goto, sharedVars
<1>2. CASE zk_client_ = "nullptr"
  <2>1. /\ pc' = [pc EXCEPT ![t] = "open"] /\ pc[t] = "check"
        /\ UNCHANGED <<zk_client_, leaked, init_failed, cleanup_done>>
    BY <1>2 DEF CheckHandle, Goto, sharedVars
  <2>2. Closing' = Closing /\ Threads' = Threads
    BY <2>1 DEF Closing, TypeOK, Threads
  <2>3. CASE init_failed
    BY <2>1, <2>3 DEF LeakInv
  <2>4. CASE Unopened
    <3>1. Unopened'  BY <2>1, <2>4 DEF Unopened, TypeOK
    <3> QED BY <3>1 DEF LeakInv
  <2>5. CASE Cleared
    <3>1. Cleared'  BY <2>1, <2>2, <2>5 DEF Cleared
    <3> QED BY <3>1 DEF LeakInv
  <2> QED BY <1>2, <2>3, <2>4, <2>5 DEF LeakInv, Opened, Reopened, Open
<1> QED BY <1>1, <1>2

\* Every step keeps LeakInv.
LEMMA LeakStep ==
    ASSUME TypeOK, CloseInv, LeakInv, [Next]_vars
    PROVE  LeakInv'
<1>1. ASSUME NEW t \in Thread, NEW o \in {"init", "get"}, Begin(t, o) PROVE LeakInv'
  BY <1>1, LeakKept DEF Begin, Goto, sharedVars
<1>2. ASSUME NEW t \in Thread, OpenHandleFails(t) PROVE LeakInv'
  BY <1>2 DEF OpenHandleFails, LeakInv
<1>3. ASSUME NEW t \in Thread, PollState(t) PROVE LeakInv'
  BY <1>3, LeakKept DEF PollState, Goto, Ensured, sharedVars
<1>4. ASSUME NEW t \in Thread, GetChildren(t) PROVE LeakInv'
  BY <1>4, LeakKept DEF GetChildren, Goto
<1>5. ASSUME NEW t \in Thread, GetData(t) PROVE LeakInv'
  BY <1>5, LeakKept DEF GetData, Goto
<1>6. ASSUME NEW t \in Thread, StoreServers(t) PROVE LeakInv'
  BY <1>6, LeakKept DEF StoreServers, Goto
<1>7. ASSUME NEW t \in Thread, SelectServer(t) PROVE LeakInv'
  BY <1>7, LeakKept DEF SelectServer, Goto, sharedVars
<1>8. ASSUME NEW t \in Thread, UseAfterClose(t) PROVE LeakInv'
  BY <1>8, LeakStays DEF UseAfterClose, sharedVars, threadVars
<1>9. ASSUME Connects \/ Disconnects \/ Expires PROVE LeakInv'
  BY <1>9, LeakStays DEF Connects, Disconnects, Expires, HandleEvent, threadVars, Open
<1>10. ASSUME NEW a \in Address, ServerComesOrGoes(a) PROVE LeakInv'
  BY <1>10, LeakStays DEF ServerComesOrGoes, sharedVars
<1>11. ASSUME CalmsDown \/ UNCHANGED vars PROVE LeakInv'
  BY <1>11, LeakStays DEF CalmsDown, vars, sharedVars, threadVars
<1> QED
  BY <1>1, <1>2, <1>3, <1>4, <1>5, <1>6, <1>7, <1>8, <1>9, <1>10, <1>11,
     CheckKeepsLeaks, OpenKeepsLeaks, CleanupKeepsLeaks DEF Next, CallStep

\* However many threads race for zk_client_, and however often sessions expire,
\* they lose no more than two handles each, but for one of them.
THEOREM LeaksStayBounded == Spec => []LeaksBounded
<1>1. Init => CloseInv /\ LeakInv
  BY DEF Init, CloseInv, Closing, LeakInv, Unopened
<1>2. TypeOK /\ CloseInv /\ LeakInv /\ [Next]_vars => CloseInv' /\ LeakInv'
  BY CloseStep, LeakStep
<1>3. TypeOK /\ LeakInv => LeaksBounded
  <2> SUFFICES ASSUME TypeOK, LeakInv, ~init_failed
               PROVE  leaked <= 2 * (Threads - 1)
    BY DEF LeaksBounded, Threads
  <2>1. /\ Threads \in Nat /\ Threads >= 1 /\ Pending \in Nat /\ leaked \in Nat
    BY Counts
  <2>2. CASE Unopened
    BY <2>1, <2>2 DEF Unopened
  <2>3. CASE leaked + Pending <= Threads - 1 \/ leaked <= Threads - 1
    BY <2>1, <2>3
  <2>4. CASE leaked + Pending <= 2 * (Threads - 1)
    BY <2>1, <2>4
  <2> QED BY <2>2, <2>3, <2>4 DEF LeakInv, Opened, Cleared, Reopened
<1> QED BY <1>1, <1>2, <1>3, TypeCorrect, PTL DEF Spec

=============================================================================
