-------------------------- MODULE TcpServer_proofs --------------------------
(***************************************************************************)
(* The threads of the TCP server end before TcpServer::stop returns, and   *)
(* only a handler that went astray answers another handler's client, for   *)
(* every set of clients.                                                   *)
(***************************************************************************)
EXTENDS TcpServer, TLAPS

Serving == {"recv", "send", "close"}

\* A thread that runs is in the list of threads, one that the list of ended
\* threads names has ended, and only an accepted client has one.
Lifetimes ==
    /\ \A h \in Clients : at[h] \notin {"none", "over"} => h \in threads
    /\ \A h \in handlingEnd : at[h] = "over"
    /\ \A h \in Clients : link[h] \in {"away", "pending"} => at[h] = "none"

\* How far the threads are when the main thread has joined them.
Stopped ==
    /\ stopper \notin {"no", "poll", "killed"} => m_status = "close"
    /\ stopper \in {"joinHandlers", "joinAgain", "aborted"} => listener = "done"
    /\ stopper \in {"joinAgain", "aborted"} => \A h \in Clients : at[h] \in {"none", "over"}

\* A handler that did not go astray has its client's connection until it closes it.
Owned(h) ==
    h \notin astray /\ at[h] \in Serving => socket[h] \in Descriptors /\ open[socket[h]] = h

TcpInv ==
    /\ TcpTypeOK /\ Lifetimes /\ Stopped
    /\ \A h \in Clients : Owned(h)
    /\ SentToOwnClient

LEMMA TcpInvInit == TcpInit => TcpInv
BY DEF TcpInit, TcpInv, TcpTypeOK, Lifetimes, Stopped, Owned, Serving, SentToOwnClient

LEMMA BehindTyped ==
    ASSUME TcpTypeOK, NEW d \in Descriptors \cup {0}, Behind(d) # Nobody
    PROVE  d \in Descriptors /\ open[d] = Behind(d) /\ Behind(d) \in Clients
BY DEF Behind, TcpTypeOK

\* A close: nothing was open, or a client loses its connection; if it is another
\* handler's, that handler has gone astray.
LEMMA CloseCases ==
    ASSUME TcpTypeOK, NEW h \in Clients, CloseSocket(h)
    PROVE  \/ UNCHANGED <<open, link, astray>>
           \/ \E c \in Clients :
                /\ socket[h] \in Descriptors /\ open[socket[h]] = c
                /\ open' = [open EXCEPT ![socket[h]] = Nobody]
                /\ link' = [link EXCEPT ![c] = "closed"]
                /\ astray' = IF c = h THEN astray ELSE astray \cup {c}
<1>1. socket[h] \in Descriptors \cup {0}
  BY DEF TcpTypeOK
<1>2. CASE Behind(socket[h]) = Nobody
  BY <1>2 DEF CloseSocket
<1>3. CASE Behind(socket[h]) # Nobody
  BY <1>1, <1>3, BehindTyped DEF CloseSocket
<1> QED
  BY <1>2, <1>3

\* The types of the tables after a close.
LEMMA CloseTypes ==
    ASSUME TcpTypeOK, NEW h \in Clients, CloseSocket(h)
    PROVE  /\ open' \in [Descriptors -> Clients \cup {Nobody}]
           /\ link' \in [Clients -> {"away", "pending", "open", "closed"}]
           /\ astray' \subseteq Clients
           /\ \A g \in Clients : link'[g] = link[g] \/ link'[g] = "closed"
BY CloseCases DEF TcpTypeOK

LEMMA TypesNext == TcpTypeOK /\ Lifetimes /\ [TcpNext]_tcpVars => TcpTypeOK'
<1> SUFFICES ASSUME TcpTypeOK, Lifetimes, [TcpNext]_tcpVars PROVE TcpTypeOK'
  OBVIOUS
<1> USE DEF TcpTypeOK, loopVars, workVars, netVars, stopVars
<1>1. ASSUME NEW c \in Clients, ClientConnects(c) PROVE TcpTypeOK'
  BY <1>1 DEF ClientConnects
<1>2. ASSUME NEW c \in Clients, ClientSends(c) \/ ClientResets(c) PROVE TcpTypeOK'
  BY <1>2 DEF ClientSends, ClientResets
<1>3. CASE LoopTests \/ AcceptFails
  BY <1>3 DEF LoopTests, AcceptFails
<1>4. ASSUME NEW c \in Clients, Accept(c) PROVE TcpTypeOK'
  BY <1>4 DEF Accept
<1>5. CASE Reap
  BY <1>5 DEF Reap
<1>6. ASSUME NEW h \in Clients, CopySocket(h) PROVE TcpTypeOK'
  BY <1>6 DEF CopySocket, Moves
<1>7. ASSUME NEW h \in Clients, LoadData(h) PROVE TcpTypeOK'
  BY <1>7 DEF LoadData, Moves
<1>8. ASSUME NEW h \in Clients, SendData(h) PROVE TcpTypeOK'
  <2>1. answered' \in [Clients -> SUBSET Clients]
    BY <1>8 DEF SendData, Sent
  <2> QED
    BY <1>8, <2>1 DEF SendData, Moves
<1>9. ASSUME NEW h \in Clients, EndMessage(h) PROVE TcpTypeOK'
  BY <1>9, CloseTypes DEF EndMessage, Moves
<1>10. ASSUME NEW h \in Clients, EndHandler(h) PROVE TcpTypeOK'
  BY <1>10, CloseTypes DEF EndHandler, Moves
<1>11. ASSUME NEW h \in Clients, Report(h) PROVE TcpTypeOK'
  <2>1. h \in threads
    BY <1>11 DEF Report, Moves, Lifetimes
  <2> QED
    BY <1>11, <2>1 DEF Report, Moves
<1>12. CASE Signal \/ ScanEnds \/ Stopping
  BY <1>12 DEF Signal, ScanEnds, Stopping, CloseServer, JoinLoop, JoinHandlers, JoinAgain
<1>13. CASE UNCHANGED tcpVars
  BY <1>13 DEF tcpVars
<1>14. ASSUME NEW h \in Clients, BrokenPipe(h) PROVE TcpTypeOK'
  BY <1>14 DEF BrokenPipe
<1> QED
  BY <1>1, <1>2, <1>3, <1>4, <1>5, <1>6, <1>7, <1>8, <1>9, <1>10, <1>11, <1>12, <1>13, <1>14
     DEF TcpNext, Loop, AcceptAfterClose, Handler

\* Who moves: the accept loop, one handler, the main thread, or the network.
LEMMA ThreadsNext ==
    TcpTypeOK /\ Lifetimes /\ Stopped /\ [TcpNext]_tcpVars => Lifetimes' /\ Stopped'
<1> SUFFICES ASSUME TcpTypeOK, Lifetimes, Stopped, [TcpNext]_tcpVars
             PROVE  Lifetimes' /\ Stopped'
  OBVIOUS
<1> USE DEF TcpTypeOK, Lifetimes, Stopped, loopVars, workVars, netVars, stopVars
<1>1. ASSUME NEW c \in Clients, ClientConnects(c) PROVE Lifetimes' /\ Stopped'
  BY <1>1 DEF ClientConnects
<1>2. ASSUME NEW c \in Clients, ClientSends(c) \/ ClientResets(c) PROVE Lifetimes' /\ Stopped'
  BY <1>2 DEF ClientSends, ClientResets
<1>3. CASE LoopTests \/ AcceptFails
  BY <1>3 DEF LoopTests, AcceptFails
<1>4. ASSUME NEW c \in Clients, Accept(c) PROVE Lifetimes' /\ Stopped'
  BY <1>4 DEF Accept
<1>5. CASE Reap
  BY <1>5 DEF Reap
<1>6. ASSUME NEW h \in Clients, CopySocket(h) PROVE Lifetimes' /\ Stopped'
  BY <1>6 DEF CopySocket, Moves
<1>7. ASSUME NEW h \in Clients, LoadData(h) PROVE Lifetimes' /\ Stopped'
  BY <1>7 DEF LoadData, Moves
<1>8. ASSUME NEW h \in Clients, SendData(h) PROVE Lifetimes' /\ Stopped'
  BY <1>8 DEF SendData, Moves
<1>9. ASSUME NEW h \in Clients, EndMessage(h) PROVE Lifetimes' /\ Stopped'
  BY <1>9, CloseTypes DEF EndMessage, Moves
<1>10. ASSUME NEW h \in Clients, EndHandler(h) PROVE Lifetimes' /\ Stopped'
  BY <1>10, CloseTypes DEF EndHandler, Moves
<1>11. ASSUME NEW h \in Clients, Report(h) PROVE Lifetimes' /\ Stopped'
  BY <1>11 DEF Report, Moves
<1>12. CASE Signal \/ ScanEnds \/ Stopping
  BY <1>12 DEF Signal, ScanEnds, Stopping, CloseServer, JoinLoop, JoinHandlers, JoinAgain
<1>13. CASE UNCHANGED tcpVars
  BY <1>13 DEF tcpVars
<1>14. ASSUME NEW h \in Clients, BrokenPipe(h) PROVE Lifetimes' /\ Stopped'
  BY <1>14 DEF BrokenPipe
<1> QED
  BY <1>1, <1>2, <1>3, <1>4, <1>5, <1>6, <1>7, <1>8, <1>9, <1>10, <1>11, <1>12, <1>13, <1>14
     DEF TcpNext, Loop, AcceptAfterClose, Handler

\* A step that moves no descriptor and no connection, and at most lets a handler
\* enter or leave its service.
LEMMA OwnedKept ==
    ASSUME \A h \in Clients : Owned(h), UNCHANGED <<open, socket, astray>>,
           \A h \in Clients : at'[h] \in Serving => at[h] \in Serving
    PROVE  \A h \in Clients : Owned(h)'
BY DEF Owned

\* After a close.
LEMMA OwnedAfterClose ==
    ASSUME TcpTypeOK, \A g \in Clients : Owned(g),
           NEW h \in Clients, CloseSocket(h), UNCHANGED socket,
           \A g \in Clients : at'[g] \in Serving => at[g] \in Serving /\ g # h
    PROVE  \A g \in Clients : Owned(g)'
<1>1. CASE UNCHANGED <<open, link, astray>>
  BY <1>1 DEF Owned
<1>2. ASSUME NEW c \in Clients,
             /\ socket[h] \in Descriptors /\ open[socket[h]] = c
             /\ open' = [open EXCEPT ![socket[h]] = Nobody]
             /\ astray' = IF c = h THEN astray ELSE astray \cup {c}
      PROVE  \A g \in Clients : Owned(g)'
  <2> SUFFICES ASSUME NEW g \in Clients, g \notin astray', at'[g] \in Serving
               PROVE  socket'[g] \in Descriptors /\ open'[socket'[g]] = g
    BY DEF Owned
  <2>1. g \notin astray /\ at[g] \in Serving /\ g # h
    BY <1>2
  <2>2. socket[g] \in Descriptors /\ open[socket[g]] = g
    BY <2>1 DEF Owned
  <2>3. socket[g] # socket[h]
    BY <1>2, <2>1, <2>2
  <2> QED
    BY <1>2, <2>2, <2>3 DEF TcpTypeOK
<1> QED
  BY <1>1, <1>2, CloseCases

LEMMA OwnedNext ==
    TcpInv /\ [TcpNext]_tcpVars => \A g \in Clients : Owned(g)'
<1> SUFFICES ASSUME TcpInv, [TcpNext]_tcpVars PROVE \A g \in Clients : Owned(g)'
  OBVIOUS
<1>a. TcpTypeOK /\ \A h \in Clients : Owned(h)
  BY DEF TcpInv
<1>b. at \in [Clients -> {"none", "begun", "recv", "send", "close", "closeAgain",
                          "report", "over"}]
  BY <1>a DEF TcpTypeOK
<1> USE DEF loopVars, workVars, netVars, stopVars
<1>1. ASSUME NEW c \in Clients, ClientConnects(c) \/ ClientSends(c) \/ ClientResets(c)
      PROVE  \A g \in Clients : Owned(g)'
  BY <1>1, <1>a, OwnedKept DEF ClientConnects, ClientSends, ClientResets
<1>2. CASE LoopTests \/ AcceptFails \/ Reap
  BY <1>2, <1>a, OwnedKept DEF LoopTests, AcceptFails, Reap
<1>3. ASSUME NEW c \in Clients, Accept(c) PROVE \A g \in Clients : Owned(g)'
  <2>1. PICK d \in Descriptors : open[d] = Nobody /\ open' = [open EXCEPT ![d] = c]
    BY <1>3 DEF Accept, LowestFree
  <2>2. UNCHANGED <<socket, astray>>
    BY <1>3 DEF Accept
  <2>3. \A g \in Clients : at'[g] \in Serving => at[g] \in Serving
    BY <1>3, <1>b DEF Accept, Serving
  <2>4. \A e \in Descriptors : e # d => open'[e] = open[e]
    BY <2>1, <1>a DEF TcpTypeOK
  <2> QED
    BY <2>1, <2>2, <2>3, <2>4, <1>a, TcpAssumption DEF Owned
<1>4. ASSUME NEW h \in Clients, CopySocket(h) PROVE \A g \in Clients : Owned(g)'
  <2>1. PICK d \in Descriptors \cup {0} :
          /\ socket' = [socket EXCEPT ![h] = d]
          /\ astray' = IF Behind(d) = h THEN astray ELSE astray \cup {h}
    BY <1>4, <1>a DEF CopySocket, TcpTypeOK
  <2>2. open' = open /\ at' = [at EXCEPT ![h] = "recv"]
    BY <1>4 DEF CopySocket, Moves
  <2>3. Owned(h)'
    <3> SUFFICES ASSUME h \notin astray' PROVE socket'[h] \in Descriptors /\ open'[socket'[h]] = h
      BY DEF Owned
    <3>1. Behind(d) = h
      BY <2>1
    <3>2. d \in Descriptors /\ open[d] = h
      BY <3>1, <1>a, BehindTyped, TcpAssumption
    <3> QED
      BY <2>1, <2>2, <3>2, <1>a DEF TcpTypeOK
  <2>4. ASSUME NEW g \in Clients, g # h PROVE Owned(g)'
    BY <2>1, <2>2, <2>4, <1>a, <1>b DEF Owned, TcpTypeOK
  <2> QED
    BY <2>3, <2>4
<1>5. ASSUME NEW h \in Clients, LoadData(h) \/ SendData(h) \/ Report(h)
      PROVE  \A g \in Clients : Owned(g)'
  <2>1. UNCHANGED <<open, socket, astray>>
    BY <1>5 DEF LoadData, SendData, Report
  <2>2. \A g \in Clients : at'[g] \in Serving => at[g] \in Serving
    BY <1>5, <1>b DEF LoadData, SendData, Report, Moves, Serving
  <2> QED
    BY <2>1, <2>2, <1>a, OwnedKept
<1>6. ASSUME NEW h \in Clients, EndMessage(h) \/ EndHandler(h)
      PROVE  \A g \in Clients : Owned(g)'
  <2>1. CloseSocket(h) /\ UNCHANGED socket
    BY <1>6 DEF EndMessage, EndHandler
  <2>2. \A g \in Clients : at'[g] \in Serving => at[g] \in Serving /\ g # h
    BY <1>6, <1>b DEF EndMessage, EndHandler, Moves, Serving
  <2> QED
    BY <2>1, <2>2, <1>a, OwnedAfterClose
<1>7. ASSUME NEW h \in Clients, BrokenPipe(h) PROVE \A g \in Clients : Owned(g)'
  BY <1>7 DEF BrokenPipe, Owned, Serving
<1>8. CASE Signal \/ ScanEnds \/ Stopping \/ UNCHANGED tcpVars
  BY <1>8, <1>a, OwnedKept DEF Signal, ScanEnds, Stopping, CloseServer, JoinLoop,
       JoinHandlers, JoinAgain, tcpVars
<1> QED
  BY <1>1, <1>2, <1>3, <1>4, <1>5, <1>6, <1>7, <1>8
     DEF TcpNext, Loop, AcceptAfterClose, Handler

LEMMA SentNext == TcpInv /\ [TcpNext]_tcpVars => SentToOwnClient'
<1> SUFFICES ASSUME TcpInv, [TcpNext]_tcpVars PROVE SentToOwnClient'
  OBVIOUS
<1>a. TcpTypeOK /\ SentToOwnClient /\ \A h \in Clients : Owned(h)
  BY DEF TcpInv
<1>1. astray \subseteq astray'
  BY DEF TcpNext, Loop, AcceptAfterClose, Handler, Stopping, ClientConnects, ClientSends,
         ClientResets, LoopTests, Accept, AcceptFails, Reap, CopySocket, LoadData, SendData,
         BrokenPipe, EndMessage, EndHandler, CloseSocket, Report, Signal, ScanEnds,
         CloseServer, JoinLoop, JoinHandlers, JoinAgain, tcpVars, netVars
<1>2. CASE answered' = answered
  BY <1>1, <1>2, <1>a DEF SentToOwnClient
<1>3. ASSUME NEW h \in Clients, SendData(h) PROVE SentToOwnClient'
  <2>1. CASE answered' = answered
    BY <2>1, <1>2
  <2>2. ASSUME NEW c \in Clients, Behind(socket[h]) = c,
               answered' = [answered EXCEPT ![c] = @ \cup {h}]
        PROVE  SentToOwnClient'
    <3>1. socket[h] \in Descriptors \cup {0}
      BY <1>a DEF TcpTypeOK
    <3>2. open[socket[h]] = c
      BY <3>1, <2>2, <1>a, BehindTyped, TcpAssumption
    <3>3. at[h] \in Serving
      BY <1>3 DEF SendData, Moves, Serving
    <3>4. h # c => h \in astray
      BY <3>2, <3>3, <1>a DEF Owned
    <3>5. \A b, g \in Clients : g \in answered'[b] =>
             g \in answered[b] \/ (g = h /\ b = c)
      BY <2>2, <1>a DEF TcpTypeOK
    <3> QED
      BY <3>4, <3>5, <1>1, <1>a DEF SentToOwnClient
  <2> QED
    BY <1>3, <2>1, <2>2 DEF SendData, Sent
<1> QED
  BY <1>2, <1>3
     DEF TcpNext, Loop, AcceptAfterClose, Handler, Stopping, ClientConnects, ClientSends,
         ClientResets, LoopTests, Accept, AcceptFails, Reap, CopySocket, LoadData,
         BrokenPipe, EndMessage, EndHandler, Report, Signal, ScanEnds,
         CloseServer, JoinLoop, JoinHandlers, JoinAgain, tcpVars, netVars

LEMMA TcpInductive == TcpSpec => []TcpInv
<1>1. TcpInv /\ [TcpNext]_tcpVars => TcpInv'
  BY TypesNext, ThreadsNext, OwnedNext, SentNext DEF TcpInv
<1> QED
  BY <1>1, TcpInvInit, PTL DEF TcpSpec

\* Type correctness of the accept loop, the handlers and stop().
THEOREM TcpTypes == TcpSpec => []TcpTypeOK
<1>1. TcpInv => TcpTypeOK
  BY DEF TcpInv
<1> QED
  BY <1>1, TcpInductive, PTL

\* When the joins of TcpServer::stop are over, no thread of the server runs.
THEOREM TcpStopJoinsAll == TcpSpec => []StopJoinsAll
<1>1. TcpInv => StopJoinsAll
  BY DEF TcpInv, Stopped, StopJoinsAll
<1> QED
  BY <1>1, TcpInductive, PTL

\* However many clients come and go and in whatever order their descriptors are
\* used again, a handler that sends to another handler's client has gone astray.
THEOREM TcpSentToOwnClient == TcpSpec => []SentToOwnClient
<1>1. TcpInv => SentToOwnClient
  BY DEF TcpInv
<1> QED
  BY <1>1, TcpInductive, PTL
=============================================================================
