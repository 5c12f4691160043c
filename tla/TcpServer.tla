------------------------------ MODULE TcpServer ------------------------------
(***************************************************************************)
(* The TCP server of the console client (tcpServer.cpp, not Windows): the  *)
(* accept loop, one handler thread per connection, the descriptors of the  *)
(* process, and the way the main thread stops it all when the process is   *)
(* told to end (main.cpp, Application::stop).  What a handler answers is   *)
(* FrameServer's subject; here it is whether it answers the right client.  *)
(***************************************************************************)
EXTENDS Naturals

CONSTANTS
    Clients,        \* TCP clients, each of which connects once
    Readers,        \* those that stay and read what they are sent
    MaxDescriptor,  \* bound: descriptors the process may have for connections
    Nobody          \* a descriptor that is not open

Descriptors == 1 .. MaxDescriptor

ASSUME TcpAssumption ==
    /\ Nobody \notin Clients /\ Readers \subseteq Clients
    /\ MaxDescriptor \in Nat

VARIABLES
    m_status,       \* "up" or "close"
    listener,       \* where handlingLoop is
    client_socket,  \* its local variable, which the handlers have by reference
    threads,        \* m_clientHandlerThreads, by the client accepted
    handlingEnd,    \* m_clientHandlingEnd
    at,             \* where each handler thread is
    socket,         \* the descriptor in its Client objects
    open,           \* the connection behind each descriptor of the process
    link,           \* each client's connection
    request,        \* what each client has sent
    answered,       \* handlers whose answers each client has got
    stopper,        \* where the main thread is in signalHandler
    scanning,       \* m_scanState is not STOPED
    astray          \* history: clients whose handler took another descriptor than
                    \* theirs, or whose connection another handler closed

loopVars    == <<m_status, listener, client_socket, threads, handlingEnd>>
workVars    == <<at, socket>>
netVars     == <<open, link, request, answered, astray>>
stopVars    == <<stopper, scanning>>
tcpVars     == <<loopVars, workVars, netVars, stopVars>>

TcpTypeOK ==
    /\ m_status \in {"up", "close"}
    /\ listener \in {"top", "accept", "reap", "done"}
    /\ client_socket \in Descriptors \cup {0}
    /\ threads \subseteq Clients /\ handlingEnd \subseteq threads
    /\ at \in [Clients -> {"none", "begun", "recv", "send", "close", "closeAgain",
                           "report", "over"}]
    /\ socket \in [Clients -> Descriptors \cup {0}]
    /\ open \in [Descriptors -> Clients \cup {Nobody}]
    /\ link \in [Clients -> {"away", "pending", "open", "closed"}]
    /\ request \in [Clients -> {"none", "sent", "read", "taken", "hungUp", "reset"}]
    /\ answered \in [Clients -> SUBSET Clients]
    /\ stopper \in {"no", "poll", "joinLoop", "joinHandlers", "joinAgain", "aborted",
                    "killed"}
    /\ scanning \in BOOLEAN
    /\ astray \subseteq Clients

\* start() has succeeded.
TcpInit ==
    /\ m_status = "up" /\ listener = "top" /\ client_socket = 0
    /\ threads = {} /\ handlingEnd = {}
    /\ at = [c \in Clients |-> "none"]
    /\ socket = [c \in Clients |-> 0]
    /\ open = [d \in Descriptors |-> Nobody]
    /\ link = [c \in Clients |-> "away"]
    /\ request = [c \in Clients |-> "none"]
    /\ answered = [c \in Clients |-> {}]
    /\ stopper = "no" /\ scanning \in BOOLEAN
    /\ astray = {}

-----------------------------------------------------------------------------
(* The clients and the network.                                            *)

\* The kernel queues a connection as long as accept holds the listening socket.
ClientConnects(c) ==
    /\ link[c] = "away"
    /\ stopper # "killed"
    /\ m_status = "up" \/ listener = "accept"
    /\ link' = [link EXCEPT ![c] = "pending"]
    /\ UNCHANGED <<loopVars, workVars, open, request, answered, astray, stopVars>>

\* A client sends its request, or closes its side without one.
ClientSends(c) ==
    /\ link[c] \in {"pending", "open"} /\ request[c] = "none"
    /\ \E r \in {"sent", "hungUp"} : request' = [request EXCEPT ![c] = r]
    /\ UNCHANGED <<loopVars, workVars, open, link, answered, astray, stopVars>>

\* A client breaks the connection off, at any time.
ClientResets(c) ==
    /\ c \notin Readers /\ request[c] # "reset"
    /\ link[c] \in {"pending", "open"}
    /\ request' = [request EXCEPT ![c] = "reset"]
    /\ UNCHANGED <<loopVars, workVars, open, link, answered, astray, stopVars>>

-----------------------------------------------------------------------------
(* The accept loop.                                                        *)

\* The test of m_status, and the call of accept.
LoopTests ==
    /\ listener = "top"
    /\ listener' = IF m_status = "up" THEN "accept" ELSE "done"
    /\ UNCHANGED <<m_status, client_socket, threads, handlingEnd, workVars, netVars, stopVars>>

\* The lowest descriptor that is free.
LowestFree(d) == open[d] = Nobody /\ \A e \in 1 .. (d - 1) : open[e] # Nobody

\* accept returns the connection of c, and a thread starts for it; once the
\* server is stopped nobody takes or closes the descriptor.
Accept(c) ==
    /\ listener = "accept" /\ link[c] = "pending"
    /\ \E d \in Descriptors :
         /\ LowestFree(d)
         /\ client_socket' = d
         /\ open' = [open EXCEPT ![d] = c]
    /\ link' = [link EXCEPT ![c] = "open"]
    /\ IF m_status = "up"
       THEN threads' = threads \cup {c} /\ at' = [at EXCEPT ![c] = "begun"]
       ELSE UNCHANGED <<threads, at>>
    /\ listener' = "reap"
    /\ UNCHANGED <<m_status, handlingEnd, socket, request, answered, astray, stopVars>>

\* accept returns -1, and the loop goes round.
AcceptFails ==
    /\ listener = "accept"
    /\ client_socket' = 0
    /\ listener' = "reap"
    /\ UNCHANGED <<m_status, threads, handlingEnd, workVars, netVars, stopVars>>

\* It does so at once while the process has no descriptor left, and if it is
\* called when the listening socket is closed already; when it was called
\* before, it goes on waiting.
NoneFree == \A d \in Descriptors : open[d] # Nobody
AcceptAfterClose == m_status = "close" /\ AcceptFails

\* Mutant of Reap: the loop joins every handler, ended or not.
ReapAll ==
    /\ listener = "reap"
    /\ \A h \in threads : at[h] = "over"
    /\ threads' = {} /\ handlingEnd' = {}
    /\ listener' = "top"
    /\ UNCHANGED <<m_status, client_socket, workVars, netVars, stopVars>>

\* Mutant of Reap: the loop forgets every handler if one has ended.
ReapForgets ==
    /\ listener = "reap"
    /\ threads' = IF handlingEnd = {} THEN threads ELSE {}
    /\ handlingEnd' = {}
    /\ listener' = "top"
    /\ UNCHANGED <<m_status, client_socket, workVars, netVars, stopVars>>

\* The handlers that have ended are joined, and the loop sleeps.
Reap ==
    /\ listener = "reap"
    /\ threads' = threads \ handlingEnd
    /\ handlingEnd' = {}
    /\ listener' = "top"
    /\ UNCHANGED <<m_status, client_socket, workVars, netVars, stopVars>>

Loop == LoopTests \/ Reap \/ (NoneFree /\ AcceptFails) \/ \E c \in Clients : Accept(c)

-----------------------------------------------------------------------------
(* A handler: h is the client it was started for.                          *)

Moves(h, from, to) == at[h] = from /\ at' = [at EXCEPT ![h] = to]

\* The connection that a descriptor stands for.
Behind(d) == IF d = 0 THEN Nobody ELSE open[d]

\* The thread copies the descriptor out of the loop's variable; when the loop
\* has returned the variable is gone.
CopySocket(h) ==
    /\ Moves(h, "begun", "recv")
    /\ \E d \in IF listener = "done" THEN Descriptors \cup {0} ELSE {client_socket} :
         /\ socket' = [socket EXCEPT ![h] = d]
         /\ astray' = IF Behind(d) = h THEN astray ELSE astray \cup {h}
    /\ UNCHANGED <<loopVars, open, link, request, answered, stopVars>>

\* loadData: an error counts as data (-1 becomes a huge size_t); a client that
\* has closed its side yields 0, and message asks again for ever.  Then it goes
\* on to send an answer, or ends as there is no frame.
LoadData(h) ==
    /\ Moves(h, "recv", "send") \/ Moves(h, "recv", "close")
    /\ \/ Behind(socket[h]) = Nobody /\ UNCHANGED request
       \/ \E c \in Clients :
            /\ Behind(socket[h]) = c
            /\ \/ request[c] = "reset" /\ UNCHANGED request
               \/ /\ request[c] = "sent"
                  /\ request' = [request EXCEPT ![c] = IF c = h THEN "read" ELSE "taken"]
    /\ UNCHANGED <<loopVars, socket, open, link, answered, astray, stopVars>>

\* send fails without a connection, and may fail when the client has broken it off.
SendFails(d) ==
    \/ Behind(d) = Nobody
    \/ \E c \in Clients : Behind(d) = c /\ request[c] = "reset"

\* The answer goes to the client at the other end of descriptor d.
Sent(h, d) ==
    \/ SendFails(d) /\ UNCHANGED answered
    \/ \E c \in Clients : /\ Behind(d) = c /\ request[c] # "reset"
                          /\ answered' = [answered EXCEPT ![c] = @ \cup {h}]

\* Mutant of SendData: the handler uses the loop's variable, not its copy.
SendByReference(h) ==
    /\ Moves(h, "send", "close")
    /\ Sent(h, client_socket)
    /\ UNCHANGED <<loopVars, socket, open, link, request, astray, stopVars>>

\* send returns when the kernel has taken the answer, which a client that does
\* not read can prevent for ever.
SendData(h) ==
    /\ Moves(h, "send", "close")
    /\ Sent(h, socket[h])
    /\ UNCHANGED <<loopVars, socket, open, link, request, astray, stopVars>>

\* The handlers whose send returns without the client's doing.
MaySend(h) == Behind(socket[h]) \in Readers \cup {Nobody} \/ SendFails(socket[h])

\* Or it raises SIGPIPE, which nobody handles, and the process dies.
BrokenPipe(h) ==
    /\ at[h] = "send" /\ Behind(socket[h]) # Nobody /\ SendFails(socket[h])
    /\ stopper' = "killed" /\ listener' = "done"
    /\ threads' = {} /\ handlingEnd' = {}
    /\ at' = [g \in Clients |-> IF at[g] = "none" THEN "none" ELSE "over"]
    /\ open' = [d \in Descriptors |-> Nobody]
    /\ link' = [c \in Clients |-> IF link[c] = "away" THEN "away" ELSE "closed"]
    /\ UNCHANGED <<m_status, client_socket, socket, request, answered, astray, scanning>>

\* Mutant of CloseSocket: the descriptor is left alone.
LeaveSocket(h) == UNCHANGED <<open, link, astray>>

\* close() of the descriptor, which may have become another client's.
CloseSocket(h) ==
    LET c == Behind(socket[h]) IN
    \/ c = Nobody /\ UNCHANGED <<open, link, astray>>
    \/ /\ c # Nobody
       /\ open' = [open EXCEPT ![socket[h]] = Nobody]
       /\ link' = [link EXCEPT ![c] = "closed"]
       /\ astray' = IF c = h THEN astray ELSE astray \cup {c}

\* The parameter of message ends, and its destructor closes the descriptor.
EndMessage(h) ==
    /\ Moves(h, "close", "closeAgain")
    /\ CloseSocket(h)
    /\ UNCHANGED <<loopVars, socket, request, answered, stopVars>>

\* The object that the thread made ends, and closes the descriptor again.
EndHandler(h) ==
    /\ Moves(h, "closeAgain", "report")
    /\ CloseSocket(h)
    /\ UNCHANGED <<loopVars, socket, request, answered, stopVars>>

Report(h) ==
    /\ Moves(h, "report", "over")
    /\ handlingEnd' = handlingEnd \cup {h}
    /\ UNCHANGED <<m_status, listener, client_socket, threads, socket, netVars, stopVars>>

\* What a handler does by itself, without send.
Handler(h) == CopySocket(h) \/ LoadData(h) \/ EndMessage(h) \/ EndHandler(h) \/ Report(h)

-----------------------------------------------------------------------------
(* The end of the process: signalHandler calls Application::stop, on the    *)
(* main thread.                                                            *)

\* SIGHUP comes, at any time.
Signal ==
    /\ stopper = "no"
    /\ stopper' = "poll"
    /\ UNCHANGED <<loopVars, workVars, netVars, scanning>>

\* The board says that its scan has ended; nothing in stop() asks it to.
ScanEnds ==
    /\ scanning /\ stopper # "killed"
    /\ scanning' = FALSE
    /\ UNCHANGED <<loopVars, workVars, netVars, stopper>>

\* TcpServer::stop: m_status is set, then the listening socket is closed, which
\* does not wake the loop when it is in accept.
CloseServer ==
    /\ stopper = "poll" /\ ~scanning
    /\ m_status' = "close"
    /\ stopper' = "joinLoop"
    /\ UNCHANGED <<listener, client_socket, threads, handlingEnd, workVars, netVars, scanning>>

JoinLoop ==
    /\ stopper = "joinLoop" /\ listener = "done"
    /\ stopper' = "joinHandlers"
    /\ UNCHANGED <<loopVars, workVars, netVars, scanning>>

JoinHandlers ==
    /\ stopper = "joinHandlers" /\ \A h \in threads : at[h] = "over"
    /\ threads' = {} /\ handlingEnd' = {}
    /\ stopper' = "joinAgain"
    /\ UNCHANGED <<m_status, listener, client_socket, workVars, netVars, scanning>>

\* Application::stop joins the loop once more; that thread is no longer
\* joinable, join throws, and nothing catches it.
JoinAgain ==
    /\ stopper = "joinAgain"
    /\ stopper' = "aborted"
    /\ UNCHANGED <<loopVars, workVars, netVars, scanning>>

Stopping == CloseServer \/ JoinLoop \/ JoinHandlers \/ JoinAgain

TcpNext ==
    \/ Loop \/ AcceptAfterClose \/ Stopping \/ Signal \/ ScanEnds
    \/ \E c \in Clients :
         \/ ClientConnects(c) \/ ClientSends(c) \/ ClientResets(c)
         \/ Handler(c) \/ SendData(c) \/ BrokenPipe(c)

TcpSpec == TcpInit /\ [][TcpNext]_tcpVars

\* The operating system runs every thread, and send returns if the client reads
\* or has gone; of other clients and of the board nothing is expected.
TcpFairSpec ==
    /\ TcpSpec
    /\ WF_tcpVars(Loop) /\ WF_tcpVars(Stopping)
    /\ \A c \in Clients :
         /\ WF_tcpVars(Handler(c))
         /\ WF_tcpVars(MaySend(c) /\ (SendData(c) \/ BrokenPipe(c)))

-----------------------------------------------------------------------------
(* Properties.                                                             *)

\* The destructor of the last thread object never meets a running thread: when
\* the joins of TcpServer::stop are over, the loop and every handler that was
\* ever started have ended.
StopJoinsAll ==
    stopper \in {"joinAgain", "aborted"} =>
        listener = "done" /\ \A h \in Clients : at[h] \in {"none", "over"}

\* The server was told to stop, or a send has killed the process.
Ended == m_status = "close" \/ stopper = "killed"

\* Whatever the clients that were accepted do or leave undone, no client waits for
\* ever to be accepted, until the server has ended or no descriptor is left.
AcceptsDespiteStuck ==
    (\E c \in Clients : link[c] = "pending") ~>
        (\A c \in Clients : link[c] # "pending") \/ Ended \/ NoneFree

\* Descriptors are captured by reference, closed twice and given out again, and
\* answers do go to the wrong client then; but only those of a handler that
\* went astray, as it took a descriptor that was not its client's or another
\* handler closed that connection.  Any other handler answers its own client,
\* whatever the handlers around it have come to.
SentToOwnClient ==
    \A c, h \in Clients : h \in answered[c] /\ h # c => h \in astray

\* A client that sent a request and stays to read the answer is answered or dropped in
\* the end, whether the others read or not, and its handler and its descriptor
\* are not left behind; unless its handler went astray, another handler took its
\* request, or the server has ended.
RequestsEnd ==
    \A c \in Readers :
        link[c] = "open" /\ request[c] = "sent" ~>
            \/ link[c] = "closed" /\ at[c] = "over"
            \/ c \in astray \/ request[c] = "taken" \/ Ended

\* "callback-function called when client connect": with every thread fair, a
\* client that connected and sent a request does not stay with an open
\* connection that no handler serves.
EveryClientHandled ==
    \A c \in Clients :
        link[c] = "open" /\ request[c] = "sent" ~> link[c] = "closed" \/ m_status = "close"
=============================================================================
