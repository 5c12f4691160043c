----------------------------- MODULE FrameServer -----------------------------
(***************************************************************************)
(* The threads of the console client around its frame buffer: the main     *)
(* thread, which parses answers, and a thread per TCP client, which runs   *)
(* message and prepareData.  The mutex m_FrameBufferLock guards the buffer *)
(* but neither the sizes in m_scanSettings nor the test for an empty       *)
(* buffer, so those accesses are steps of their own.                       *)
(***************************************************************************)
EXTENDS Naturals, Sequences

CONSTANTS
    Handlers,             \* threads that serve TCP clients
    Sizes,                \* matrix sizes that the board may start a scan with
    JsonSize,             \* size of the conversion file, 0 x 0 if there is none
    FRAME_BUFFER_SIZE,    \* frames kept for the TCP clients
    MaxFrames,            \* bound: frames that arrive
    Free                  \* the lock is not held

ASSUME ServerAssumption ==
    /\ Sizes \subseteq [x : Nat, y : Nat] /\ JsonSize \in [x : Nat, y : Nat]
    /\ FRAME_BUFFER_SIZE \in Nat /\ MaxFrames \in Nat
    /\ Free \notin Handlers

VARIABLES
    main,          \* where the main thread is in answerParser
    incoming,      \* the sizes in the start answer that it parses
    sizeX, sizeY,  \* m_scanSettings.m_sizeX, m_sizeY
    arrived,       \* frames that have arrived
    buffer,        \* m_pFrameBuffer: number and pixel count of each frame
    lock,          \* m_FrameBufferLock: the handler that holds it
    pc,            \* where each handler is in message or prepareData
    peer,          \* what each handler's TCP client has done
    taken,         \* l_pFrame
    maxX, maxY,    \* l_maxX, l_maxY
    served         \* the frame handed out last

mainVars    == <<main, incoming, sizeX, sizeY, arrived>>
handlerVars == <<pc, peer, taken, maxX, maxY>>
serverVars  == <<mainVars, handlerVars, buffer, lock, served>>

Frames  == [id : Nat, points : Nat]
NoFrame == [id |-> 0, points |-> 0]      \* the frame made when none is there

\* Places of a handler that holds the lock.
Locked == {"sizeX", "sizeY", "walk"}

ServerTypeOK ==
    /\ main \in {"idle", "sizeX", "sizeY", "clear", "stop", "jsonX", "jsonY", "push"}
    /\ incoming \in [x : Nat, y : Nat] /\ sizeX \in Nat /\ sizeY \in Nat
    /\ arrived \in 0 .. MaxFrames /\ served \in Nat
    /\ buffer \in Seq(Frames) /\ Len(buffer) =< FRAME_BUFFER_SIZE
    /\ lock \in Handlers \cup {Free}
    /\ pc \in [Handlers -> {"done", "recv", "test", "lock", "send"} \cup Locked]
    /\ peer \in [Handlers -> {"none", "quiet", "sent", "closed", "answered"}]
    /\ taken \in [Handlers -> Frames]
    /\ maxX \in [Handlers -> Nat] /\ maxY \in [Handlers -> Nat]

ServerInit ==
    /\ main = "idle" /\ incoming = [x |-> 0, y |-> 0] /\ sizeX = 0 /\ sizeY = 0
    /\ arrived = 0 /\ buffer = <<>> /\ lock = Free /\ served = 0
    /\ pc = [h \in Handlers |-> "done"]
    /\ peer = [h \in Handlers |-> "none"]
    /\ taken = [h \in Handlers |-> NoFrame]
    /\ maxX = [h \in Handlers |-> 0] /\ maxY = [h \in Handlers |-> 0]

-----------------------------------------------------------------------------
(* The main thread.                                                        *)

\* A start answer comes; its sizes are written one after the other.
StartAnswered ==
    /\ main = "idle"
    /\ incoming' \in Sizes
    /\ main' = "sizeX"
    /\ UNCHANGED <<sizeX, sizeY, arrived, handlerVars, buffer, lock, served>>

WriteSizeX ==
    \/ /\ main = "sizeX"
       /\ sizeX' = incoming.x /\ main' = "sizeY"
       /\ UNCHANGED <<incoming, sizeY, arrived, handlerVars, buffer, lock, served>>
    \/ /\ main = "jsonX"
       /\ sizeX' = JsonSize.x /\ main' = "jsonY"
       /\ UNCHANGED <<incoming, sizeY, arrived, handlerVars, buffer, lock, served>>

WriteSizeY ==
    \/ /\ main = "sizeY"
       /\ sizeY' = incoming.y /\ main' = "clear"
       /\ UNCHANGED <<incoming, sizeX, arrived, handlerVars, buffer, lock, served>>
    \/ /\ main = "jsonY"
       /\ sizeY' = JsonSize.y /\ main' = "idle"
       /\ UNCHANGED <<incoming, sizeX, arrived, handlerVars, buffer, lock, served>>

StopAnswered ==
    /\ main = "idle"
    /\ main' = "stop"
    /\ UNCHANGED <<incoming, sizeX, sizeY, arrived, handlerVars, buffer, lock, served>>

\* After a start the sizes of the conversion file replace smaller ones.
AfterClear ==
    IF main = "clear" /\ (JsonSize.x > sizeX \/ JsonSize.y > sizeY)
    THEN "jsonX" ELSE "idle"

\* Mutant of clearFrameBuffer: the lock is not taken.
clearUnlocked ==
    /\ main \in {"clear", "stop"}
    /\ buffer' = <<>>
    /\ main' = AfterClear
    /\ UNCHANGED <<incoming, sizeX, sizeY, arrived, handlerVars, lock, served>>

\* The critical section is one step of the main thread.
clearFrameBuffer ==
    /\ main \in {"clear", "stop"}
    /\ lock = Free
    /\ buffer' = <<>>
    /\ main' = AfterClear
    /\ UNCHANGED <<incoming, sizeX, sizeY, arrived, handlerVars, lock, served>>

\* Mutant of FrameGoes: one frame too many.
FrameAlwaysGoes(s) ==
    IF Len(buffer) =< FRAME_BUFFER_SIZE /\ s.x * s.y = sizeX * sizeY
    THEN "push" ELSE "idle"

\* Where frameParser goes with a frame of size s.
FrameGoes(s) ==
    IF Len(buffer) < FRAME_BUFFER_SIZE /\ s.x * s.y = sizeX * sizeY
    THEN "push" ELSE "idle"

\* A frame comes.  frameParser looks at the size of the buffer without the
\* lock and drops a frame that has no room or not the length announced.
FrameArrives ==
    /\ main = "idle"
    /\ arrived < MaxFrames
    /\ arrived' = arrived + 1
    /\ \E s \in Sizes : main' = FrameGoes(s)
    /\ UNCHANGED <<incoming, sizeX, sizeY, handlerVars, buffer, lock, served>>

PushFrame ==
    /\ main = "push"
    /\ lock = Free
    /\ buffer' = Append(buffer, [id |-> arrived, points |-> sizeX * sizeY])
    /\ main' = "idle"
    /\ UNCHANGED <<incoming, sizeX, sizeY, arrived, handlerVars, lock, served>>

Main ==
    \/ StartAnswered \/ WriteSizeX \/ WriteSizeY \/ StopAnswered
    \/ clearFrameBuffer \/ FrameArrives \/ PushFrame

-----------------------------------------------------------------------------
(* A handler and its TCP client.                                           *)

Goto(h, place) == pc' = [pc EXCEPT ![h] = place]

\* A TCP client connects: the server starts a thread for it.
Connect(h) ==
    /\ pc[h] = "done"
    /\ Goto(h, "recv")
    /\ peer' = [peer EXCEPT ![h] = "quiet"]
    /\ UNCHANGED <<mainVars, buffer, lock, taken, maxX, maxY, served>>

\* The client sends its request, or goes away without one.
PeerActs(h) ==
    /\ pc[h] = "recv" /\ peer[h] = "quiet"
    /\ \E done \in {"sent", "closed"} : peer' = [peer EXCEPT ![h] = done]
    /\ UNCHANGED <<mainVars, buffer, lock, pc, taken, maxX, maxY, served>>

\* loadData until there is data: a client that has gone away yields none, and
\* the loop never ends.
Receive(h) ==
    /\ pc[h] = "recv" /\ peer[h] = "sent"
    /\ Goto(h, "test")
    /\ UNCHANGED <<mainVars, buffer, lock, peer, taken, maxX, maxY, served>>

\* message looks at the buffer without the lock and may leave at once.
TestEmpty(h) ==
    /\ pc[h] = "test"
    /\ Goto(h, IF buffer = <<>> THEN "done" ELSE "lock")
    /\ UNCHANGED <<mainVars, buffer, lock, peer, taken, maxX, maxY, served>>

\* prepareData up to its sizes: the oldest frame, or an empty one.
TakeHead(h) ==
    IF buffer = <<>>
    THEN /\ taken' = [taken EXCEPT ![h] = NoFrame]
         /\ Goto(h, "walk")
    ELSE /\ taken' = [taken EXCEPT ![h] = Head(buffer)]
         /\ Goto(h, "sizeX")

\* Mutant of TakeFrame: the lock is not waited for.
TakeUnlocked(h) ==
    /\ pc[h] = "lock"
    /\ lock' = h
    /\ TakeHead(h)
    /\ UNCHANGED <<mainVars, buffer, peer, maxX, maxY, served>>

TakeFrame(h) ==
    /\ pc[h] = "lock"
    /\ lock = Free
    /\ lock' = h
    /\ TakeHead(h)
    /\ UNCHANGED <<mainVars, buffer, peer, maxX, maxY, served>>

ReadSizeX(h) ==
    /\ pc[h] = "sizeX"
    /\ maxX' = [maxX EXCEPT ![h] = sizeX]
    /\ Goto(h, "sizeY")
    /\ UNCHANGED <<mainVars, buffer, lock, peer, taken, maxY, served>>

ReadSizeY(h) ==
    /\ pc[h] = "sizeY"
    /\ maxY' = [maxY EXCEPT ![h] = sizeY]
    /\ Goto(h, "walk")
    /\ UNCHANGED <<mainVars, buffer, lock, peer, taken, maxX, served>>

\* Mutant of PopFrame: the lock is not given back before the answer is sent.
PopHolding(h) ==
    /\ pc[h] = "walk"
    /\ IF buffer # <<>>
       THEN buffer' = Tail(buffer) /\ served' = taken[h].id
       ELSE UNCHANGED <<buffer, served>>
    /\ Goto(h, "send")
    /\ UNCHANGED <<mainVars, lock, peer, taken, maxX, maxY>>

\* The pixels are written out; the frame leaves the buffer and the lock goes.
PopFrame(h) ==
    /\ pc[h] = "walk"
    /\ IF buffer # <<>>
       THEN buffer' = Tail(buffer) /\ served' = taken[h].id
       ELSE UNCHANGED <<buffer, served>>
    /\ lock' = Free
    /\ Goto(h, "send")
    /\ UNCHANGED <<mainVars, peer, taken, maxX, maxY>>

SendAnswer(h) ==
    /\ pc[h] = "send"
    /\ peer' = [peer EXCEPT ![h] = "answered"]
    /\ Goto(h, "done")
    /\ UNCHANGED <<mainVars, buffer, lock, taken, maxX, maxY, served>>

\* What a handler does by itself once its client has sent the request.
Handle(h) ==
    \/ Receive(h) \/ TestEmpty(h) \/ TakeFrame(h) \/ ReadSizeX(h) \/ ReadSizeY(h)
    \/ PopFrame(h)

ServerNext ==
    Main \/ \E h \in Handlers : Connect(h) \/ PeerActs(h) \/ Handle(h) \/ SendAnswer(h)

ServerSpec == ServerInit /\ [][ServerNext]_serverVars

\* The operating system runs every thread.  Nothing is said of SendAnswer: a
\* client that does not read blocks it.
ServerFairSpec ==
    ServerSpec /\ \A h \in Handlers : WF_serverVars(Handle(h))

-----------------------------------------------------------------------------
(* Properties.                                                             *)

Holds(h) == pc[h] \in Locked

\* The frame that a handler walks stays in the buffer, and at its front, until
\* the handler removes it: nobody frees its pixels or removes another in its
\* place.
WalkedFrameStays ==
    \A h \in Handlers :
        Holds(h) /\ taken[h] # NoFrame => buffer # <<>> /\ Head(buffer) = taken[h]

Ids(frames) == [i \in DOMAIN frames |-> frames[i].id]

\* Whatever the threads do, the buffer is the queue that FrameQueue specifies.
Queue == INSTANCE FrameQueue WITH
            Size    <- FRAME_BUFFER_SIZE,
            Numbers <- 1 .. MaxFrames,
            queue   <- Ids(buffer)

ImplementsQueue == Queue!QueueSpec

\* Whichever handler has the lock, it becomes free, even if no client ever reads
\* its answer: the main thread is not shut out for ever.
LockReleased == lock # Free ~> lock = Free

\* "If data present - take it": the pixels written out are those of the frame
\* taken, no more and no less.
WalksWholeFrame ==
    \A h \in Handlers :
        pc[h] = "walk" /\ taken[h] # NoFrame => maxX[h] * maxY[h] = taken[h].points
=============================================================================
