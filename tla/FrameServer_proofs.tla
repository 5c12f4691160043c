-------------------------- MODULE FrameServer_proofs --------------------------
(***************************************************************************)
(* That the threads around the frame buffer implement the queue, for any   *)
(* number of handlers, any matrix sizes and any size of the buffer.        *)
(***************************************************************************)
EXTENDS FrameServer, SequenceTheorems, TLAPS

\* The handler whose place is in the critical section is the one that has the
\* lock.
LockHeld == \A h \in Handlers : Holds(h) <=> lock = h

\* What a handler in the critical section has taken is still the front.
TakenIsHead ==
    \A h \in Handlers :
        Holds(h) => taken[h] = IF buffer = <<>> THEN NoFrame ELSE Head(buffer)

\* The room that frameParser saw without the lock is still there.
RoomLeft == main = "push" => Len(buffer) < FRAME_BUFFER_SIZE

\* The last number that may be in the buffer: the frame about to be pushed is
\* newer.
Newest == IF main = "push" THEN arrived - 1 ELSE arrived

\* Numbers grow along the buffer, from the frame served last to the newest.
InOrder ==
    /\ served =< Newest
    /\ \A i \in DOMAIN buffer : served < buffer[i].id /\ buffer[i].id =< Newest
    /\ \A i, j \in DOMAIN buffer : i < j => buffer[i].id < buffer[j].id

ServerInv == ServerTypeOK /\ LockHeld /\ TakenIsHead /\ RoomLeft /\ InOrder

-----------------------------------------------------------------------------
(* Sequences of frames and of their numbers.                               *)

\* The elements of a sequence after push_back.
LEMMA AppendAt ==
    ASSUME NEW s \in Seq(Frames), NEW f \in Frames
    PROVE  /\ Append(s, f) \in Seq(Frames)
           /\ Append(s, f) # <<>>
           /\ Len(Append(s, f)) = Len(s) + 1
           /\ DOMAIN Append(s, f) = 1 .. Len(s) + 1
           /\ DOMAIN s = 1 .. Len(s)
           /\ \A i \in DOMAIN s : Append(s, f)[i] = s[i]
           /\ Append(s, f)[Len(s) + 1] = f
           /\ s # <<>> => Head(Append(s, f)) = Head(s)
  OBVIOUS

\* The elements of a sequence after pop_front.
LEMMA TailAt ==
    ASSUME NEW s \in Seq(Frames), s # <<>>
    PROVE  /\ Tail(s) \in Seq(Frames)
           /\ Len(s) \in Nat \ {0}
           /\ Len(Tail(s)) = Len(s) - 1
           /\ DOMAIN Tail(s) = 1 .. Len(s) - 1
           /\ DOMAIN s = 1 .. Len(s)
           /\ \A i \in DOMAIN Tail(s) : Tail(s)[i] = s[i + 1]
           /\ Head(s) = s[1] /\ Head(s) \in Frames
  OBVIOUS

\* The numbers of a sequence of frames are a sequence.
LEMMA IdsAt ==
    ASSUME NEW s \in Seq(Frames)
    PROVE  /\ Ids(s) \in Seq(Nat)
           /\ Len(Ids(s)) = Len(s)
           /\ DOMAIN Ids(s) = DOMAIN s
           /\ \A i \in DOMAIN s : Ids(s)[i] = s[i].id /\ s[i].id \in Nat
           /\ Ids(s) = <<>> <=> s = <<>>
  <1>1. DOMAIN s = 1 .. Len(s) /\ Len(s) \in Nat
    OBVIOUS
  <1>2. ASSUME NEW i \in 1 .. Len(s)
        PROVE  s[i].id \in Nat
    <2>1. s[i] \in Frames
      BY <1>1
    <2> QED
      BY <2>1 DEF Frames
  <1>3. Ids(s) = [i \in 1 .. Len(s) |-> s[i].id]
    BY <1>1 DEF Ids
  <1>4. Ids(s) \in Seq(Nat) /\ Len(Ids(s)) = Len(s)
    BY <1>1, <1>2, <1>3
  <1> QED
    BY <1>1, <1>2, <1>3, <1>4

\* Numbering goes with push_back ...
LEMMA IdsAppend ==
    ASSUME NEW s \in Seq(Frames), NEW f \in Frames
    PROVE  Ids(Append(s, f)) = Append(Ids(s), f.id)
  <1> DEFINE t == Append(s, f)
             u == Append(Ids(s), f.id)
  <1>1. t \in Seq(Frames) /\ f.id \in Nat /\ Len(t) = Len(s) + 1
        /\ DOMAIN t = 1 .. Len(s) + 1
    BY AppendAt DEF Frames
  <1>2. Ids(t) \in Seq(Nat) /\ Len(Ids(t)) = Len(t)
        /\ \A i \in DOMAIN t : Ids(t)[i] = t[i].id
    BY <1>1, IdsAt
  <1>3. Ids(s) \in Seq(Nat) /\ Len(Ids(s)) = Len(s)
        /\ \A i \in DOMAIN s : Ids(s)[i] = s[i].id
    BY IdsAt
  <1>4. u \in Seq(Nat) /\ Len(u) = Len(s) + 1
        /\ (\A i \in 1 .. Len(s) : u[i] = Ids(s)[i]) /\ u[Len(s) + 1] = f.id
    BY <1>1, <1>3
  <1> HIDE DEF t, u
  <1>5. ASSUME NEW i \in 1 .. Len(Ids(t))
        PROVE  Ids(t)[i] = u[i]
    <2>1. i \in 1 .. Len(s) + 1 /\ Ids(t)[i] = t[i].id
      BY <1>1, <1>2
    <2>2. CASE i = Len(s) + 1
      <3>1. t[i] = f
        BY <2>2, AppendAt DEF t
      <3> QED
        BY <2>1, <2>2, <3>1, <1>4
    <2>3. CASE i \in 1 .. Len(s)
      <3>1. t[i] = s[i] /\ i \in DOMAIN s
        BY <2>3, AppendAt DEF t
      <3> QED
        BY <2>1, <2>3, <3>1, <1>3, <1>4
    <2> QED
      BY <2>1, <2>2, <2>3
  <1>6. Len(Ids(t)) = Len(u)
    BY <1>1, <1>2, <1>4
  <1>7. Ids(t) = u
    BY <1>2, <1>4, <1>5, <1>6, SeqEqual
  <1> QED
    BY <1>7 DEF t, u

\* ... and with pop_front.
LEMMA IdsTail ==
    ASSUME NEW s \in Seq(Frames), s # <<>>
    PROVE  Ids(s) # <<>> /\ Ids(Tail(s)) = Tail(Ids(s)) /\ Head(Ids(s)) = Head(s).id
  <1> DEFINE t == Tail(s)
             u == Tail(Ids(s))
  <1>1. t \in Seq(Frames) /\ Len(s) \in Nat \ {0} /\ Len(t) = Len(s) - 1
        /\ DOMAIN t = 1 .. Len(s) - 1 /\ DOMAIN s = 1 .. Len(s)
        /\ (\A i \in DOMAIN t : t[i] = s[i + 1]) /\ Head(s) = s[1]
    BY TailAt
  <1>2. Ids(t) \in Seq(Nat) /\ Len(Ids(t)) = Len(t)
        /\ \A i \in DOMAIN t : Ids(t)[i] = t[i].id
    BY <1>1, IdsAt
  <1>3. Ids(s) \in Seq(Nat) /\ Len(Ids(s)) = Len(s) /\ Ids(s) # <<>>
        /\ \A i \in DOMAIN s : Ids(s)[i] = s[i].id
    BY IdsAt
  <1>4. u \in Seq(Nat) /\ Len(u) = Len(s) - 1
        /\ (\A i \in 1 .. Len(s) - 1 : u[i] = Ids(s)[i + 1])
        /\ Head(Ids(s)) = Ids(s)[1]
    BY <1>1, <1>3
  <1> HIDE DEF t, u
  <1>5. ASSUME NEW i \in 1 .. Len(Ids(t))
        PROVE  Ids(t)[i] = u[i]
    <2>1. i \in DOMAIN t /\ i \in 1 .. Len(s) - 1 /\ i + 1 \in DOMAIN s
      BY <1>1, <1>2
    <2> QED
      BY <2>1, <1>1, <1>2, <1>3, <1>4
  <1>6. Len(Ids(t)) = Len(u)
    BY <1>1, <1>2, <1>4
  <1>7. Ids(t) = u
    BY <1>2, <1>4, <1>5, <1>6, SeqEqual
  <1>8. Head(Ids(s)) = Head(s).id
    <2>1. 1 \in DOMAIN s
      BY <1>1
    <2> QED
      BY <2>1, <1>1, <1>3, <1>4
  <1> QED
    BY <1>3, <1>7, <1>8 DEF t, u

-----------------------------------------------------------------------------
(* The invariant.                                                          *)

LEMMA ServerInvInit == ServerInit => ServerInv
  <1> SUFFICES ASSUME ServerInit
               PROVE  ServerInv
    OBVIOUS
  <1>1. ServerTypeOK
    BY ServerAssumption
    DEF ServerInit, ServerTypeOK, Frames, NoFrame, Locked
  <1>2. LockHeld
    BY ServerAssumption DEF ServerInit, LockHeld, Holds, Locked
  <1>3. TakenIsHead /\ RoomLeft /\ InOrder
    BY DEF ServerInit, TakenIsHead, RoomLeft, InOrder, Newest, Holds, Locked
  <1> QED
    BY <1>1, <1>2, <1>3 DEF ServerInv

\* The main thread where it does not touch the buffer: no handler notices.
LEMMA MainAside ==
    ASSUME ServerInv,
           StartAnswered \/ WriteSizeX \/ WriteSizeY \/ StopAnswered \/ FrameArrives
    PROVE  ServerInv'
  <1>1. ServerTypeOK'
    <2>1. CASE StartAnswered \/ StopAnswered
      BY <2>1, ServerAssumption
      DEF ServerInv, ServerTypeOK, StartAnswered, StopAnswered, handlerVars
    <2>2. CASE WriteSizeX
      BY <2>2, ServerAssumption DEF ServerInv, ServerTypeOK, WriteSizeX, handlerVars
    <2>3. CASE WriteSizeY
      BY <2>3, ServerAssumption DEF ServerInv, ServerTypeOK, WriteSizeY, handlerVars
    <2>4. CASE FrameArrives
      <3>1. /\ main' \in {"push", "idle"} /\ arrived < MaxFrames /\ arrived' = arrived + 1
            /\ UNCHANGED <<incoming, sizeX, sizeY, pc, peer, taken, maxX, maxY, buffer, lock,
                          served>>
        BY <2>4 DEF FrameArrives, FrameGoes, handlerVars
      <3>2. arrived' \in 0 .. MaxFrames
        BY <3>1, ServerAssumption DEF ServerInv, ServerTypeOK
      <3> QED
        BY <3>1, <3>2 DEF ServerInv, ServerTypeOK
    <2> QED
      BY <2>1, <2>2, <2>3, <2>4
  <1>2. UNCHANGED <<buffer, lock, pc, taken, served>>
    BY DEF StartAnswered, WriteSizeX, WriteSizeY, StopAnswered, FrameArrives, handlerVars
  <1>3. LockHeld' /\ TakenIsHead'
    BY <1>2 DEF ServerInv, LockHeld, TakenIsHead, Holds
  <1>4. RoomLeft'
    BY <1>2 DEF ServerInv, RoomLeft, StartAnswered, WriteSizeX, WriteSizeY, StopAnswered,
        FrameArrives, FrameGoes
  <1>5. Newest \in Int /\ Newest' \in Int /\ Newest =< Newest'
    BY DEF ServerInv, ServerTypeOK, Newest, StartAnswered, WriteSizeX, WriteSizeY,
        StopAnswered, FrameArrives, FrameGoes
  <1>6. \A i \in DOMAIN buffer : buffer[i].id \in Nat
    BY IdsAt DEF ServerInv, ServerTypeOK
  <1>7. InOrder'
    BY <1>2, <1>5, <1>6 DEF ServerInv, ServerTypeOK, InOrder
  <1> QED
    BY <1>1, <1>3, <1>4, <1>7 DEF ServerInv

\* clearFrameBuffer waits for the lock, so nobody has taken a frame.
LEMMA ClearOK ==
    ASSUME ServerInv, clearFrameBuffer
    PROVE  ServerInv'
  <1>1. ServerTypeOK'
    BY ServerAssumption
    DEF ServerInv, ServerTypeOK, clearFrameBuffer, AfterClear, handlerVars
  <1>2. UNCHANGED <<lock, pc, taken>> /\ lock = Free /\ buffer' = <<>> /\ main' # "push"
    BY DEF clearFrameBuffer, AfterClear, handlerVars
  <1>3. LockHeld' /\ TakenIsHead'
    BY <1>2, ServerAssumption DEF ServerInv, LockHeld, TakenIsHead, Holds
  <1>4. RoomLeft' /\ InOrder'
    BY <1>2 DEF ServerInv, ServerTypeOK, RoomLeft, InOrder, Newest, clearFrameBuffer
  <1> QED
    BY <1>1, <1>3, <1>4 DEF ServerInv

\* The frame pushed is newer than all that wait.
LEMMA PushOK ==
    ASSUME ServerInv, PushFrame
    PROVE  ServerInv'
  <1> DEFINE f == [id |-> arrived, points |-> sizeX * sizeY]
  <1>1. f \in Frames /\ buffer \in Seq(Frames) /\ buffer' = Append(buffer, f)
        /\ f.id = arrived /\ Len(buffer) < FRAME_BUFFER_SIZE
    BY DEF ServerInv, ServerTypeOK, RoomLeft, PushFrame, Frames
  <1> HIDE DEF f
  <1>2. /\ UNCHANGED <<incoming, sizeX, sizeY, arrived, pc, peer, taken, maxX, maxY, lock, served>>
        /\ lock = Free /\ main = "push" /\ main' = "idle"
    BY DEF PushFrame, handlerVars
  <1>3. ServerTypeOK'
    BY <1>1, <1>2, AppendAt, ServerAssumption DEF ServerInv, ServerTypeOK
  <1>4. LockHeld' /\ TakenIsHead' /\ RoomLeft'
    BY <1>2, ServerAssumption DEF ServerInv, LockHeld, TakenIsHead, RoomLeft, Holds
  <1>5. InOrder'
    <2>1. arrived \in Nat /\ served \in Nat /\ Newest = arrived - 1 /\ Newest' = arrived
          /\ \A i \in DOMAIN buffer : buffer[i].id \in Nat
      BY <1>1, <1>2, IdsAt DEF ServerInv, ServerTypeOK, Newest
    <2>2. /\ DOMAIN buffer' = 1 .. Len(buffer) + 1 /\ DOMAIN buffer = 1 .. Len(buffer)
          /\ \A i \in DOMAIN buffer : buffer'[i] = buffer[i]
          /\ buffer'[Len(buffer) + 1].id = arrived /\ Len(buffer) \in Nat
      BY <1>1, AppendAt
    <2> QED
      BY <1>2, <2>1, <2>2 DEF ServerInv, InOrder
  <1> QED
    BY <1>3, <1>4, <1>5 DEF ServerInv

\* A handler outside the critical section.
LEMMA HandlerAside ==
    ASSUME ServerInv, NEW h \in Handlers,
           Connect(h) \/ PeerActs(h) \/ Receive(h) \/ TestEmpty(h) \/ SendAnswer(h)
    PROVE  ServerInv'
  <1>1. ServerTypeOK'
    BY DEF ServerInv, ServerTypeOK, Connect, PeerActs, Receive, TestEmpty, SendAnswer, Goto,
        mainVars
  <1>2. /\ UNCHANGED <<main, arrived, buffer, lock, taken, served>>
        /\ \A g \in Handlers : Holds(g)' = Holds(g)
    BY DEF ServerInv, ServerTypeOK, Connect, PeerActs, Receive, TestEmpty, SendAnswer, Goto,
        mainVars, Holds, Locked
  <1>3. LockHeld' /\ TakenIsHead'
    BY <1>2 DEF ServerInv, LockHeld, TakenIsHead
  <1>4. RoomLeft' /\ InOrder'
    BY <1>2 DEF ServerInv, RoomLeft, InOrder, Newest
  <1> QED
    BY <1>1, <1>3, <1>4 DEF ServerInv

\* Entering the critical section: the front of the buffer is taken.
LEMMA TakeOK ==
    ASSUME ServerInv, NEW h \in Handlers, TakeFrame(h)
    PROVE  ServerInv'
  <1>1. buffer # <<>> => Head(buffer) \in Frames
    BY TailAt DEF ServerInv, ServerTypeOK
  <1>2. ServerTypeOK'
    <2>1. NoFrame \in Frames
      BY DEF NoFrame, Frames
    <2>2. /\ taken' = [taken EXCEPT ![h] = IF buffer = <<>> THEN NoFrame ELSE Head(buffer)]
          /\ pc' = [pc EXCEPT ![h] = IF buffer = <<>> THEN "walk" ELSE "sizeX"]
          /\ lock' = h
          /\ UNCHANGED <<main, incoming, sizeX, sizeY, arrived, buffer, peer, maxX, maxY, served>>
      BY DEF TakeFrame, TakeHead, Goto, mainVars
    <2> QED
      BY <1>1, <2>1, <2>2 DEF ServerInv, ServerTypeOK, Locked
  <1>3. UNCHANGED <<main, arrived, buffer, served>>
    BY DEF TakeFrame, mainVars
  <1>4. /\ lock = Free /\ lock' = h /\ pc'[h] \in Locked
        /\ \A g \in Handlers \ {h} : pc'[g] = pc[g]
    BY DEF ServerInv, ServerTypeOK, TakeFrame, TakeHead, Goto, Locked
  <1>5. LockHeld'
    BY <1>4, ServerAssumption DEF ServerInv, LockHeld, Holds
  <1>6. TakenIsHead'
    <2>1. taken'[h] = IF buffer = <<>> THEN NoFrame ELSE Head(buffer)
      BY DEF ServerInv, ServerTypeOK, TakeFrame, TakeHead
    <2> QED
      BY <1>3, <1>4, <1>5, <2>1 DEF LockHeld, TakenIsHead
  <1>7. RoomLeft' /\ InOrder'
    BY <1>3 DEF ServerInv, RoomLeft, InOrder, Newest
  <1> QED
    BY <1>2, <1>5, <1>6, <1>7 DEF ServerInv

\* Inside the critical section the sizes are read; the buffer stays.
LEMMA ReadSizeOK ==
    ASSUME ServerInv, NEW h \in Handlers, ReadSizeX(h) \/ ReadSizeY(h)
    PROVE  ServerInv'
  <1>1. ServerTypeOK'
    BY DEF ServerInv, ServerTypeOK, ReadSizeX, ReadSizeY, Goto, mainVars, Locked
  <1>2. /\ UNCHANGED <<main, arrived, buffer, lock, taken, served>>
        /\ \A g \in Handlers : Holds(g)' = Holds(g)
    BY DEF ServerInv, ServerTypeOK, ReadSizeX, ReadSizeY, Goto, mainVars, Holds, Locked
  <1>3. LockHeld' /\ TakenIsHead'
    BY <1>2 DEF ServerInv, LockHeld, TakenIsHead
  <1>4. RoomLeft' /\ InOrder'
    BY <1>2 DEF ServerInv, RoomLeft, InOrder, Newest
  <1> QED
    BY <1>1, <1>3, <1>4 DEF ServerInv

\* Leaving the critical section: what was taken is what goes.
LEMMA PopOK ==
    ASSUME ServerInv, NEW h \in Handlers, PopFrame(h)
    PROVE  ServerInv'
  <1>1. /\ UNCHANGED <<main, incoming, sizeX, sizeY, arrived, peer, taken, maxX, maxY>>
        /\ lock' = Free /\ pc' = [pc EXCEPT ![h] = "send"] /\ Holds(h)
        /\ buffer \in Seq(Frames) /\ buffer' = IF buffer = <<>> THEN <<>> ELSE Tail(buffer)
        /\ served' = IF buffer = <<>> THEN served ELSE Head(buffer).id
    BY DEF ServerInv, ServerTypeOK, TakenIsHead, PopFrame, Goto, mainVars, Holds, Locked
  <1>2. /\ buffer' \in Seq(Frames) /\ Len(buffer') \in Nat /\ Len(buffer') =< Len(buffer)
        /\ served' \in Nat
    BY <1>1, TailAt DEF ServerInv, ServerTypeOK, Frames
  <1>3. ServerTypeOK'
    BY <1>1, <1>2, ServerAssumption DEF ServerInv, ServerTypeOK
  <1>4. \A g \in Handlers : ~Holds(g)'
    BY <1>1 DEF ServerInv, ServerTypeOK, LockHeld, Holds, Locked
  <1>5. LockHeld' /\ TakenIsHead'
    BY <1>1, <1>4, ServerAssumption DEF LockHeld, TakenIsHead
  <1>6. RoomLeft'
    BY <1>1, <1>2, ServerAssumption DEF ServerInv, ServerTypeOK, RoomLeft
  <1>7. InOrder'
    <2>1. CASE buffer = <<>>
      BY <1>1, <2>1 DEF ServerInv, InOrder, Newest
    <2>2. CASE buffer # <<>>
      <3>1. /\ DOMAIN buffer' = 1 .. Len(buffer) - 1 /\ DOMAIN buffer = 1 .. Len(buffer)
            /\ \A i \in DOMAIN buffer' : buffer'[i] = buffer[i + 1]
            /\ served' = buffer[1].id /\ Len(buffer) \in Nat \ {0}
        BY <1>1, <2>2, TailAt
      <3>2. Newest' = Newest
        BY <1>1 DEF Newest
      <3> QED
        BY <3>1, <3>2 DEF ServerInv, InOrder
    <2> QED
      BY <2>1, <2>2
  <1> QED
    BY <1>3, <1>5, <1>6, <1>7 DEF ServerInv

\* Every step of the threads keeps the invariant.
LEMMA ServerInvNext == ServerInv /\ [ServerNext]_serverVars => ServerInv'
  <1> SUFFICES ASSUME ServerInv, [ServerNext]_serverVars
               PROVE  ServerInv'
    OBVIOUS
  <1>1. CASE StartAnswered \/ WriteSizeX \/ WriteSizeY \/ StopAnswered \/ FrameArrives
    BY <1>1, MainAside
  <1>2. CASE clearFrameBuffer
    BY <1>2, ClearOK
  <1>3. CASE PushFrame
    BY <1>3, PushOK
  <1>4. ASSUME NEW h \in Handlers,
               Connect(h) \/ PeerActs(h) \/ Receive(h) \/ TestEmpty(h) \/ SendAnswer(h)
        PROVE  ServerInv'
    BY <1>4, HandlerAside
  <1>5. ASSUME NEW h \in Handlers, TakeFrame(h)
        PROVE  ServerInv'
    BY <1>5, TakeOK
  <1>6. ASSUME NEW h \in Handlers, ReadSizeX(h) \/ ReadSizeY(h)
        PROVE  ServerInv'
    BY <1>6, ReadSizeOK
  <1>7. ASSUME NEW h \in Handlers, PopFrame(h)
        PROVE  ServerInv'
    BY <1>7, PopOK
  <1>8. CASE UNCHANGED serverVars
    BY <1>8 DEF serverVars, mainVars, handlerVars, ServerInv, ServerTypeOK, LockHeld, TakenIsHead,
        RoomLeft, InOrder, Newest, Holds
  <1> QED
    BY <1>1, <1>2, <1>3, <1>4, <1>5, <1>6, <1>7, <1>8 DEF ServerNext, Main, Handle

LEMMA ServerInvariant == ServerSpec => []ServerInv
  BY ServerInvInit, ServerInvNext, PTL DEF ServerSpec

-----------------------------------------------------------------------------
(* Steps that change the buffer are steps of the queue.                    *)

LEMMA PushIsPut ==
    ASSUME ServerInv, PushFrame
    PROVE  \E n \in 1 .. MaxFrames : Queue!Put(n)
  <1> DEFINE f == [id |-> arrived, points |-> sizeX * sizeY]
  <1>1. f \in Frames /\ buffer \in Seq(Frames) /\ buffer' = Append(buffer, f)
        /\ f.id = arrived /\ served' = served /\ Len(buffer) < FRAME_BUFFER_SIZE
    BY DEF ServerInv, ServerTypeOK, RoomLeft, PushFrame, Frames
  <1> HIDE DEF f
  <1>2. Ids(buffer') = Append(Ids(buffer), arrived)
    BY <1>1, IdsAppend
  <1>3. Newest = arrived - 1 /\ arrived \in 0 .. MaxFrames /\ served \in Nat
    BY DEF ServerInv, ServerTypeOK, Newest, PushFrame
  <1>4. \A i \in DOMAIN buffer : buffer[i].id \in Nat /\ buffer[i].id =< arrived - 1
    BY <1>1, <1>3, IdsAt DEF ServerInv, InOrder
  <1>5. Len(Ids(buffer)) < FRAME_BUFFER_SIZE
    BY <1>1, IdsAt
  <1>6. arrived > served /\ \A i \in DOMAIN Ids(buffer) : arrived > Ids(buffer)[i]
    <2>1. arrived > served
      BY <1>3 DEF ServerInv, InOrder
    <2>2. DOMAIN Ids(buffer) = DOMAIN buffer
          /\ \A i \in DOMAIN buffer : Ids(buffer)[i] = buffer[i].id
      BY <1>1, IdsAt
    <2> QED
      BY <1>3, <1>4, <2>1, <2>2
  <1>7. arrived \in 1 .. MaxFrames
    BY <1>3, <1>6, ServerAssumption
  <1>8. Queue!Put(arrived)
    BY <1>1, <1>2, <1>5, <1>6 DEF Queue!Put
  <1> QED
    BY <1>7, <1>8

LEMMA PopIsTake ==
    ASSUME ServerInv, NEW h \in Handlers, PopFrame(h)
    PROVE  Queue!Take \/ UNCHANGED <<Ids(buffer), served>>
  <1>1. CASE buffer = <<>>
    BY <1>1 DEF PopFrame
  <1>2. CASE buffer # <<>>
    <2>1. buffer \in Seq(Frames) /\ buffer' = Tail(buffer) /\ served' = Head(buffer).id
      BY <1>2 DEF ServerInv, ServerTypeOK, TakenIsHead, PopFrame, Holds, Locked
    <2>2. Ids(buffer) # <<>> /\ Ids(buffer') = Tail(Ids(buffer)) /\ served' = Head(Ids(buffer))
      BY <1>2, <2>1, IdsTail
    <2> QED
      BY <2>2 DEF Queue!Take
  <1> QED
    BY <1>1, <1>2

-----------------------------------------------------------------------------
(* The theorems.                                                           *)

\* All variables have their types and the buffer (push_back in frameParser,
\* which tests the size without the lock) never outgrows FRAME_BUFFER_SIZE.
THEOREM ServerTypeCorrect == ServerSpec => []ServerTypeOK
  <1>1. ServerInv => ServerTypeOK
    BY DEF ServerInv
  <1> QED
    BY <1>1, ServerInvariant, PTL

\* The frame that prepareData walks is not freed or replaced under it.
THEOREM ServerWalkedFrameStays == ServerSpec => []WalkedFrameStays
  <1>1. ServerInv => WalkedFrameStays
    BY DEF ServerInv, TakenIsHead, WalkedFrameStays
  <1> QED
    BY <1>1, ServerInvariant, PTL

\* Frames are handed out in the order in which they came, each at most once:
\* the buffer under its threads implements the queue of FrameQueue.
THEOREM ServerImplementsQueue == ServerSpec => ImplementsQueue
  <1>1. ServerInit => Queue!QueueInit
    BY DEF ServerInit, Queue!QueueInit, Ids
  <1>2. ServerInv /\ [ServerNext]_serverVars
        => [Queue!QueueNext]_<<Ids(buffer), served>>
    <2> SUFFICES ASSUME ServerInv, [ServerNext]_serverVars
                 PROVE  [Queue!QueueNext]_<<Ids(buffer), served>>
      OBVIOUS
    <2>1. CASE UNCHANGED <<buffer, served>>
      BY <2>1 DEF Ids
    <2>2. CASE clearFrameBuffer
      BY <2>2 DEF clearFrameBuffer, Ids, Queue!QueueNext, Queue!Clear
    <2>3. CASE PushFrame
      BY <2>3, PushIsPut DEF Queue!QueueNext
    <2>4. ASSUME NEW h \in Handlers, PopFrame(h)
          PROVE  [Queue!QueueNext]_<<Ids(buffer), served>>
      BY <2>4, PopIsTake DEF Queue!QueueNext
    <2>5. CASE StartAnswered \/ WriteSizeX \/ WriteSizeY \/ StopAnswered \/ FrameArrives
      BY <2>1, <2>5 DEF StartAnswered, WriteSizeX, WriteSizeY, StopAnswered, FrameArrives
    <2>6. ASSUME NEW h \in Handlers,
                 \/ Connect(h) \/ PeerActs(h) \/ Receive(h) \/ TestEmpty(h) \/ SendAnswer(h)
                 \/ TakeFrame(h) \/ ReadSizeX(h) \/ ReadSizeY(h)
          PROVE  [Queue!QueueNext]_<<Ids(buffer), served>>
      BY <2>1, <2>6 DEF Connect, PeerActs, Receive, TestEmpty, SendAnswer, TakeFrame, ReadSizeX,
        ReadSizeY
    <2>7. CASE UNCHANGED serverVars
      BY <2>1, <2>7 DEF serverVars
    <2> QED
      BY <2>2, <2>3, <2>4, <2>5, <2>6, <2>7 DEF ServerNext, Main, Handle
  <1> QED
    BY <1>1, <1>2, ServerInvariant, PTL DEF ServerSpec, ImplementsQueue, Queue!QueueSpec

=============================================================================
