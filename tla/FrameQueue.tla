----------------------------- MODULE FrameQueue -----------------------------
(***************************************************************************)
(* What the frame buffer promises to the TCP clients, whichever threads    *)
(* share it: frames come out in the order in which they were scanned, each *)
(* at most once, and never more than Size of them wait.  Frames are        *)
(* numbered in the order of their arrival.                                 *)
(***************************************************************************)
EXTENDS Naturals, Sequences

CONSTANTS
    Size,      \* most frames that may wait
    Numbers    \* the numbers of frames, naturals

VARIABLES
    queue,     \* the frames that wait
    served     \* the frame handed out last, 0 if none was

QueueInit == queue = <<>> /\ served = 0

\* A new frame: newer than all that wait and all that were handed out.
Put(n) ==
    /\ Len(queue) < Size
    /\ n > served /\ \A i \in DOMAIN queue : n > queue[i]
    /\ queue' = Append(queue, n)
    /\ UNCHANGED served

\* The oldest frame is handed out.
Take ==
    /\ queue # <<>>
    /\ served' = Head(queue)
    /\ queue' = Tail(queue)

\* A scan ends or begins: what waits is dropped.
Clear == queue' = <<>> /\ UNCHANGED served

QueueNext == (\E n \in Numbers : Put(n)) \/ Take \/ Clear

QueueSpec == QueueInit /\ [][QueueNext]_<<queue, served>>
=============================================================================
