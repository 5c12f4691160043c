---------------------------- MODULE WholeMessages ----------------------------
(***************************************************************************)
(* What the receiver of a byte stream promises, on either end of the       *)
(* serial line: it hands over announced messages, in the order of the      *)
(* stream, each at most once, only when all the bytes that it announces    *)
(* have arrived, and never gives one byte to two messages.  It may leave   *)
(* out messages.  SerialLink takes this for granted.                       *)
(***************************************************************************)
EXTENDS Naturals, Sequences

VARIABLES
    announced,      \* the messages of the stream, as spans of its bytes
    arrived,        \* bytes received so far
    handed          \* the spans handed over, in this order

Init == arrived = 0 /\ handed = <<>>

\* The end of the last message handed over.
Reached == IF handed = <<>> THEN 0 ELSE handed[Len(handed)].upto

HandOver ==
    \E m \in announced :
        /\ Reached =< m.from /\ m.upto =< arrived'
        /\ handed' = Append(handed, m)

Next ==
    /\ arrived' >= arrived
    /\ UNCHANGED announced
    /\ HandOver \/ UNCHANGED handed

Spec == Init /\ [][Next]_<<announced, arrived, handed>>
=============================================================================
