----------------------------- MODULE ByteStream -----------------------------
(***************************************************************************)
(* The bytes that one direction of the serial line delivers.  Only their   *)
(* positions matter: where a message header (preamble, length and command  *)
(* code) starts, and how many bytes the receiver waits for.  Bytes between *)
(* messages (the rest of a message whose beginning was missed, stale bytes *)
(* pushed by a failed read, the text that sets the bridge to data mode)    *)
(* carry no preamble; a message that was cut is followed early by another. *)
(***************************************************************************)
EXTENDS Naturals, Sequences

HEADER == 9             \* preamble, divider, length, zero, command code

Headers == [at : Nat, needs : Nat, known : BOOLEAN]

\* At least eight bytes of a header are on the line; if the next header follows
\* these, its first byte is taken for the command code, which nobody knows.
IsStream(s) ==
    /\ s.total \in Nat
    /\ s.messages \subseteq Headers
    /\ \A m \in s.messages : m.needs >= HEADER
    /\ \A m, n \in s.messages :
         /\ m.at < n.at => m.at + 8 =< n.at
         /\ m.at + 8 = n.at => ~m.known
         /\ m.at = n.at => m = n

Span(m) == [from |-> m.at, upto |-> m.at + m.needs]

Announced(s) == {Span(m) : m \in s.messages}

HeaderAt(s, p) == {m \in s.messages : m.at = p}

\* Another message starts before this one has got the bytes it announces.
IsCut(s, m) == \E n \in s.messages : m.at < n.at /\ n.at < m.at + m.needs

AllKnown(s) == \A m \in s.messages : m.known
=============================================================================
