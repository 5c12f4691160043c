---------------------------- MODULE StreamParser ----------------------------
(***************************************************************************)
(* The bytes behind the client's answers: readData, dataParser,            *)
(* checkPreamble, findSecondPreamble and the framing of answerParser in    *)
(* ConsoleClient/Project/Source/application.cpp.  m_pInputBuffer always    *)
(* holds the bytes from "front" to "received" of the stream.               *)
(***************************************************************************)
EXTENDS ByteStream

CONSTANTS
    AnswerStreams,          \* the streams that the client may read
    USB_PART_BUFFER_SIZE    \* bytes that one readData takes at most

ASSUME ParserAssumption ==
    /\ \A s \in AnswerStreams : IsStream(s)
    /\ USB_PART_BUFFER_SIZE \in Nat \ {0}

VARIABLES
    answers,        \* the stream of this behaviour
    received,       \* bytes pushed into the input buffer so far
    front,          \* position of the first byte of the input buffer
    got             \* the answers handled, as spans of bytes

parserVars == <<answers, received, front, got>>

ParserInit ==
    /\ answers \in AnswerStreams
    /\ received = 0 /\ front = 0
    /\ got = <<>>

\* Mutant of checkPreamble: it asks for one byte more than a header has.
checkPreambleLate(p, a) == {m \in HeaderAt(answers, p) : p + HEADER + 1 =< a}

\* checkPreamble at position p when a bytes have arrived: the header it finds.
checkPreamble(p, a) == {m \in HeaderAt(answers, p) : p + HEADER =< a}

\* Where the loop of dataParser stops dropping bytes.  It drops them from seven
\* on, although it cannot recognise a header before nine.
ResyncStops(p, a) == a < p + 7 \/ checkPreamble(p, a) # {}

\* Mutant of findSecondPreamble: nothing is found.
findNoPreamble(p, a) == {}

\* findSecondPreamble: the first preamble behind the header at p, if there is
\* one; the search leaves out the last four bytes.
findSecondPreamble(p, a) ==
    LET found == {q \in (p + 7) .. a : q + 4 < a /\ HeaderAt(answers, q) # {}}
    IN  {q \in found : \A r \in found : q =< r}

\* Mutant of AnswerComplete: the seven bytes before the data are not counted.
AnswerShort(m, a) == m.at + m.needs - 7 =< a

\* l_pData->size() >= l_dataLength + 7
AnswerComplete(m, a) == m.at + m.needs =< a

\* answerParser with the header m in front: the answer is handled and removed,
\* unless its code is unknown; one that is not complete is given up when
\* another preamble follows.
ParseAnswer(m) ==
    \/ /\ ~AnswerComplete(m, received')
       /\ \/ front' \in findSecondPreamble(m.at, received')
          \/ findSecondPreamble(m.at, received') = {} /\ front' = m.at
       /\ UNCHANGED got
    \/ /\ AnswerComplete(m, received') /\ m.known
       /\ got' = Append(got, Span(m))
       /\ front' = m.at + m.needs
    \/ /\ AnswerComplete(m, received') /\ ~m.known
       /\ front' = m.at
       /\ UNCHANGED got

\* dataParser: drop bytes up to a header, then parse at most one answer.
dataParser ==
    \E p \in front .. received' :
        /\ ResyncStops(p, received')
        /\ \A q \in front .. (p - 1) : ~ResyncStops(q, received')
        /\ \/ checkPreamble(p, received') = {} /\ front' = p /\ UNCHANGED got
           \/ \E m \in checkPreamble(p, received') : ParseAnswer(m)

\* One iteration of the main loop, as far as its input goes.
ReadAndParse ==
    /\ \E n \in 0 .. USB_PART_BUFFER_SIZE :
         /\ received + n =< answers.total
         /\ received' = received + n
    /\ dataParser
    /\ UNCHANGED answers

ParserSpec == ParserInit /\ [][ReadAndParse]_parserVars /\ WF_parserVars(ReadAndParse)

-----------------------------------------------------------------------------
(* Properties.                                                             *)

\* The buffer is a piece of what has arrived, and it starts behind the answers
\* handled so far.
ParserInv ==
    /\ IsStream(answers)
    /\ received \in Nat /\ front \in Nat
    /\ front =< received /\ received =< answers.total
    /\ got \in Seq(Announced(answers))
    /\ got # <<>> => got[Len(got)].upto =< front

ParserChannel == INSTANCE WholeMessages
             WITH announced <- Announced(answers), arrived <- received, handed <- got

\* However the reads cut the stream and whatever was lost before it, the client
\* handles answers in order, each once and with all its bytes.
ParserHandsOverWhole == ParserChannel!Spec

\* The answer m is left out for a reason: it is cut, an answer cut before it
\* takes its first bytes, or a call of the parser saw exactly seven or eight
\* bytes of it.
Excused(m) ==
    \/ IsCut(answers, m)
    \/ \E c \in answers.messages :
         got' = Append(got, Span(c)) /\ c.at < m.at /\ m.at < c.at + c.needs
    \/ received' \in {m.at + 7, m.at + 8}

\* No answer is passed over without being handled, but for these reasons.
NoAnswerLost ==
    [][\A m \in answers.messages :
         front =< m.at /\ m.at < front' => got' = Append(got, Span(m)) \/ Excused(m)]_parserVars

\* An answer of which all bytes are there is in the buffer.
Pending ==
    \E m \in answers.messages : front =< m.at /\ AnswerComplete(m, received)

\* The parser does not come to rest in front of a complete answer, unless it has
\* met a code that it does not know.
AnswersGetHandled == []<>(AllKnown(answers) => ~Pending)
=============================================================================
