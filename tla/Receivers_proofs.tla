-------------------------- MODULE Receivers_proofs --------------------------
(***************************************************************************)
(* Both receivers of the serial line implement WholeMessages, for every    *)
(* set of streams, every way of cutting them into reads and every size of  *)
(* the buffers; the board's buffer is never too small for them.            *)
(***************************************************************************)
EXTENDS StreamParser, BoardReceiver, SequenceTheorems, TLAPS

\* Every message of a stream is announced by its span.
LEMMA SpanAnnounced ==
    ASSUME NEW s, NEW m \in s.messages
    PROVE  Span(m) \in Announced(s)
BY DEF Announced

\* The positions of a header, and the bytes it announces, are numbers.
LEMMA HeaderNumbers ==
    ASSUME NEW s, IsStream(s), NEW m \in s.messages
    PROVE  /\ m.at \in Nat /\ m.needs \in Nat /\ m.needs >= 9
           /\ m.known \in BOOLEAN
           /\ Span(m).from = m.at /\ Span(m).upto = m.at + m.needs
BY DEF IsStream, Headers, HEADER, Span

\* The last element of a sequence is the one just appended.
LEMMA AppendLast ==
    ASSUME NEW S, NEW q \in Seq(S), NEW x \in S
    PROVE  /\ Append(q, x) \in Seq(S)
           /\ Append(q, x) # <<>>
           /\ Append(q, x)[Len(Append(q, x))] = x
BY AppendProperties

-----------------------------------------------------------------------------
(* The client's parser.                                                    *)

\* What a call of dataParser does with the front of the buffer: it drops bytes
\* and hands over nothing, or it hands over a complete answer found further on
\* and removes exactly its bytes.
LEMMA ParserStep ==
    ASSUME ParserInv, ReadAndParse
    PROVE  /\ received' \in Nat /\ received =< received' /\ received' =< answers.total
           /\ answers' = answers
           /\ \/ /\ got' = got
                 /\ front' \in Nat /\ front =< front' /\ front' =< received'
              \/ \E m \in answers.messages :
                    /\ front =< m.at /\ m.at + m.needs =< received'
                    /\ got' = Append(got, Span(m))
                    /\ front' = m.at + m.needs
<1>1. IsStream(answers)
  BY DEF ParserInv
<1>2. received' \in Nat /\ received =< received' /\ received' =< answers.total
  BY <1>1, ParserAssumption DEF ParserInv, ReadAndParse, IsStream
<1>3. PICK p \in front .. received' :
         \/ checkPreamble(p, received') = {} /\ front' = p /\ UNCHANGED got
         \/ \E m \in checkPreamble(p, received') : ParseAnswer(m)
  BY DEF ReadAndParse, dataParser
<1>4. p \in Nat /\ front =< p /\ p =< received'
  BY <1>2 DEF ParserInv
<1>5. CASE checkPreamble(p, received') = {} /\ front' = p /\ UNCHANGED got
  BY <1>2, <1>4, <1>5 DEF ReadAndParse
<1>6. ASSUME NEW m \in checkPreamble(p, received'), ParseAnswer(m)
      PROVE  \/ /\ got' = got
                /\ front' \in Nat /\ front =< front' /\ front' =< received'
             \/ /\ front =< m.at /\ m.at + m.needs =< received'
                /\ got' = Append(got, Span(m))
                /\ front' = m.at + m.needs
  <2>1. m \in answers.messages /\ m.at = p
    BY DEF checkPreamble, HeaderAt
  <2>2. \A q \in findSecondPreamble(m.at, received') : q \in Nat /\ p =< q /\ q =< received'
    BY <2>1, <1>2, <1>4 DEF findSecondPreamble
  <2>3. CASE ~AnswerComplete(m, received')
    <3>1. got' = got /\ (front' \in findSecondPreamble(m.at, received') \/ front' = m.at)
      BY <2>3, <1>6 DEF ParseAnswer
    <3>2. front' \in Nat /\ p =< front' /\ front' =< received'
      BY <3>1, <2>1, <2>2, <1>4
    <3> QED
      BY <3>1, <3>2, <1>2, <1>4 DEF ParserInv
  <2>4. CASE AnswerComplete(m, received')
    <3>1. \/ got' = Append(got, Span(m)) /\ front' = m.at + m.needs
          \/ got' = got /\ front' = m.at
      BY <2>4, <1>6 DEF ParseAnswer
    <3> QED
      BY <3>1, <2>1, <2>4, <1>4 DEF AnswerComplete
  <2> QED
    BY <2>3, <2>4
<1> QED
  <2>1. answers' = answers
    BY DEF ReadAndParse
  <2>2. \A m \in checkPreamble(p, received') : m \in answers.messages
    BY DEF checkPreamble, HeaderAt
  <2> QED
    BY <1>2, <1>3, <1>5, <1>6, <2>1, <2>2

LEMMA ParserInvInit == ParserInit => ParserInv
<1> SUFFICES ASSUME ParserInit PROVE ParserInv
  OBVIOUS
<1>1. IsStream(answers)
  BY ParserAssumption DEF ParserInit
<1> QED
  BY <1>1 DEF ParserInit, ParserInv, IsStream

LEMMA ParserInvNext == ParserInv /\ [ReadAndParse]_parserVars => ParserInv'
<1> SUFFICES ASSUME ParserInv, [ReadAndParse]_parserVars PROVE ParserInv'
  OBVIOUS
<1>1. CASE ReadAndParse
  <2>1. /\ received' \in Nat /\ received' =< answers.total /\ answers' = answers
        /\ \/ /\ got' = got
              /\ front' \in Nat /\ front =< front' /\ front' =< received'
           \/ \E m \in answers.messages :
                 /\ front =< m.at /\ m.at + m.needs =< received'
                 /\ got' = Append(got, Span(m))
                 /\ front' = m.at + m.needs
    BY <1>1, ParserStep
  <2>2. CASE got' = got /\ front' \in Nat /\ front =< front' /\ front' =< received'
    <3>1. got # <<>> => got[Len(got)].upto =< front'
      <4>1. got # <<>> => got[Len(got)] \in Announced(answers)
        BY DEF ParserInv
      <4>2. IsStream(answers)
        BY DEF ParserInv
      <4>3. got # <<>> => got[Len(got)].upto \in Nat
        BY <4>1, <4>2, HeaderNumbers DEF Announced
      <4> QED
        BY <4>3, <2>2 DEF ParserInv
    <3> QED
      BY <2>1, <2>2, <3>1 DEF ParserInv
  <2>3. ASSUME NEW m \in answers.messages,
               front =< m.at, m.at + m.needs =< received',
               got' = Append(got, Span(m)), front' = m.at + m.needs
        PROVE  ParserInv'
    <3>1. IsStream(answers)
      BY DEF ParserInv
    <3>2. front' \in Nat /\ front' = Span(m).upto
      BY <2>3, <3>1, HeaderNumbers
    <3>3. got' \in Seq(Announced(answers)) /\ got'[Len(got')] = Span(m)
      BY <2>3, SpanAnnounced, AppendLast DEF ParserInv
    <3> QED
      BY <2>1, <2>3, <3>2, <3>3 DEF ParserInv
  <2> QED
    BY <2>1, <2>2, <2>3
<1>2. CASE UNCHANGED parserVars
  BY <1>2 DEF parserVars, ParserInv
<1> QED
  BY <1>1, <1>2

\* The input buffer is always the end of what has received, behind the answers
\* that were handled.
THEOREM ParserInvariant == ParserSpec => []ParserInv
BY ParserInvInit, ParserInvNext, PTL DEF ParserSpec

\* Answers are handled in order, each once and complete, for every stream and
\* every way in which reads cut it.
THEOREM ParserImplements == ParserSpec => ParserHandsOverWhole
<1>1. ParserInit => ParserChannel!Init
  BY DEF ParserInit, ParserChannel!Init
<1>2. ParserInv /\ [ReadAndParse]_parserVars
        => [ParserChannel!Next]_<<Announced(answers), received, got>>
  <2> SUFFICES ASSUME ParserInv, [ReadAndParse]_parserVars,
                      ~UNCHANGED <<Announced(answers), received, got>>
               PROVE  ParserChannel!Next
    OBVIOUS
  <2>1. ReadAndParse
    BY DEF parserVars
  <2>2. received' >= received /\ answers' = answers
    BY <2>1, ParserStep DEF ParserInv
  <2>3. got' = got \/ ParserChannel!HandOver
    <3> SUFFICES ASSUME got' # got PROVE ParserChannel!HandOver
      OBVIOUS
    <3>1. PICK m \in answers.messages :
             /\ front =< m.at /\ m.at + m.needs =< received'
             /\ got' = Append(got, Span(m))
      BY <2>1, ParserStep
    <3>2. IsStream(answers)
      BY DEF ParserInv
    <3>3. Span(m).from = m.at /\ Span(m).upto = m.at + m.needs /\ m.at \in Nat
      BY <3>2, HeaderNumbers
    <3>4. got # <<>> => got[Len(got)].upto \in Nat
      BY <3>2, HeaderNumbers DEF ParserInv, Announced
    <3>5. ParserChannel!Reached =< m.at
      BY <3>1, <3>3, <3>4 DEF ParserInv, ParserChannel!Reached
    <3> QED
      BY <3>1, <3>3, <3>5, SpanAnnounced DEF ParserChannel!HandOver
  <2> QED
    BY <2>2, <2>3 DEF ParserChannel!Next
<1> QED
  BY <1>1, <1>2, ParserInvariant, PTL DEF ParserSpec, ParserHandsOverWhole, ParserChannel!Spec

\* An answer is passed over without being handled only if it is cut, if one cut
\* before it took its first bytes, or if a call of the parser saw exactly seven
\* or eight bytes of it: for every stream and every sequence of reads.
THEOREM ParserLosesNoAnswer == ParserSpec => NoAnswerLost
<1>1. ParserInv /\ [ReadAndParse]_parserVars =>
        [\A m \in answers.messages :
           front =< m.at /\ m.at < front' => got' = Append(got, Span(m)) \/ Excused(m)]_parserVars
  <2> SUFFICES ASSUME ParserInv, ReadAndParse, NEW m \in answers.messages,
                      front =< m.at, m.at < front', ~Excused(m)
               PROVE  got' = Append(got, Span(m))
    BY DEF parserVars
  <2>1. IsStream(answers)
    BY DEF ParserInv
  <2>2. received' \in Nat /\ front \in Nat
    BY ParserStep DEF ParserInv
  <2>3. m.at \in Nat /\ m.needs \in Nat
    BY <2>1, HeaderNumbers
  <2>4. PICK p \in front .. received' :
           /\ \A q \in front .. (p - 1) : ~ResyncStops(q, received')
           /\ \/ checkPreamble(p, received') = {} /\ front' = p
              \/ \E h \in checkPreamble(p, received') : ParseAnswer(h)
    BY DEF ReadAndParse, dataParser
  <2>5. p \in Nat
    BY <2>2, <2>4
  <2>6. p =< m.at
    <3> SUFFICES ASSUME m.at < p PROVE FALSE
      BY <2>3, <2>5
    <3>1. ~ResyncStops(m.at, received')
      BY <2>2, <2>3, <2>4, <2>5
    <3>2. m.at + 7 =< received'
      BY <3>1, <2>2, <2>3 DEF ResyncStops
    <3>3. ~(m.at + 9 =< received')
      BY <3>1 DEF ResyncStops, checkPreamble, HeaderAt, HEADER
    <3>4. received' = m.at + 7 \/ received' = m.at + 8
      BY <3>2, <3>3, <2>2, <2>3
    <3> QED
      BY <3>4 DEF Excused
  <2>7. PICK h \in checkPreamble(p, received') : ParseAnswer(h)
    BY <2>3, <2>4, <2>5, <2>6
  <2>8. h \in answers.messages /\ h.at = p /\ h.needs \in Nat /\ h.needs >= 9
    BY <2>1, <2>7, HeaderNumbers DEF checkPreamble, HeaderAt
  <2>9. m.at = p => m = h
    BY <2>1, <2>8 DEF IsStream
  <2>10. CASE got' = Append(got, Span(h)) /\ front' = h.at + h.needs
    <3>1. m.at = p
      BY <2>10, <2>8, <2>6, <2>3, <2>5 DEF Excused
    <3> QED
      BY <3>1, <2>9, <2>10
  <2>11. CASE ~AnswerComplete(h, received') /\ front' \in findSecondPreamble(h.at, received')
    <3>1. /\ front' \in (p + 7) .. received' /\ front' + 4 < received'
          /\ HeaderAt(answers, front') # {}
          /\ \A r \in (p + 7) .. received' :
               r + 4 < received' /\ HeaderAt(answers, r) # {} => front' =< r
      BY <2>11, <2>8 DEF findSecondPreamble
    <3>2. front' \in Nat /\ p < front' /\ front' < p + h.needs
      BY <3>1, <2>11, <2>8, <2>5, <2>2 DEF AnswerComplete
    <3>3. CASE m.at = p
      <4>1. PICK n \in answers.messages : n.at = front'
        BY <3>1 DEF HeaderAt
      <4>2. IsCut(answers, m)
        BY <4>1, <3>2, <3>3, <2>8, <2>9 DEF IsCut
      <4> QED
        BY <4>2 DEF Excused
    <3>4. CASE m.at # p
      <4>1. p + 8 =< m.at
        BY <3>4, <2>1, <2>3, <2>5, <2>6, <2>8 DEF IsStream
      <4>2. m.at + 4 < received'
        <5>1. \A x, y, z \in Nat : x < y /\ y + 4 < z => x + 4 < z
          OBVIOUS
        <5> QED
          BY <5>1, <3>1, <3>2, <2>2, <2>3
      <4>5. m.at \in (p + 7) .. received'
        BY <4>1, <4>2, <2>2, <2>3, <2>5
      <4>3. HeaderAt(answers, m.at) # {}
        BY DEF HeaderAt
      <4>4. front' =< m.at
        BY <4>2, <4>3, <4>5, <3>1
      <4> QED
        BY <4>4, <3>2, <2>3
    <3> QED
      BY <3>3, <3>4
  <2>12. front' # h.at
    BY <2>3, <2>5, <2>6, <2>8
  <2> QED
    BY <2>7, <2>10, <2>11, <2>12 DEF ParseAnswer
<1> QED
  BY <1>1, ParserInvariant, PTL DEF ParserSpec, NoAnswerLost

-----------------------------------------------------------------------------
(* The board's receiver.                                                   *)

\* What a call of getCommand does: it empties the buffer and takes nothing, it
\* takes the complete command at the beginning of the buffer and drops the
\* rest, or it goes on waiting for that command.
LEMMA ReceiverStep ==
    ASSUME ReceiverInv, GetCommand
    PROVE  /\ read' \in Nat /\ read < read' /\ read' =< commands.total
           /\ read' =< read + SERIAL_BUFFER
           /\ commands' = commands
           /\ \/ returned' = returned /\ rxIndex' = 0
              \/ \E m \in HeaderAt(commands, read - rxIndex) :
                    /\ m.known /\ m.at + m.needs =< read'
                    /\ returned' = Append(returned, Span(m)) /\ rxIndex' = 0
              \/ \E m \in HeaderAt(commands, read - rxIndex) :
                    /\ ~m.known \/ ~Enough(m)
                    /\ read - rxIndex + 9 =< read'
                    /\ returned' = returned /\ rxIndex' = rxIndex + (read' - read)
<1>1. IsStream(commands)
  BY DEF ReceiverInv, IsCommandStream
<1>2. /\ read' \in Nat /\ read < read' /\ read' =< commands.total
      /\ read' =< read + SERIAL_BUFFER /\ commands' = commands
  BY <1>1, ReceiverAssumption DEF ReceiverInv, GetCommand, IsStream
<1>3. \A m \in Recognised : /\ m \in HeaderAt(commands, read - rxIndex)
                            /\ read - rxIndex + 9 =< read'
  BY <1>2 DEF Recognised, HEADER, ReceiverInv
<1>4. CASE Fails \/ FailsChecksum
  BY <1>2, <1>4 DEF Fails, FailsChecksum
<1>5. CASE Takes
  BY <1>2, <1>3, <1>5 DEF Takes, Enough
<1>6. CASE Waits
  BY <1>2, <1>3, <1>6 DEF Waits
<1> QED
  BY <1>4, <1>5, <1>6 DEF GetCommand

\* A buffer that grows by what is read keeps its beginning.
LEMMA BufferGrows ==
    ASSUME NEW r \in Nat, NEW x \in Nat, x =< r, NEW r1 \in Nat, r < r1
    PROVE  /\ r1 - (x + (r1 - r)) = r - x
           /\ x + (r1 - r) \in Nat /\ x + (r1 - r) =< r1
           /\ r - x + 9 =< r1 => 9 =< x + (r1 - r)
OBVIOUS

LEMMA ReceiverInvInit == ReceiverInit => ReceiverInv
<1> SUFFICES ASSUME ReceiverInit PROVE ReceiverInv
  OBVIOUS
<1>1. IsStream(commands)
  BY ReceiverAssumption DEF ReceiverInit, IsCommandStream
<1> QED
  BY <1>1, ReceiverAssumption DEF ReceiverInit, ReceiverInv, IsStream, IsCommandStream

\* The end of the last command returned is a position in the stream.
LEMMA TakenNumbers ==
    ASSUME ReceiverInv
    PROVE  IsStream(commands) /\ (returned # <<>> => returned[Len(returned)].upto \in Nat)
<1>1. IsStream(commands)
  BY DEF ReceiverInv, IsCommandStream
<1>2. returned # <<>> => returned[Len(returned)] \in Announced(commands)
  BY DEF ReceiverInv
<1> QED
  BY <1>1, <1>2, HeaderNumbers DEF Announced

LEMMA ReceiverInvNext == ReceiverInv /\ [ReceiverNext]_receiverVars => ReceiverInv'
<1> SUFFICES ASSUME ReceiverInv, [ReceiverNext]_receiverVars PROVE ReceiverInv'
  OBVIOUS
<1>1. CASE GetCommand
  <2>1. /\ read' \in Nat /\ read < read' /\ read' =< commands.total
        /\ commands' = commands
    BY <1>1, ReceiverStep
  <2>2. CASE returned' = returned /\ rxIndex' = 0
    <3>1. returned # <<>> => returned[Len(returned)].upto =< read'
      BY <2>1, TakenNumbers DEF ReceiverInv
    <3> QED
      BY <2>1, <2>2, <3>1, TakenNumbers DEF ReceiverInv
  <2>3. ASSUME NEW m \in HeaderAt(commands, read - rxIndex),
               m.at + m.needs =< read', returned' = Append(returned, Span(m)), rxIndex' = 0
        PROVE  ReceiverInv'
    <3>1. m \in commands.messages
      BY DEF HeaderAt
    <3>2. returned' \in Seq(Announced(commands)) /\ returned'[Len(returned')].upto = m.at + m.needs
      BY <2>3, <3>1, SpanAnnounced, AppendLast, TakenNumbers, HeaderNumbers DEF ReceiverInv
    <3>3. m.at + m.needs \in Nat
      BY <3>1, TakenNumbers, HeaderNumbers
    <3> QED
      BY <2>1, <2>3, <3>2, <3>3 DEF ReceiverInv
  <2>4. ASSUME NEW m \in HeaderAt(commands, read - rxIndex),
               ~m.known \/ ~Enough(m), read - rxIndex + 9 =< read',
               returned' = returned, rxIndex' = rxIndex + (read' - read)
        PROVE  ReceiverInv'
    <3>1. m \in commands.messages /\ m.at = read - rxIndex
      BY DEF HeaderAt
    <3>2. m.at \in Nat /\ m.needs \in Nat
      BY <3>1, TakenNumbers, HeaderNumbers
    <3>0. /\ read \in Nat /\ rxIndex \in Nat /\ rxIndex =< read
          /\ read' \in Nat /\ read < read' /\ rxIndex' = rxIndex + (read' - read)
      BY <2>1, <2>4 DEF ReceiverInv
    <3>3. read' - rxIndex' = read - rxIndex /\ rxIndex' \in Nat /\ rxIndex' =< read'
      <4>1. /\ read' - (rxIndex + (read' - read)) = read - rxIndex
            /\ rxIndex + (read' - read) \in Nat /\ rxIndex + (read' - read) =< read'
        BY <3>0, BufferGrows
      <4> QED
        BY <3>0, <4>1
    <3>4. rxIndex' >= 9
      <4>1. 9 =< rxIndex + (read' - read)
        BY <2>4, <3>0, BufferGrows
      <4> QED
        BY <3>0, <3>3, <4>1
    <3>5. m.known => rxIndex' < m.needs
      BY <2>1, <2>4, <3>1, <3>2, <3>3 DEF Enough, ReceiverInv
    <3>6. Waiting'
      BY <2>1, <3>3, <3>4, <3>5 DEF Waiting, HEADER, HeaderAt
    <3>7. returned # <<>> => returned[Len(returned)].upto + rxIndex' =< read'
      BY <2>1, <2>4, TakenNumbers DEF ReceiverInv
    <3> QED
      BY <2>1, <2>4, <3>3, <3>6, <3>7 DEF ReceiverInv
  <2> QED
    BY <1>1, <2>2, <2>3, <2>4, ReceiverStep
<1>2. CASE NothingAvailable
  <2>1. returned # <<>> => returned[Len(returned)].upto =< read
    BY TakenNumbers DEF ReceiverInv
  <2> QED
    BY <1>2, <2>1, TakenNumbers DEF NothingAvailable, ReceiverInv
<1>3. CASE UNCHANGED receiverVars
  BY <1>3 DEF receiverVars, ReceiverInv, Waiting
<1> QED
  BY <1>1, <1>2, <1>3 DEF ReceiverNext

\* What m_pRxBuffer holds between two calls is the beginning of one command
\* that is not complete or not known.
THEOREM ReceiverInvariant == ReceiverSpec => []ReceiverInv
BY ReceiverInvInit, ReceiverInvNext, PTL DEF ReceiverSpec

\* No command that the board knows makes m_pRxBuffer overflow, whatever the
\* serial driver has collected by the next call.
THEOREM ReceiverRxFits == ReceiverSpec => []RxFits
<1>1. ReceiverInv => RxFits
  <2> SUFFICES ASSUME ReceiverInv, AllKnown(commands)
               PROVE  rxIndex + SERIAL_BUFFER =< RX_COMMAND_SIZE
    BY DEF RxFits
  <2>1. CASE rxIndex = 0
    BY <2>1, ReceiverAssumption DEF LONGEST_NEEDS, ReceiverInv, IsCommandStream
  <2>2. CASE rxIndex > 0
    <3>1. PICK m \in commands.messages : rxIndex < m.needs
      BY <2>2 DEF ReceiverInv, Waiting, HeaderAt, AllKnown
    <3>2. m.needs =< 25 /\ m.needs \in Nat
      BY <3>1, ReceiverAssumption, TakenNumbers, HeaderNumbers DEF ReceiverInv, LONGEST_NEEDS, IsCommandStream
    <3> QED
      BY <3>1, <3>2, ReceiverAssumption DEF ReceiverInv, LONGEST_NEEDS
  <2> QED
    BY <2>1, <2>2 DEF ReceiverInv
<1> QED
  BY <1>1, ReceiverInvariant, PTL

\* Commands are returned in order, each once and complete, for every stream and
\* every way in which reads cut it.
THEOREM ReceiverImplements == ReceiverSpec => ReceiverHandsOverWhole
<1>1. ReceiverInit => ReceiverChannel!Init
  BY DEF ReceiverInit, ReceiverChannel!Init
<1>2. ReceiverInv /\ [ReceiverNext]_receiverVars
        => [ReceiverChannel!Next]_<<Announced(commands), read, returned>>
  <2> SUFFICES ASSUME ReceiverInv, [ReceiverNext]_receiverVars,
                      ~UNCHANGED <<Announced(commands), read, returned>>
               PROVE  ReceiverChannel!Next
    OBVIOUS
  <2>1. GetCommand
    BY DEF ReceiverNext, NothingAvailable, receiverVars
  <2>2. read' >= read /\ commands' = commands
    BY <2>1, ReceiverStep DEF ReceiverInv
  <2>3. returned' = returned \/ ReceiverChannel!HandOver
    <3> SUFFICES ASSUME returned' # returned PROVE ReceiverChannel!HandOver
      OBVIOUS
    <3>1. PICK m \in HeaderAt(commands, read - rxIndex) :
             m.at + m.needs =< read' /\ returned' = Append(returned, Span(m))
      BY <2>1, ReceiverStep
    <3>2. m \in commands.messages /\ m.at = read - rxIndex
      BY DEF HeaderAt
    <3>3. Span(m).from = m.at /\ Span(m).upto = m.at + m.needs /\ m.at \in Nat
      BY <3>2, TakenNumbers, HeaderNumbers
    <3>4. ReceiverChannel!Reached =< m.at
      BY <3>2, <3>3, TakenNumbers DEF ReceiverInv, ReceiverChannel!Reached
    <3> QED
      BY <3>1, <3>2, <3>3, <3>4, SpanAnnounced DEF ReceiverChannel!HandOver
  <2> QED
    BY <2>2, <2>3 DEF ReceiverChannel!Next
<1> QED
  BY <1>1, <1>2, ReceiverInvariant, PTL
     DEF ReceiverSpec, ReceiverHandsOverWhole, ReceiverChannel!Spec

\* Among whole and known commands, one that a single call reads from its first
\* byte to its last is returned by that call: what an earlier call left in the
\* buffer never stands in front of it.
THEOREM ReceiverOneReadSuffices == ReceiverSpec => OneReadSuffices
<1>1. ReceiverInv /\ [ReceiverNext]_receiverVars =>
        [\A m \in commands.messages :
          /\ AllKnown(commands) /\ \A c \in commands.messages : ~IsCut(commands, c)
          /\ read = m.at /\ m.at + Length(m) =< read'
          => returned' = Append(returned, Span(m))]_receiverVars
  <2> SUFFICES ASSUME ReceiverInv, ReceiverNext, NEW m \in commands.messages,
                      AllKnown(commands),
                      \A c \in commands.messages : ~IsCut(commands, c),
                      read = m.at, m.at + Length(m) =< read'
               PROVE  returned' = Append(returned, Span(m))
    BY DEF receiverVars
  <2>1. IsStream(commands)
    BY TakenNumbers
  <2>2. m.at \in Nat /\ m.needs \in Nat /\ m.needs >= 9
    BY <2>1, HeaderNumbers
  <2>3. GetCommand
    BY <2>2 DEF ReceiverNext, NothingAvailable, Length
  <2>4. read' \in Nat /\ read < read'
    BY <2>3, ReceiverStep
  <2>5. rxIndex = 0
    <3> SUFFICES ASSUME rxIndex # 0 PROVE FALSE
      OBVIOUS
    <3>1. PICK c \in commands.messages : c.at = read - rxIndex /\ rxIndex < c.needs
      BY DEF ReceiverInv, Waiting, HeaderAt, AllKnown
    <3>2. c.at \in Nat /\ c.needs \in Nat
      BY <2>1, <3>1, HeaderNumbers
    <3>3. c.at < m.at /\ m.at < c.at + c.needs
      BY <3>1, <3>2, <2>2 DEF ReceiverInv
    <3> QED
      BY <3>1, <3>3 DEF IsCut
  <2>6. /\ m.at + m.needs =< read'
        /\ m.needs = 22 => m.at + 22 < read'
    BY <2>2, <2>4 DEF Length, FLTR_CONF_NEEDS
  <2>7. \A h \in HeaderAt(commands, read - rxIndex) : h = m
    BY <2>1, <2>2, <2>5 DEF IsStream, HeaderAt
  <2>8. Recognised = {m}
    <3>1. m \in HeaderAt(commands, read - rxIndex)
      BY <2>2, <2>5 DEF HeaderAt
    <3>2. ~(read' < read - rxIndex + 9)
      BY <2>2, <2>4, <2>5, <2>6
    <3> QED
      BY <2>7, <3>1, <3>2 DEF Recognised, HEADER
  <2>9. m.known /\ Enough(m)
    BY <2>6 DEF AllKnown, Enough
  <2>10. ~Fails /\ ~Waits
    BY <2>8, <2>9 DEF Fails, Waits
  <2>11. ~FailsChecksum
    BY <2>2, <2>4, <2>6, <2>8 DEF FailsChecksum, FLTR_CONF_NEEDS
  <2>12. Takes
    BY <2>3, <2>10, <2>11 DEF GetCommand
  <2> QED
    BY <2>8, <2>12 DEF Takes
<1> QED
  BY <1>1, ReceiverInvariant, PTL DEF ReceiverSpec, OneReadSuffices
=============================================================================
