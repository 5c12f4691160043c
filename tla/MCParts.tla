------------------------------- MODULE MCParts -------------------------------
(* Seven modules that share no variable, for TLC: in a behaviour one of      *)
(* them takes steps and the others stay at an initial state, so that one    *)
(* run covers them with as many states as they have together.               *)
EXTENDS FrameServer, TcpServer, StreamParser, BoardReceiver, Sampling, Filters,
        JsonTable

LOCAL INSTANCE SequencesExt

CONSTANTS h1, h2, c1, c2

VARIABLE part           \* the module that takes steps

vars == <<part, serverVars, tcpVars, parserVars, receiverVars, samplingVars,
          filterVars, jsonVars>>

-----------------------------------------------------------------------------
(* FrameServer and TcpServer.                                               *)

MCHandlers == {h1, h2}
MCClients  == {c1, c2}

\* One client reads its answers; the other may never, or break off.
MCReaders  == {c1}

\* Every start answer brings one matrix, and the conversion file another one.
MCSizes == {[x |-> 1, y |-> 2]}
MCJson  == [x |-> 2, y |-> 1]

-----------------------------------------------------------------------------
(* StreamParser and BoardReceiver: streams of a few pieces, each with       *)
(* bytes that belong to no message, and a message of which "size" bytes are *)
(* on the line.                                                             *)

Piece(noise, size, needs, known) ==
    [noise |-> noise, size |-> size, needs |-> needs, known |-> known]

Laid(pieces) ==
    FoldLeft(LAMBDA s, p :
               [messages |-> s.messages \cup
                  {[at |-> s.total + p.noise, needs |-> p.needs, known |-> p.known]},
                total |-> s.total + p.noise + p.size],
             [messages |-> {}, total |-> 0], pieces)

Streams(kinds, length) == {Laid(s) : s \in UNION {[1 .. n -> kinds] : n \in 0 .. length}}

\* The shortest answer; a longer one behind noise; one cut before its code; one
\* cut shortly before its end, and one long before.
MCAnswers ==
    Streams({Piece(0, 9, 9, TRUE), Piece(3, 12, 12, TRUE), Piece(0, 8, 9, FALSE),
             Piece(0, 10, 14, TRUE), Piece(0, 9, 30, TRUE)}, 3)

\* The shortest command, alone and behind noise; WRITE_FLTR_CONF with the byte
\* that is not waited for; a code the board does not know; the longest command,
\* whole and cut.
MCCommands ==
    Streams({Piece(0, 9, 9, TRUE), Piece(6, 9, 9, TRUE), Piece(0, 23, 22, TRUE),
             Piece(0, 9, 9, FALSE), Piece(0, 12, 25, TRUE), Piece(0, 25, 25, TRUE)}, 2)

-----------------------------------------------------------------------------
(* Sampling: matrices that fit the lines, that the shift moves over the end *)
(* of a chip or of the chain, and that are larger; the last row of some is  *)
(* negative as an int8_t.                                                   *)

MCMatrices == [x : {1, 5}, y : {1, 6}, shiftX : {0, 1, 4}, shiftY : {0, 1}]

-----------------------------------------------------------------------------
(* Filters: windows of an even and of an odd size, and of one frame.        *)

MCValues      == {0, 1, 2, 4}
MCWindowSizes == 1 .. 4

-----------------------------------------------------------------------------
(* JsonTable: every file for a matrix of two lines with coordinates from    *)
(* zero, from one, beyond the table and beyond a byte; every file for two   *)
(* by two lines with the right coordinates in any order and number; one     *)
(* that is too large; one without a size, as the files under Jsons/ are.    *)

MCFiles ==
    [x : {2}, y : {1}, pcm : [1 .. 2 -> [x : 0 .. 5, y : 0 .. 2]]]
    \cup [x : {2}, y : {2}, pcm : [1 .. 4 -> [x : {0, 1}, y : {0, 1}]]]
    \cup [x : {3, Missing}, y : {1}, pcm : {[i \in 1 .. 3 |-> [x |-> i - 1, y |-> 0]]}]

MCBoardSizes == [x : {2, 3}, y : {1, 2}] \cup {[x |-> 1, y |-> 2]}

-----------------------------------------------------------------------------
Init ==
    /\ part \in {"server", "tcp", "parser", "receiver", "sampling", "filters", "json"}
    /\ ServerInit
    /\ TcpInit
    /\ part # "tcp" => scanning
    /\ answers \in IF part = "parser" THEN AnswerStreams ELSE {Laid(<<>>)}
    /\ ParserInit
    /\ commands \in IF part = "receiver" THEN CommandStreams ELSE {Laid(<<>>)}
    /\ ReceiverInit
    /\ matrix \in IF part = "sampling" THEN Matrices ELSE {CHOOSE m \in Matrices : TRUE}
    /\ activeChnlA \in IF part = "sampling" THEN 0 .. MAX_CHNL ELSE {0}
    /\ SamplingInit
    /\ part # "filters" => filter = "MEDIAN" /\ windowSize = 1
    /\ FiltersInit
    /\ JsonInit

Only(name) == part = name /\ UNCHANGED part

Next ==
    \/ /\ Only("server") /\ ServerNext
       /\ UNCHANGED <<tcpVars, parserVars, receiverVars, samplingVars, filterVars, jsonVars>>
    \/ /\ Only("tcp") /\ TcpNext
       /\ UNCHANGED <<serverVars, parserVars, receiverVars, samplingVars, filterVars, jsonVars>>
    \/ /\ Only("parser") /\ ReadAndParse
       /\ UNCHANGED <<serverVars, tcpVars, receiverVars, samplingVars, filterVars, jsonVars>>
    \/ /\ Only("receiver") /\ ReceiverNext
       /\ UNCHANGED <<serverVars, tcpVars, parserVars, samplingVars, filterVars, jsonVars>>
    \/ /\ Only("sampling") /\ SamplingNext
       /\ UNCHANGED <<serverVars, tcpVars, parserVars, receiverVars, filterVars, jsonVars>>
    \/ /\ Only("filters") /\ FiltersNext
       /\ UNCHANGED <<serverVars, tcpVars, parserVars, receiverVars, samplingVars, jsonVars>>
    \/ /\ Only("json") /\ JsonNext
       /\ UNCHANGED <<serverVars, tcpVars, parserVars, receiverVars, samplingVars, filterVars>>

\* The fairness of ServerFairSpec, TcpFairSpec and ParserSpec.
Fairness ==
    /\ \A h \in Handlers : WF_serverVars(part = "server" /\ Handle(h))
    /\ WF_tcpVars(part = "tcp" /\ Loop) /\ WF_tcpVars(part = "tcp" /\ Stopping)
    /\ \A c \in Clients :
         /\ WF_tcpVars(part = "tcp" /\ Handler(c))
         /\ WF_tcpVars(part = "tcp" /\ MaySend(c) /\ (SendData(c) \/ BrokenPipe(c)))
    /\ WF_parserVars(part = "parser" /\ ReadAndParse)

Spec == Init /\ [][Next]_vars /\ Fairness
=============================================================================
