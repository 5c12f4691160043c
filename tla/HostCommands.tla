---------------------------- MODULE HostCommands ----------------------------
(***************************************************************************)
(* The main thread of the console client: Application::run, getBaudRate    *)
(* and poll of ConsoleClient/Project/Source/application.cpp, with the      *)
(* command table, the answer parser and the frame buffer they drive.  An   *)
(* iteration of the main loop reads the line once, parses at most one      *)
(* answer and writes at most one command, so it is one step.               *)
(***************************************************************************)
EXTENDS SerialLink

CONSTANTS
    FRAME_BUFFER_SIZE,    \* frames kept for the TCP clients
    JsonSizes             \* the matrix sizes that a conversion file may have

ASSUME HostAssumption ==
    /\ FRAME_BUFFER_SIZE \in Nat \ {0}
    /\ JsonSizes \subseteq [x : Dims \ {0}, y : Dims \ {0}]

VARIABLES
    appState,       \* m_applicationState
    baudState,      \* m_baudState
    scanState,      \* m_scanState
    cmd,            \* m_command: the state of each command
    boardSettings,  \* m_boardSettings, from the READ_CONFIG answer
    scanSettings,   \* m_scanSettings, from the START_NO_PARAMS answer
    json,           \* sizes in m_jsonTable; NoJson when ~m_jsonPresent
    frameBuffer     \* m_pFrameBuffer: the pixel count of each frame

hostVars == <<appState, baudState, scanState, cmd, boardSettings,
              scanSettings, json, frameBuffer>>

ApplicationState == {"INIT_SERVER", "INIT_JSON", "INIT_BOARD", "GET_BAUD", "WORK"}
BaudState        == {"SWITCH_BAUD", "NOT_SWITCH_BAUD"}
ScanState        == {"UNDEFINED", "SCANNING", "STOPED"}
CommandState     == {"NONE", "REQUEST", "WAIT", "SUCCES", "FAIL"}

NoJson == [x |-> 0, y |-> 0]

HostTypeOK ==
    /\ appState \in ApplicationState
    /\ baudState \in BaudState
    /\ scanState \in ScanState
    /\ cmd \in [Codes -> CommandState]
    /\ boardSettings \in Configs
    /\ scanSettings \in Configs
    /\ json \in JsonSizes \cup {NoJson}
    /\ frameBuffer \in Seq(Nat)
    /\ Len(frameBuffer) =< FRAME_BUFFER_SIZE

HostInit ==
    /\ appState = "INIT_SERVER"
    /\ baudState = "NOT_SWITCH_BAUD"
    /\ scanState = "UNDEFINED"
    /\ cmd = [c \in Codes |-> "NONE"]
    /\ boardSettings = NoConfig
    /\ scanSettings = NoConfig
    /\ json = NoJson
    /\ frameBuffer = <<>>

-----------------------------------------------------------------------------
(* The command table.                                                      *)

Least(S) == CHOOSE c \in S : \A d \in S : c =< d

InState(t, s) == {c \in Codes : t[c] = s}

\* commandsTimeoutTick: the commands whose counter has run out fail.  The
\* counters are abstracted to the set of those that run out in this tick.
timerTick(t, expired) == [c \in Codes |-> IF c \in expired THEN "FAIL" ELSE t[c]]

isWaitingCommands(t) == InState(t, "WAIT") # {}

\* Mutant of checkErrorCommand: a failed command is not requested again.
checkErrorNothing(t) == t

\* A failed command is requested again.
checkErrorCommand(t) == [c \in Codes |-> IF t[c] = "FAIL" THEN "REQUEST" ELSE t[c]]

\* Mutant of FollowUp: after the settings the filter settings are read.
FollowUpFilter == [c \in {COMM_ID_STOP, COMM_ID_WRITE_CONFIG, COMM_ID_READ_CONFIG,
                          COMM_ID_READ_FIRMWARE_VERSION} |->
                     CASE c = COMM_ID_STOP         -> COMM_ID_READ_FIRMWARE_VERSION
                       [] c = COMM_ID_WRITE_CONFIG -> COMM_ID_READ_CONFIG
                       [] c = COMM_ID_READ_CONFIG  -> COMM_ID_READ_FLTR_CONF
                       [] OTHER                    -> COMM_ID_READ_CONFIG]

\* What the answer to a command makes the client request next.
FollowUp == [c \in {COMM_ID_STOP, COMM_ID_WRITE_CONFIG, COMM_ID_READ_CONFIG,
                    COMM_ID_READ_FIRMWARE_VERSION} |->
               CASE c = COMM_ID_STOP                  -> COMM_ID_READ_FIRMWARE_VERSION
                 [] c = COMM_ID_WRITE_CONFIG          -> COMM_ID_READ_CONFIG
                 [] c = COMM_ID_READ_CONFIG           -> COMM_ID_START_NO_PARAMS
                 [] c = COMM_ID_READ_FIRMWARE_VERSION -> COMM_ID_READ_CONFIG]

\* Branches of the chain with an empty body: they hide every later branch.
EmptyBranches == {COMM_ID_START, COMM_ID_START_CAN, COMM_ID_STOP_CAN,
                  COMM_ID_WRITE_FLTR_CONF, COMM_ID_READ_FLTR_CONF}

\* The if/else chain looks only at the first answered command in code order.
switchExecuteCommand(t) ==
    LET answered == InState(t, "SUCCES")
        first    == Least(answered)
    IN  IF answered = {} \/ first \in EmptyBranches
        THEN t
        ELSE [c \in Codes |->
                IF c = first THEN "NONE"
                ELSE IF first \in DOMAIN FollowUp /\ c = FollowUp[first]
                     THEN "REQUEST" ELSE t[c]]

-----------------------------------------------------------------------------
(* Answers.                                                                *)

\* The JSON matrix does not fit the scanned one.
Mismatch(conf) == json.x > conf.x \/ json.y > conf.y

\* Mutants of SettingsOf: only the width is replaced; nothing is taken over.
SettingsWidened(m) == IF Mismatch(m.conf) THEN [m.conf EXCEPT !.x = json.x] ELSE m.conf

SettingsKept(m) == scanSettings

\* The settings of a scan that the board says it has started.
SettingsOf(m) ==
    IF Mismatch(m.conf) THEN [m.conf EXCEPT !.x = json.x, !.y = json.y] ELSE m.conf

\* The table after an answer.  The STOP_CAN branch tests the command code
\* instead of the byte after it and never takes effect.
Answered(t, m) ==
    [c \in Codes |->
        IF c = m.code /\ c # COMM_ID_STOP_CAN THEN "SUCCES"
        ELSE IF m.code = COMM_ID_START_NO_PARAMS /\ c = COMM_ID_WRITE_CONFIG
                /\ Mismatch(m.conf)
             THEN "REQUEST" ELSE t[c]]

AnswerStop(m) ==
    /\ m.code = COMM_ID_STOP
    /\ scanState' = "STOPED"
    /\ frameBuffer' = <<>>
    /\ UNCHANGED <<scanSettings, boardSettings>>

\* The length of the answer is that of a frame of the scan settings.  Points are
\* two bytes each, and a truncated frame ends after an odd number of them.
Expected(m) == m.status # "TRUNCATED" /\ Points(m.conf) = Points(scanSettings)

\* Mutant of AnswerFrame: the limit of the buffer is not tested.
AnswerFrameUnbounded(m) ==
    /\ m.code = COMM_ID_FRAME
    /\ frameBuffer' = IF Expected(m)
                      THEN Append(frameBuffer, Points(m.conf)) ELSE frameBuffer
    /\ UNCHANGED <<scanState, scanSettings, boardSettings>>

\* frameParser: a frame is kept if there is room and its length is right.
AnswerFrame(m) ==
    /\ m.code = COMM_ID_FRAME
    /\ frameBuffer' =
         IF Len(frameBuffer) < FRAME_BUFFER_SIZE /\ Expected(m)
         THEN Append(frameBuffer, Points(m.conf)) ELSE frameBuffer
    /\ UNCHANGED <<scanState, scanSettings, boardSettings>>

AnswerReadConfig(m) ==
    /\ m.code = COMM_ID_READ_CONFIG
    /\ boardSettings' = m.conf
    /\ UNCHANGED <<scanState, scanSettings, frameBuffer>>

\* Mutant of AnswerStartNoParams: frames of the scan before are kept.
AnswerStartKeeping(m) ==
    /\ m.code = COMM_ID_START_NO_PARAMS
    /\ scanSettings' = SettingsOf(m)
    /\ scanState' = "SCANNING"
    /\ UNCHANGED <<boardSettings, frameBuffer>>

\* The request status (m_requestStatus) is stored and never looked at.
AnswerStartNoParams(m) ==
    /\ m.code = COMM_ID_START_NO_PARAMS
    /\ scanSettings' = SettingsOf(m)
    /\ frameBuffer' = <<>>
    /\ scanState' = "SCANNING"
    /\ UNCHANGED boardSettings

\* The answers that only move the command table.
AnswerPlain(m) ==
    /\ m.code \notin {COMM_ID_STOP, COMM_ID_FRAME, COMM_ID_READ_CONFIG,
                      COMM_ID_START_NO_PARAMS}
    /\ UNCHANGED <<scanState, scanSettings, boardSettings, frameBuffer>>

answerParser(m) ==
    \/ AnswerStop(m)
    \/ AnswerFrame(m)
    \/ AnswerReadConfig(m)
    \/ AnswerStartNoParams(m)
    \/ AnswerPlain(m)

-----------------------------------------------------------------------------
(* Requests.                                                               *)

\* The commands that the client ever sends.
Sendable == {COMM_ID_STOP, COMM_ID_WRITE_CONFIG, COMM_ID_READ_CONFIG,
             COMM_ID_READ_FIRMWARE_VERSION, COMM_ID_START_NO_PARAMS}

\* Mutant of Request: the settings read are written back.
RequestReadBack(c) ==
    IF c = COMM_ID_WRITE_CONFIG THEN Carrying(c, boardSettings') ELSE Plain(c)

Request(c) ==
    IF c = COMM_ID_WRITE_CONFIG THEN Carrying(c, scanSettings') ELSE Plain(c)

\* The command is written and awaited; a failed write, or one that a full
\* line refuses, leaves it requested.
SendCommand(t, c) ==
    \/ /\ WriteToBoard(Request(c))
       /\ cmd' = [t EXCEPT ![c] = "WAIT"]
       /\ UNCHANGED losses
    \/ /\ CountLoss \/ (Len(toBoard) = MaxLink /\ UNCHANGED losses)
       /\ cmd' = t
       /\ UNCHANGED toBoard

\* The request of lowest code is served; a start while scanning becomes a
\* stop.  Apart from START, which is never requested, a request that cannot be
\* sent has an empty branch: it would stay and keep all later ones waiting.
ServeRequest(t) ==
    LET requested == InState(t, "REQUEST")
        next      == {c \in requested \cap Sendable : \A d \in requested : c =< d}
    IN  \/ /\ next = {}
           /\ cmd' = t
           /\ UNCHANGED <<toBoard, losses>>
        \/ /\ COMM_ID_START_NO_PARAMS \in next /\ scanState' = "SCANNING"
           /\ cmd' = [t EXCEPT ![COMM_ID_START_NO_PARAMS] = "NONE",
                              ![COMM_ID_STOP] = "REQUEST"]
           /\ UNCHANGED <<toBoard, losses>>
        \/ \E c \in next :
              /\ ~(c = COMM_ID_START_NO_PARAMS /\ scanState' = "SCANNING")
              /\ SendCommand(t, c)

\* Mutant of PollRest: commands are requested while another one waits.
PollRestEager(t) ==
    /\ UNCHANGED <<appState, baudState, json>>
    /\ ServeRequest(switchExecuteCommand(checkErrorCommand(t)))

\* poll after the line was read: nothing is requested while a command waits.
PollRest(t) ==
    /\ UNCHANGED <<appState, baudState, json>>
    /\ \/ /\ isWaitingCommands(t)
          /\ cmd' = t
          /\ UNCHANGED <<toBoard, losses>>
       \/ /\ ~isWaitingCommands(t)
          /\ \E u \in {switchExecuteCommand(checkErrorCommand(t))} : ServeRequest(u)

\* getBaudRate after the line was read.
BaudRest(t) ==
    LET version == t[COMM_ID_READ_FIRMWARE_VERSION]
    IN  /\ UNCHANGED json
        /\ \/ /\ isWaitingCommands(t)
              /\ cmd' = t
              /\ UNCHANGED <<appState, baudState, toBoard, losses>>
           \/ /\ ~isWaitingCommands(t) /\ version = "FAIL"
              /\ appState' = "INIT_BOARD"
              /\ baudState' = "SWITCH_BAUD"
              /\ cmd' = t
              /\ UNCHANGED <<toBoard, losses>>
           \/ /\ ~isWaitingCommands(t) /\ version = "SUCCES"
              /\ appState' = "WORK"
              /\ baudState' = "NOT_SWITCH_BAUD"
              /\ cmd' = [t EXCEPT ![COMM_ID_STOP] = "REQUEST"]
              /\ UNCHANGED <<toBoard, losses>>
           \/ /\ ~isWaitingCommands(t) /\ version \notin {"FAIL", "SUCCES"}
              /\ SendCommand(t, COMM_ID_READ_FIRMWARE_VERSION)
              /\ UNCHANGED <<appState, baudState>>

\* What an iteration does with the table that its tick and its answer left.
Rest(t) ==
    \/ appState = "WORK" /\ PollRest(t)
    \/ appState = "GET_BAUD" /\ BaudRest(t)

-----------------------------------------------------------------------------
(* The main loop.                                                          *)

serverStart ==
    /\ appState = "INIT_SERVER"
    /\ appState' = "INIT_JSON"
    /\ UNCHANGED <<baudState, scanState, cmd, boardSettings, scanSettings, json,
                   frameBuffer, linkVars>>

loadJson ==
    /\ appState = "INIT_JSON"
    /\ appState' = "INIT_BOARD"
    /\ json' \in JsonSizes \cup {NoJson}
    /\ UNCHANGED <<baudState, scanState, cmd, boardSettings, scanSettings,
                   frameBuffer, linkVars>>

detectDevice ==
    /\ appState = "INIT_BOARD"
    /\ appState' = "GET_BAUD"
    /\ cmd' = [cmd EXCEPT ![COMM_ID_READ_FIRMWARE_VERSION] = "REQUEST"]
    /\ UNCHANGED <<baudState, scanState, boardSettings, scanSettings, json,
                   frameBuffer, linkVars>>

\* An iteration that finds no complete answer on the line.
IterateSilent(expired) ==
    /\ UNCHANGED <<scanState, scanSettings, boardSettings, frameBuffer, toHost>>
    /\ \E t \in {timerTick(cmd, expired)} : Rest(t)

\* An iteration that parses the oldest answer.
IterateAnswer(expired) ==
    /\ toHost # <<>>
    /\ toHost' = Tail(toHost)
    /\ answerParser(Head(toHost))
    /\ \E t \in {Answered(timerTick(cmd, expired), Head(toHost))} : Rest(t)

\* prepareData on a client thread takes the oldest frame.
TakeFrame ==
    /\ frameBuffer # <<>>
    /\ frameBuffer' = Tail(frameBuffer)
    /\ UNCHANGED <<appState, baudState, scanState, cmd, boardSettings,
                   scanSettings, json, linkVars>>

HostStart == serverStart \/ loadJson \/ detectDevice

Expired == SUBSET InState(cmd, "WAIT")

HostNext ==
    \/ HostStart
    \/ \E expired \in Expired : IterateSilent(expired) \/ IterateAnswer(expired)
    \/ TakeFrame

-----------------------------------------------------------------------------
(* The client beside a board and a line that may do anything: commands are *)
(* taken, alone or several at once, answers come unasked, both get lost.   *)

CONSTANT AnyAnswer             \* the answers that this board may write

ASSUME AnswerAssumption == AnyAnswer \subseteq Messages

BoardActs ==
    /\ \E taken \in 0 .. Len(toBoard) :
         toBoard' = SubSeq(toBoard, taken + 1, Len(toBoard))
    /\ \/ UNCHANGED toHost
       \/ toHost # <<>> /\ toHost' = Tail(toHost)
       \/ \E m \in AnyAnswer : WriteToHost(m)
    /\ UNCHANGED losses \/ CountLoss
    /\ UNCHANGED hostVars

HostOpenInit == HostInit /\ LinkInit

HostOpenNext == HostNext \/ BoardActs

HostSpec == HostOpenInit /\ [][HostOpenNext]_<<hostVars, linkVars>>

-----------------------------------------------------------------------------
(* Properties.                                                             *)

\* The type invariant of the client and the line.
HostTypeInvariant == HostTypeOK /\ LinkTypeOK

\* At most one command awaits its answer, whatever answers come unasked and
\* whichever timers run out: the table has no order in which to match more.
SingleOutstanding ==
    \A c, d \in Codes : cmd[c] = "WAIT" /\ cmd[d] = "WAIT" => c = d

\* Every buffered frame has the pixel count of the current scan settings:
\* prepareData walks a frame by the sizes of m_scanSettings, so a frame of
\* another scan left in the buffer would be read beyond its end.
BufferedFramesFit ==
    \A i \in DOMAIN frameBuffer : frameBuffer[i] = Points(scanSettings)

Covers(conf) == json.x =< conf.x /\ json.y =< conf.y

\* A configuration that the client writes to the board is never too small
\* for the JSON matrix, even if answers overtake the pending write.
WrittenConfigCoversJson ==
    \A i \in DOMAIN toBoard :
        toBoard[i].code = COMM_ID_WRITE_CONFIG => Covers(toBoard[i].conf)

\* The client never requests a command that it cannot send: ServeRequest has
\* an empty branch for such a request, which would keep every request of a
\* higher code waiting for ever.
OnlySendableRequested ==
    \A c \in Codes \ Sendable : cmd[c] \in {"NONE", "SUCCES"}

-----------------------------------------------------------------------------
(* The inductive invariant of the safety proofs.                           *)

\* A command table that a main loop iteration may start from.
TableOK(t) ==
    /\ t \in [Codes -> CommandState]
    /\ \A c, d \in Codes : t[c] = "WAIT" /\ t[d] = "WAIT" => c = d
    /\ \A c \in Codes \ Sendable : t[c] \in {"NONE", "SUCCES"}

\* A configuration is to be written, or to be written again.
WritePending(t) == t[COMM_ID_WRITE_CONFIG] \in {"REQUEST", "WAIT", "FAIL"}

\* Nothing was requested before the JSON file is read, and from then on a
\* pending write has scan settings that cover the JSON matrix.
HostInv ==
    /\ HostTypeInvariant
    /\ TableOK(cmd)
    /\ BufferedFramesFit
    /\ WrittenConfigCoversJson
    /\ WritePending(cmd) => Covers(scanSettings)
    /\ appState \in {"INIT_SERVER", "INIT_JSON"} =>
           toBoard = <<>> /\ cmd = [c \in Codes |-> "NONE"]
=============================================================================
