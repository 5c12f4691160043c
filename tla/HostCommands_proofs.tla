------------------------- MODULE HostCommands_proofs -------------------------
(***************************************************************************)
(* Safety of the client's main loop for every board, every answer and any  *)
(* number of losses.                                                       *)
(***************************************************************************)
EXTENDS HostCommands, SequenceTheorems, TLAPS

USE DEF COMM_ID_START, COMM_ID_STOP, COMM_ID_START_CAN, COMM_ID_FRAME,
        COMM_ID_STOP_CAN, COMM_ID_WRITE_CONFIG, COMM_ID_READ_CONFIG,
        COMM_ID_READ_FIRMWARE_VERSION, COMM_ID_START_NO_PARAMS,
        COMM_ID_WRITE_FLTR_CONF, COMM_ID_READ_FLTR_CONF

\* A set of command codes that is not empty has a least one: what the loop of
\* getExecuteCommand looks for exists.
LEMMA LeastExists ==
    ASSUME NEW S \in SUBSET Codes, S # {}
    PROVE  \E c \in S : \A d \in S : c =< d
<1>1. \A d \in S : d \in {1, 2, 3, 4, 5, 8, 9, 10, 11, 18, 19}
  BY DEF Codes
<1>2. CASE \E c \in S : c \in {1, 2, 3}
  <2>1. CASE 1 \in S  BY <2>1, <1>1
  <2>2. CASE 1 \notin S /\ 2 \in S  BY <2>2, <1>1
  <2>3. CASE 1 \notin S /\ 2 \notin S /\ 3 \in S  BY <2>3, <1>1
  <2> QED  BY <1>2, <2>1, <2>2, <2>3
<1>3. CASE ~(\E c \in S : c \in {1, 2, 3}) /\ \E c \in S : c \in {4, 5, 8}
  <2>1. CASE 4 \in S  BY <1>3, <2>1, <1>1
  <2>2. CASE 4 \notin S /\ 5 \in S  BY <1>3, <2>2, <1>1
  <2>3. CASE 4 \notin S /\ 5 \notin S /\ 8 \in S  BY <1>3, <2>3, <1>1
  <2> QED  BY <1>3, <2>1, <2>2, <2>3
<1>4. CASE (\A c \in S : c \in {9, 10, 11, 18, 19}) /\ \E c \in S : c \in {9, 10, 11}
  <2>1. CASE 9 \in S  BY <1>4, <2>1
  <2>2. CASE 9 \notin S /\ 10 \in S  BY <1>4, <2>2
  <2>3. CASE 9 \notin S /\ 10 \notin S /\ 11 \in S  BY <1>4, <2>3
  <2> QED  BY <1>4, <2>1, <2>2, <2>3
<1>5. CASE \A c \in S : c \in {18, 19}
  <2>1. CASE 18 \in S  BY <1>5, <2>1
  <2>2. CASE 18 \notin S  BY <1>5, <2>2
  <2> QED  BY <2>1, <2>2
<1> QED  BY <1>1, <1>2, <1>3, <1>4, <1>5

\* In a proper table a request is served whenever there is one: the request of
\* least code is one that the client can send.
LEMMA RequestServed ==
    ASSUME NEW t, TableOK(t), InState(t, "REQUEST") # {}
    PROVE  \E c \in InState(t, "REQUEST") \cap Sendable :
               \A d \in InState(t, "REQUEST") : c =< d
<1>1. PICK c \in InState(t, "REQUEST") : \A d \in InState(t, "REQUEST") : c =< d
  BY LeastExists DEF InState
<1>2. c \in Sendable
  BY <1>1 DEF InState, TableOK
<1> QED
  BY <1>1, <1>2

\* A tick leaves a proper table and requests nothing.
LEMMA TickOK ==
    ASSUME NEW t, TableOK(t), NEW e \in SUBSET InState(t, "WAIT")
    PROVE  /\ TableOK(timerTick(t, e))
           /\ WritePending(timerTick(t, e)) => WritePending(t)
<1>1. \A c \in Codes : timerTick(t, e)[c] = IF c \in e THEN "FAIL" ELSE t[c]
  BY DEF timerTick
<1>2. \A c \in e : c \in Codes /\ t[c] = "WAIT"
  BY DEF InState
<1>3. timerTick(t, e) \in [Codes -> CommandState]
  BY DEF timerTick, TableOK, CommandState
<1>4. \A c \in Codes \ Sendable : timerTick(t, e)[c] \in {"NONE", "SUCCES"}
  BY <1>1, <1>2 DEF TableOK
<1>5. \A c, d \in Codes : timerTick(t, e)[c] = "WAIT" /\ timerTick(t, e)[d] = "WAIT" => c = d
  BY <1>1 DEF TableOK
<1>6. WritePending(timerTick(t, e)) => WritePending(t)
  BY <1>1, <1>2 DEF WritePending, Codes
<1> QED
  BY <1>3, <1>4, <1>5, <1>6 DEF TableOK

\* An answer leaves a proper table; only a start answer that does not fit the
\* JSON matrix makes a write pending.
LEMMA AnsweredOK ==
    ASSUME NEW t, TableOK(t), NEW m \in Messages
    PROVE  /\ TableOK(Answered(t, m))
           /\ WritePending(Answered(t, m)) =>
                \/ WritePending(t) /\ m.code # COMM_ID_WRITE_CONFIG
                \/ m.code = COMM_ID_START_NO_PARAMS /\ Mismatch(m.conf)
<1>1. \A c \in Codes : \/ Answered(t, m)[c] = t[c]
                       \/ Answered(t, m)[c] = "SUCCES"
                       \/ Answered(t, m)[c] = "REQUEST" /\ c = COMM_ID_WRITE_CONFIG
  BY DEF Answered
<1>2. Answered(t, m) \in [Codes -> CommandState]
  BY <1>1 DEF Answered, TableOK, CommandState
<1>3. \A c, d \in Codes : Answered(t, m)[c] = "WAIT" /\ Answered(t, m)[d] = "WAIT" => c = d
  BY <1>1 DEF TableOK
<1>4. \A c \in Codes \ Sendable : Answered(t, m)[c] \in {"NONE", "SUCCES"}
  BY <1>1 DEF TableOK, Sendable
<1>5. WritePending(Answered(t, m)) =>
        \/ WritePending(t) /\ m.code # COMM_ID_WRITE_CONFIG
        \/ m.code = COMM_ID_START_NO_PARAMS /\ Mismatch(m.conf)
  BY DEF WritePending, Answered, Codes
<1> QED
  BY <1>2, <1>3, <1>4, <1>5 DEF TableOK

\* Requesting the failed commands again, and what follows an answered one,
\* leave a proper table; the only command these steps cannot begin is a write.
LEMMA SwitchOK ==
    ASSUME NEW t, TableOK(t)
    PROVE  /\ TableOK(switchExecuteCommand(checkErrorCommand(t)))
           /\ WritePending(switchExecuteCommand(checkErrorCommand(t))) => WritePending(t)
           /\ ~isWaitingCommands(t) =>
                ~isWaitingCommands(switchExecuteCommand(checkErrorCommand(t)))
<1> DEFINE u == checkErrorCommand(t)
           w == switchExecuteCommand(u)
<1>1. /\ TableOK(u) /\ (WritePending(u) => WritePending(t))
      /\ \A c \in Codes : u[c] = "WAIT" => t[c] = "WAIT"
  <2>1. \A c \in Codes : u[c] = IF t[c] = "FAIL" THEN "REQUEST" ELSE t[c]
    BY DEF checkErrorCommand
  <2>2. u \in [Codes -> CommandState]
    BY DEF checkErrorCommand, TableOK, CommandState
  <2>3. WritePending(u) => WritePending(t)
    BY <2>1 DEF WritePending, Codes
  <2> HIDE DEF u
  <2> QED
    BY <2>1, <2>2, <2>3 DEF TableOK
<1>2. \A c \in Codes : \/ w[c] = u[c]
                       \/ w[c] = "NONE"
                       \/ w[c] = "REQUEST" /\ c \in {COMM_ID_READ_FIRMWARE_VERSION,
                                         COMM_ID_READ_CONFIG, COMM_ID_START_NO_PARAMS}
  <2> HIDE DEF u
  <2> QED
    BY DEF switchExecuteCommand, FollowUp
<1>3. w \in [Codes -> CommandState]
  <2>1. u \in [Codes -> CommandState]
    BY <1>1 DEF TableOK
  <2> HIDE DEF u
  <2> QED
    BY <2>1 DEF switchExecuteCommand, CommandState
<1> HIDE DEF u, w
<1>4. TableOK(w)
  BY <1>1, <1>2, <1>3 DEF TableOK, Sendable
<1>5. WritePending(w) => WritePending(u)
  BY <1>2 DEF WritePending, Codes
<1>6. \A c \in Codes : w[c] = "WAIT" => t[c] = "WAIT"
  BY <1>1, <1>2
<1>7. ~isWaitingCommands(t) => ~isWaitingCommands(w)
  BY <1>6 DEF isWaitingCommands, InState
<1> QED
  BY <1>1, <1>4, <1>5, <1>7 DEF u, w

-----------------------------------------------------------------------------
(* The second half of an iteration, from the table t that its tick and its *)
(* answer left to the next state.                                          *)

\* What holds of the line and of a table before and after this half.
LineOK(b) ==
    /\ b \in Seq(Messages)
    /\ \A i \in DOMAIN b : b[i].code = COMM_ID_WRITE_CONFIG => Covers(b[i].conf)

\* A command is written only when none waits, so it waits alone; a written
\* configuration is the scan settings of that moment.
LEMMA SendOK ==
    ASSUME NEW t, TableOK(t), NEW c \in Sendable, ~isWaitingCommands(t),
           LineOK(toBoard), losses \in Nat, scanSettings' \in Configs,
           c = COMM_ID_WRITE_CONFIG => Covers(scanSettings'),
           SendCommand(t, c)
    PROVE  /\ TableOK(cmd')
           /\ LineOK(toBoard')
           /\ losses' \in Nat
           /\ WritePending(cmd') => WritePending(t) \/ c = COMM_ID_WRITE_CONFIG
<1>1. \A d \in Codes : t[d] # "WAIT"
  BY DEF isWaitingCommands, InState
<1>2. CASE WriteToBoard(Request(c)) /\ cmd' = [t EXCEPT ![c] = "WAIT"] /\ UNCHANGED losses
  <2>1. c \in Codes
    BY DEF Sendable, Codes
  <2>2. Request(c) \in Messages
    BY <2>1, LinkAssumption
       DEF Request, Plain, Carrying, Messages, NoConfig, Configs, Status, FILTER_NONE
  <2>3. Request(c).code = COMM_ID_WRITE_CONFIG => Covers(Request(c).conf)
    BY DEF Request, Plain, Carrying
  <2>4. LineOK(toBoard')
    <3>1. toBoard' = Append(toBoard, Request(c))
      BY <1>2 DEF WriteToBoard
    <3> HIDE DEF COMM_ID_WRITE_CONFIG
    <3> QED
      BY <2>2, <2>3, <3>1 DEF LineOK
  <2>5. cmd' \in [Codes -> CommandState]
    BY <1>2, <2>1 DEF TableOK, CommandState
  <2>6. \A d \in Codes : cmd'[d] = IF d = c THEN "WAIT" ELSE t[d]
    BY <1>2, <2>1 DEF TableOK
  <2>7. TableOK(cmd')
    BY <1>1, <2>5, <2>6 DEF TableOK
  <2>8. WritePending(cmd') => WritePending(t) \/ c = COMM_ID_WRITE_CONFIG
    BY <2>6 DEF WritePending, Codes
  <2> QED
    BY <1>2, <2>4, <2>7, <2>8
<1>3. CASE CountLoss /\ cmd' = t /\ UNCHANGED toBoard
  BY <1>3 DEF CountLoss
<1> QED
  BY <1>2, <1>3 DEF SendCommand

\* Serving the least request keeps the table and the line proper.
LEMMA ServeOK ==
    ASSUME NEW t, TableOK(t), ~isWaitingCommands(t),
           LineOK(toBoard), losses \in Nat, scanSettings' \in Configs,
           WritePending(t) => Covers(scanSettings'),
           ServeRequest(t)
    PROVE  /\ TableOK(cmd')
           /\ LineOK(toBoard')
           /\ losses' \in Nat
           /\ WritePending(cmd') => WritePending(t)
<1> DEFINE next == {c \in InState(t, "REQUEST") \cap Sendable :
                      \A d \in InState(t, "REQUEST") : c =< d}
<1>1. CASE cmd' = t /\ UNCHANGED <<toBoard, losses>>
  BY <1>1
<1>2. CASE /\ cmd' = [t EXCEPT ![COMM_ID_START_NO_PARAMS] = "NONE",
                               ![COMM_ID_STOP] = "REQUEST"]
           /\ UNCHANGED <<toBoard, losses>>
  <2>1. cmd' \in [Codes -> CommandState]
    BY <1>2 DEF TableOK, CommandState, Codes
  <2>2. \A d \in Codes : \/ cmd'[d] = t[d]
                         \/ d = COMM_ID_START_NO_PARAMS /\ cmd'[d] = "NONE"
                         \/ d = COMM_ID_STOP /\ cmd'[d] = "REQUEST"
    BY <1>2 DEF TableOK
  <2>3. TableOK(cmd')
    BY <2>1, <2>2 DEF TableOK, Sendable
  <2>4. WritePending(cmd') => WritePending(t)
    BY <2>2 DEF WritePending, Codes
  <2> QED
    BY <1>2, <2>3, <2>4
<1>3. ASSUME NEW c \in next, SendCommand(t, c)
      PROVE  /\ TableOK(cmd')
             /\ LineOK(toBoard')
             /\ losses' \in Nat
             /\ WritePending(cmd') => WritePending(t)
  <2>1. c \in Sendable /\ t[c] = "REQUEST"
    BY <1>3 DEF InState
  <2>2. c = COMM_ID_WRITE_CONFIG => WritePending(t)
    BY <2>1 DEF WritePending
  <2> QED
    BY <1>3, <2>1, <2>2, SendOK
<1> QED
  BY <1>1, <1>2, <1>3 DEF ServeRequest

\* Either loop, poll or getBaudRate, takes a proper table to a proper one.
LEMMA RestOK ==
    ASSUME NEW t, TableOK(t), LineOK(toBoard), losses \in Nat,
           scanSettings' \in Configs,
           WritePending(t) => Covers(scanSettings'),
           baudState \in BaudState,
           Rest(t)
    PROVE  /\ TableOK(cmd')
           /\ LineOK(toBoard')
           /\ losses' \in Nat
           /\ WritePending(cmd') => Covers(scanSettings')
           /\ appState' \in ApplicationState \ {"INIT_SERVER", "INIT_JSON"}
           /\ baudState' \in BaudState
           /\ json' = json
<1>1. CASE appState = "WORK" /\ PollRest(t)
  <2>1. appState' = "WORK" /\ baudState' = baudState /\ json' = json
    BY <1>1 DEF PollRest
  <2>2. CASE isWaitingCommands(t) /\ cmd' = t /\ UNCHANGED <<toBoard, losses>>
    BY <2>1, <2>2 DEF ApplicationState
  <2>3. CASE /\ ~isWaitingCommands(t)
             /\ ServeRequest(switchExecuteCommand(checkErrorCommand(t)))
    <3> DEFINE w == switchExecuteCommand(checkErrorCommand(t))
    <3>1. /\ TableOK(w) /\ ~isWaitingCommands(w)
          /\ WritePending(w) => Covers(scanSettings')
      BY <2>3, SwitchOK
    <3> HIDE DEF w
    <3>2. ServeRequest(w)
      BY <2>3 DEF w
    <3> QED
      BY <2>1, <3>1, <3>2, ServeOK DEF ApplicationState
  <2> QED
    BY <1>1, <2>2, <2>3 DEF PollRest
<1>2. CASE appState = "GET_BAUD" /\ BaudRest(t)
  <2>1. json' = json
    BY <1>2 DEF BaudRest
  <2>2. CASE cmd' = t /\ UNCHANGED <<toBoard, losses>> /\ BaudRest(t)
    BY <1>2, <2>2 DEF BaudRest, ApplicationState, BaudState
  <2>3. CASE /\ appState' = "WORK" /\ baudState' = "NOT_SWITCH_BAUD"
             /\ cmd' = [t EXCEPT ![COMM_ID_STOP] = "REQUEST"]
             /\ ~isWaitingCommands(t)
             /\ UNCHANGED <<toBoard, losses>>
    <3>1. cmd' \in [Codes -> CommandState]
      BY <2>3 DEF TableOK, CommandState, Codes
    <3>2. \A d \in Codes : cmd'[d] = IF d = COMM_ID_STOP THEN "REQUEST" ELSE t[d]
      BY <2>3 DEF TableOK
    <3>3. TableOK(cmd')
      BY <3>1, <3>2 DEF TableOK, Sendable
    <3>4. WritePending(cmd') => WritePending(t)
      BY <3>2 DEF WritePending, Codes
    <3> QED
      BY <2>1, <2>3, <3>3, <3>4 DEF ApplicationState, BaudState
  <2>4. CASE /\ ~isWaitingCommands(t)
             /\ SendCommand(t, COMM_ID_READ_FIRMWARE_VERSION)
             /\ UNCHANGED <<appState, baudState>>
    <3>1. COMM_ID_READ_FIRMWARE_VERSION \in Sendable
      BY DEF Sendable
    <3>2. /\ TableOK(cmd') /\ LineOK(toBoard') /\ losses' \in Nat
          /\ WritePending(cmd') => WritePending(t)
      BY <2>4, <3>1, SendOK
    <3> QED
      BY <1>2, <2>1, <2>4, <3>2 DEF ApplicationState
  <2> QED
    BY <1>2, <2>2, <2>3, <2>4 DEF BaudRest
<1> QED
  BY <1>1, <1>2 DEF Rest

-----------------------------------------------------------------------------
(* The invariant, step by step.                                            *)

LEMMA HostInvInit == HostOpenInit => HostInv
<1> SUFFICES ASSUME HostOpenInit PROVE HostInv
  OBVIOUS
<1>1. HostTypeOK
  BY LinkAssumption, HostAssumption
     DEF HostOpenInit, HostInit, HostTypeOK, ApplicationState, BaudState, ScanState,
         CommandState, NoConfig, Configs, FILTER_NONE
<1>2. LinkTypeOK
  BY DEF HostOpenInit, LinkInit, LinkTypeOK
<1>3. TableOK(cmd)
  BY DEF HostOpenInit, HostInit, TableOK, CommandState
<1>4. BufferedFramesFit /\ WrittenConfigCoversJson
  BY DEF HostOpenInit, HostInit, LinkInit, BufferedFramesFit, WrittenConfigCoversJson
<1>5. ~WritePending(cmd)
  BY DEF HostOpenInit, HostInit, WritePending, Codes
<1> QED
  BY <1>1, <1>2, <1>3, <1>4, <1>5 DEF HostInv, HostTypeInvariant, HostOpenInit, HostInit, LinkInit

\* An answer leaves settings and frames of the right kind, the frames fit the
\* settings, and a write that it makes pending has settings that cover the JSON
\* matrix.
LEMMA AnswerOK ==
    ASSUME HostInv, NEW m \in Messages, answerParser(m)
    PROVE  /\ scanState' \in ScanState
           /\ boardSettings' \in Configs
           /\ scanSettings' \in Configs
           /\ frameBuffer' \in Seq(Nat) /\ Len(frameBuffer') =< FRAME_BUFFER_SIZE
           /\ \A i \in DOMAIN frameBuffer' : frameBuffer'[i] = Points(scanSettings')
           /\ \/ scanSettings' = scanSettings /\ m.code # COMM_ID_START_NO_PARAMS
              \/ Covers(scanSettings')
<1>1. /\ m.conf \in Configs
      /\ json.x \in Nat /\ json.y \in Nat
      /\ json.x \in Dims /\ json.y \in Dims
      /\ scanState \in ScanState /\ boardSettings \in Configs /\ scanSettings \in Configs
      /\ frameBuffer \in Seq(Nat) /\ Len(frameBuffer) =< FRAME_BUFFER_SIZE
      /\ \A i \in DOMAIN frameBuffer : frameBuffer[i] = Points(scanSettings)
  <2>1. json \in JsonSizes \cup {NoJson}
    BY DEF HostInv, HostTypeInvariant, HostTypeOK
  <2>2. json.x \in Dims /\ json.y \in Dims
    BY <2>1, LinkAssumption, HostAssumption DEF NoJson
  <2>3. json.x \in Nat /\ json.y \in Nat
    BY <2>2, LinkAssumption
  <2>4. m.conf \in Configs
    BY DEF Messages
  <2> QED
    BY <2>2, <2>3, <2>4 DEF HostInv, HostTypeInvariant, HostTypeOK, BufferedFramesFit
<1>2. \A c \in Configs : Points(c) \in Nat
  <2>1. \A x, y \in Nat : x * y \in Nat
    OBVIOUS
  <2>2. \A c \in Configs : c.x \in Nat /\ c.y \in Nat
    BY LinkAssumption DEF Configs
  <2> QED
    BY <2>1, <2>2 DEF Points
<1>3. CASE AnswerStop(m)
  BY <1>1, <1>3, HostAssumption DEF AnswerStop, ScanState
<1>4. CASE AnswerFrame(m)
  <2>1. /\ UNCHANGED <<scanState, scanSettings, boardSettings>>
        /\ m.code # COMM_ID_START_NO_PARAMS
    BY <1>4 DEF AnswerFrame
  <2>2. CASE /\ Len(frameBuffer) < FRAME_BUFFER_SIZE
             /\ Points(m.conf) = Points(scanSettings)
             /\ frameBuffer' = Append(frameBuffer, Points(m.conf))
    <3>1. Points(m.conf) \in Nat
      BY <1>1, <1>2
    <3> QED
      BY <1>1, <2>1, <2>2, <3>1, HostAssumption
  <2>3. CASE frameBuffer' = frameBuffer
    BY <1>1, <2>1, <2>3
  <2> QED
    BY <1>4, <2>2, <2>3 DEF AnswerFrame, Expected
<1>5. CASE AnswerReadConfig(m)
  BY <1>1, <1>5 DEF AnswerReadConfig
<1>6. CASE AnswerStartNoParams(m)
  <2>1. SettingsOf(m) \in Configs /\ Covers(SettingsOf(m))
    <3>1. m.conf.x \in Nat /\ m.conf.y \in Nat
      BY <1>1, LinkAssumption DEF Configs
    <3>2. CASE ~Mismatch(m.conf)
      BY <1>1, <3>1, <3>2 DEF SettingsOf, Covers, Mismatch
    <3>3. CASE Mismatch(m.conf)
      <4> DEFINE s == [m.conf EXCEPT !.x = json.x, !.y = json.y]
      <4>1. s \in Configs /\ s.x = json.x /\ s.y = json.y
        BY <1>1 DEF Configs
      <4> HIDE DEF s
      <4>2. Covers(s)
        BY <1>1, <4>1 DEF Covers
      <4> QED
        BY <3>3, <4>1, <4>2 DEF SettingsOf, s
    <3> QED
      BY <3>2, <3>3
  <2> QED
    BY <1>1, <1>6, <2>1, HostAssumption DEF AnswerStartNoParams, ScanState
<1>7. CASE AnswerPlain(m)
  BY <1>1, <1>7 DEF AnswerPlain
<1> QED
  BY <1>3, <1>4, <1>5, <1>6, <1>7 DEF answerParser

\* The iterations of the main loop that read the line.
LEMMA IterateOK ==
    ASSUME HostInv, NEW expired \in Expired,
           IterateSilent(expired) \/ IterateAnswer(expired)
    PROVE  HostInv'
<1> DEFINE ticked == timerTick(cmd, expired)
           Entered(t) ==
             /\ TableOK(t)
             /\ toHost' \in Seq(Messages)
             /\ scanState' \in ScanState
             /\ boardSettings' \in Configs
             /\ scanSettings' \in Configs
             /\ frameBuffer' \in Seq(Nat) /\ Len(frameBuffer') =< FRAME_BUFFER_SIZE
             /\ \A i \in DOMAIN frameBuffer' : frameBuffer'[i] = Points(scanSettings')
             /\ WritePending(t) => Covers(scanSettings')
<1>1. TableOK(ticked) /\ (WritePending(ticked) => WritePending(cmd))
  <2>1. expired \in SUBSET InState(cmd, "WAIT")
    BY DEF Expired
  <2> QED
    BY <2>1, TickOK DEF HostInv
<1> HIDE DEF ticked
<1>2. ASSUME NEW t, Entered(t), Rest(t)
      PROVE  HostInv'
  <2>1. /\ LineOK(toBoard) /\ losses \in Nat /\ baudState \in BaudState
        /\ json \in JsonSizes \cup {NoJson}
    BY DEF HostInv, HostTypeInvariant, LinkTypeOK, HostTypeOK, LineOK, WrittenConfigCoversJson
  <2>2. /\ TableOK(cmd') /\ LineOK(toBoard') /\ losses' \in Nat
        /\ WritePending(cmd') => Covers(scanSettings')
        /\ appState' \in ApplicationState \ {"INIT_SERVER", "INIT_JSON"}
        /\ baudState' \in BaudState /\ json' = json
    BY <1>2, <2>1, RestOK
  <2>3. HostTypeInvariant'
    BY <1>2, <2>1, <2>2 DEF HostTypeInvariant, HostTypeOK, LinkTypeOK, TableOK, LineOK
  <2>4. BufferedFramesFit'
    BY <1>2 DEF BufferedFramesFit
  <2>5. WrittenConfigCoversJson' /\ (WritePending(cmd') => Covers(scanSettings)')
    BY <2>2 DEF LineOK, WrittenConfigCoversJson, Covers
  <2> QED
    BY <2>2, <2>3, <2>4, <2>5 DEF HostInv, TableOK, WritePending
<1>3. CASE IterateSilent(expired)
  <2>1. Entered(ticked)
    BY <1>1, <1>3
       DEF IterateSilent, HostInv, HostTypeInvariant, HostTypeOK, LinkTypeOK, BufferedFramesFit, Covers
  <2>2. Rest(ticked)
    BY <1>3 DEF IterateSilent, ticked
  <2> QED
    BY <1>2, <2>1, <2>2
<1>4. CASE IterateAnswer(expired)
  <2> DEFINE m == Head(toHost)
             parsed == Answered(ticked, m)
  <2>1. m \in Messages /\ toHost' \in Seq(Messages)
    BY <1>4 DEF IterateAnswer, HostInv, HostTypeInvariant, LinkTypeOK
  <2>2. Rest(parsed) /\ answerParser(m)
    BY <1>4 DEF IterateAnswer, ticked
  <2> HIDE DEF m
  <2>3. /\ TableOK(parsed)
        /\ WritePending(parsed) => \/ WritePending(ticked)
                                  \/ m.code = COMM_ID_START_NO_PARAMS
    BY <1>1, <2>1, AnsweredOK
  <2> HIDE DEF parsed
  <2>4. /\ scanState' \in ScanState
        /\ boardSettings' \in Configs
        /\ scanSettings' \in Configs
        /\ frameBuffer' \in Seq(Nat) /\ Len(frameBuffer') =< FRAME_BUFFER_SIZE
        /\ \A i \in DOMAIN frameBuffer' : frameBuffer'[i] = Points(scanSettings')
        /\ \/ scanSettings' = scanSettings /\ m.code # COMM_ID_START_NO_PARAMS
           \/ Covers(scanSettings')
    BY <2>1, <2>2, AnswerOK
  <2>5. WritePending(parsed) => Covers(scanSettings')
    BY <1>1, <2>3, <2>4 DEF HostInv
  <2> QED
    BY <1>2, <2>1, <2>2, <2>3, <2>4, <2>5
<1> QED
  BY <1>3, <1>4

LEMMA HostInvNext == HostInv /\ [HostOpenNext]_<<hostVars, linkVars>> => HostInv'
<1> SUFFICES ASSUME HostInv, [HostOpenNext]_<<hostVars, linkVars>>
             PROVE  HostInv'
  OBVIOUS
<1> USE DEF HostInv, HostTypeInvariant, HostTypeOK, LinkTypeOK
<1>1. CASE serverStart
  BY <1>1 DEF serverStart, linkVars, ApplicationState, BufferedFramesFit,
              WrittenConfigCoversJson, Covers, TableOK, WritePending
<1>2. CASE loadJson
  <2>1. /\ toBoard = <<>> /\ cmd[COMM_ID_WRITE_CONFIG] = "NONE"
    BY <1>2 DEF loadJson, Codes
  <2> QED
    BY <1>2, <2>1 DEF loadJson, linkVars, ApplicationState, BufferedFramesFit,
              WrittenConfigCoversJson, Covers, TableOK, WritePending
<1>3. CASE detectDevice
  <2>1. cmd' \in [Codes -> CommandState]
    BY <1>3 DEF detectDevice, CommandState
  <2>2. \A d \in Codes :
          cmd'[d] = IF d = COMM_ID_READ_FIRMWARE_VERSION THEN "REQUEST" ELSE cmd[d]
    BY <1>3 DEF detectDevice
  <2>3. TableOK(cmd')
    BY <2>1, <2>2 DEF TableOK, Sendable
  <2>4. WritePending(cmd') => WritePending(cmd)
    BY <2>2 DEF WritePending, Codes
  <2>5. UNCHANGED <<baudState, scanState, boardSettings, scanSettings, json,
                    frameBuffer, linkVars>> /\ appState' = "GET_BAUD"
    BY <1>3 DEF detectDevice
  <2> QED
    BY <2>3, <2>4, <2>5 DEF linkVars, ApplicationState, BufferedFramesFit,
              WrittenConfigCoversJson, Covers, TableOK, WritePending
<1>4. ASSUME NEW expired \in Expired, IterateSilent(expired) \/ IterateAnswer(expired)
      PROVE  HostInv'
  BY <1>4, IterateOK
<1>5. CASE TakeFrame
  <2>1. frameBuffer' \in Seq(Nat) /\ Len(frameBuffer') =< FRAME_BUFFER_SIZE
    BY <1>5, HostAssumption DEF TakeFrame
  <2>2. \A i \in DOMAIN frameBuffer' : frameBuffer'[i] = frameBuffer[i + 1]
                                     /\ i + 1 \in DOMAIN frameBuffer
    BY <1>5 DEF TakeFrame
  <2>3. BufferedFramesFit'
    BY <1>5, <2>2 DEF TakeFrame, BufferedFramesFit
  <2> QED
    BY <1>5, <2>1, <2>3 DEF TakeFrame, linkVars, WrittenConfigCoversJson, Covers,
                       TableOK, WritePending
<1>6. CASE BoardActs
  <2>1. PICK n \in 0 .. Len(toBoard) : toBoard' = SubSeq(toBoard, n + 1, Len(toBoard))
    BY <1>6 DEF BoardActs
  <2>2. /\ toBoard' \in Seq(Messages)
        /\ \A i \in DOMAIN toBoard' : toBoard'[i] = toBoard[i + n]
                                    /\ i + n \in DOMAIN toBoard
    <3>1. toBoard \in Seq(Messages) /\ Len(toBoard) \in Nat /\ n \in Nat
      BY LenProperties DEF HostInv, HostTypeInvariant, LinkTypeOK
    <3>2. \A i \in (n + 1) .. Len(toBoard) : toBoard[i] \in Messages
      BY <3>1, ElementOfSeq
    <3>3. /\ toBoard' \in Seq(Messages)
          /\ Len(toBoard') = Len(toBoard) - n
      BY <2>1, <3>1, <3>2, SubSeqProperties
    <3>4. \A i \in 1 .. Len(toBoard) - n : toBoard'[i] = toBoard[i + n]
      BY <2>1, <3>1, <3>2, SubSeqProperties
    <3>5. DOMAIN toBoard' = 1 .. Len(toBoard) - n /\ DOMAIN toBoard = 1 .. Len(toBoard)
      BY <3>1, <3>3, LenProperties
    <3>6. \A i \in 1 .. Len(toBoard) - n : i + n \in 1 .. Len(toBoard)
      BY <3>1
    <3> QED
      BY <3>3, <3>4, <3>5, <3>6
  <2>3. WrittenConfigCoversJson'
    BY <1>6, <2>2 DEF BoardActs, hostVars, WrittenConfigCoversJson, Covers
  <2>4. toHost' \in Seq(Messages)
    <3>1. CASE UNCHANGED toHost
      BY <3>1
    <3>2. CASE toHost # <<>> /\ toHost' = Tail(toHost)
      BY <3>2
    <3>3. CASE \E m \in AnyAnswer : WriteToHost(m)
      BY <3>3, AnswerAssumption DEF WriteToHost
    <3> QED
      BY <1>6, <3>1, <3>2, <3>3 DEF BoardActs
  <2>5. losses' \in Nat
    BY <1>6 DEF BoardActs, CountLoss
  <2>6. UNCHANGED hostVars
    BY <1>6 DEF BoardActs
  <2>7. toBoard = <<>> => toBoard' = <<>>
    BY <2>1
  <2> QED
    BY <2>2, <2>3, <2>4, <2>5, <2>6, <2>7
       DEF hostVars, BufferedFramesFit, Covers, TableOK, WritePending
<1>7. CASE UNCHANGED <<hostVars, linkVars>>
  BY <1>7 DEF hostVars, linkVars, BufferedFramesFit, WrittenConfigCoversJson, Covers,
              TableOK, WritePending
<1> QED
  BY <1>1, <1>2, <1>3, <1>4, <1>5, <1>6, <1>7
     DEF HostOpenNext, HostNext, HostStart

-----------------------------------------------------------------------------
(* The theorems.                                                           *)

LEMMA HostInvariant == HostSpec => []HostInv
<1> QED
  BY HostInvInit, HostInvNext, PTL DEF HostSpec

\* The type invariant: the frame buffer never outgrows FRAME_BUFFER_SIZE.
THEOREM HostTypeCorrect == HostSpec => []HostTypeInvariant
<1>1. HostInv => HostTypeInvariant
  BY DEF HostInv
<1> QED
  BY <1>1, HostInvariant, PTL

\* At most one command waits for an answer (isWaitingCommands before any send).
THEOREM HostSingleOutstanding == HostSpec => []SingleOutstanding
<1>1. HostInv => SingleOutstanding
  BY DEF HostInv, TableOK, SingleOutstanding
<1> QED
  BY <1>1, HostInvariant, PTL

\* Only the five commands of poll's send branches are ever requested.
THEOREM HostOnlySendableRequested == HostSpec => []OnlySendableRequested
<1>1. HostInv => OnlySendableRequested
  BY DEF HostInv, TableOK, OnlySendableRequested
<1> QED
  BY <1>1, HostInvariant, PTL

\* What prepareData reads by the scan settings, the buffered frame holds.
THEOREM HostBufferedFramesFit == HostSpec => []BufferedFramesFit
<1>1. HostInv => BufferedFramesFit
  BY DEF HostInv
<1> QED
  BY <1>1, HostInvariant, PTL

\* A configuration written to the board is large enough for the JSON matrix.
THEOREM HostWrittenConfigCoversJson == HostSpec => []WrittenConfigCoversJson
<1>1. HostInv => WrittenConfigCoversJson
  BY DEF HostInv
<1> QED
  BY <1>1, HostInvariant, PTL
=============================================================================
