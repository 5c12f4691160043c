------------------------- MODULE DevkitSystem_proofs -------------------------
(***************************************************************************)
(* The client and the board together: each implements its specification    *)
(* beside an arbitrary partner, and after every exchange they agree.       *)
(***************************************************************************)
EXTENDS DevkitSystem, HostCommands_proofs, BoardFirmware_proofs

-----------------------------------------------------------------------------
(* Queues.                                                                 *)

\* A message at the end.
LEMMA AppendQueue ==
    ASSUME NEW q \in Seq(Messages), NEW m \in Messages, NEW c
    PROVE  /\ In(Append(q, m), c) <=> In(q, c) \/ m.code = c
           /\ Once(q, c) /\ ~(m.code = c /\ In(q, c)) => Once(Append(q, m), c)
<1>1. /\ Append(q, m) \in Seq(Messages)
      /\ DOMAIN Append(q, m) = 1 .. Len(q) + 1 /\ DOMAIN q = 1 .. Len(q) /\ Len(q) \in Nat
      /\ \A i \in 1 .. Len(q) : Append(q, m)[i] = q[i]
      /\ Append(q, m)[Len(q) + 1] = m
  OBVIOUS
<1>2. In(Append(q, m), c) <=> In(q, c) \/ m.code = c
  BY <1>1 DEF In
<1>3. Once(q, c) /\ ~(m.code = c /\ In(q, c)) => Once(Append(q, m), c)
  BY <1>1 DEF In, Once
<1> QED
  BY <1>2, <1>3

\* What is left of a queue whose first n messages are gone.
LEMMA Remainder ==
    ASSUME NEW q \in Seq(Messages), NEW n \in 0 .. Len(q), NEW r,
           r = SubSeq(q, n + 1, Len(q)) \/ (q # <<>> /\ n = 1 /\ r = Tail(q))
    PROVE  /\ r \in Seq(Messages)
           /\ Len(r) = Len(q) - n
           /\ DOMAIN r = 1 .. Len(q) - n /\ DOMAIN q = 1 .. Len(q) /\ Len(q) \in Nat
           /\ \A i \in 1 .. Len(q) - n : r[i] = q[i + n]
<1>1. CASE r = SubSeq(q, n + 1, Len(q))
  <2>1. n + 1 \in Int /\ Len(q) \in Int /\ n \in Nat /\ Len(q) \in Nat
    OBVIOUS
  <2>2. \A i \in n + 1 .. Len(q) : q[i] \in Messages
    BY <2>1, ElementOfSeq
  <2>3. /\ r \in Seq(Messages)
        /\ Len(r) = IF n + 1 <= Len(q) THEN Len(q) - (n + 1) + 1 ELSE 0
        /\ \A i \in 1 .. Len(q) - (n + 1) + 1 : r[i] = q[n + 1 + i - 1]
    BY <1>1, <2>1, <2>2, SubSeqProperties
  <2>4. Len(r) = Len(q) - n
    BY <2>1, <2>3
  <2>5. \A i \in 1 .. Len(q) - n : r[i] = q[i + n]
    BY <2>1, <2>3
  <2> QED
    BY <2>1, <2>3, <2>4, <2>5, LenProperties
<1>2. CASE q # <<>> /\ n = 1 /\ r = Tail(q)
  BY <1>2
<1> QED
  BY <1>1, <1>2

LEMMA RemainderQueue ==
    ASSUME NEW q \in Seq(Messages), NEW n \in 0 .. Len(q), NEW r, NEW c,
           r = SubSeq(q, n + 1, Len(q)) \/ (q # <<>> /\ n = 1 /\ r = Tail(q))
    PROVE  /\ In(r, c) => In(q, c)
           /\ Once(q, c) => Once(r, c)
           /\ Once(q, c) /\ n >= 1 /\ Head(q).code = c => ~In(r, c)
<1>1. /\ DOMAIN r = 1 .. Len(q) - n /\ DOMAIN q = 1 .. Len(q) /\ Len(q) \in Nat /\ n \in Nat
      /\ \A i \in 1 .. Len(q) - n : r[i] = q[i + n] /\ i + n \in 1 .. Len(q)
  BY Remainder
<1>2. In(r, c) => In(q, c)
  BY <1>1 DEF In
<1>3. ASSUME Once(q, c), NEW i \in DOMAIN r, NEW j \in DOMAIN r, r[i].code = c, r[j].code = c
      PROVE  i = j
  <2>1. i \in Int /\ j \in Int /\ i + n = j + n
    BY <1>1, <1>3 DEF Once
  <2> QED
    BY <1>1, <2>1
<1>4. ASSUME Once(q, c), n >= 1, Head(q).code = c, NEW i \in DOMAIN r, r[i].code = c
      PROVE  FALSE
  <2>1. q # <<>> /\ q[1].code = c /\ 1 \in DOMAIN q
    BY <1>1, <1>4
  <2>2. i + n = 1
    BY <1>1, <1>4, <2>1 DEF Once
  <2> QED
    BY <1>1, <1>4, <2>2
<1> QED
  BY <1>2, <1>3, <1>4 DEF In, Once

-----------------------------------------------------------------------------
(* What an iteration of the client does to its table.                      *)

USE DEF COMM_ID_START, COMM_ID_STOP, COMM_ID_START_CAN, COMM_ID_FRAME,
        COMM_ID_STOP_CAN, COMM_ID_WRITE_CONFIG, COMM_ID_READ_CONFIG,
        COMM_ID_READ_FIRMWARE_VERSION, COMM_ID_START_NO_PARAMS,
        COMM_ID_WRITE_FLTR_CONF, COMM_ID_READ_FLTR_CONF

\* A stop is to be sent, or to be answered.
StopWanted(t) == t[COMM_ID_STOP] \in {"REQUEST", "WAIT", "FAIL"}

\* Nothing that the client wants is forgotten, a stop in particular, and
\* getBaudRate is not told that the firmware has answered.
KeepsWants(t, u) ==
    /\ Busy(t) => Busy(u)
    /\ StopWanted(t) => StopWanted(u)
    /\ u[COMM_ID_READ_FIRMWARE_VERSION] = "SUCCES" =>
         t[COMM_ID_READ_FIRMWARE_VERSION] = "SUCCES"

LEMMA KeepsTransitive ==
    ASSUME NEW t, NEW u, NEW w, KeepsWants(t, u), KeepsWants(u, w)
    PROVE  KeepsWants(t, w)
BY DEF KeepsWants

\* poll, up to the command that it chooses.
LEMMA SwitchKeeps ==
    ASSUME NEW t, TableOK(t), ~isWaitingCommands(t)
    PROVE  /\ KeepsWants(t, switchExecuteCommand(checkErrorCommand(t)))
           /\ StopWanted(t) =>
                switchExecuteCommand(checkErrorCommand(t))[COMM_ID_STOP] = "REQUEST"
<1> DEFINE u == checkErrorCommand(t)
           w == switchExecuteCommand(u)
           first == Least(InState(u, "SUCCES"))
<1>1. \A c \in Codes : u[c] = IF t[c] = "FAIL" THEN "REQUEST" ELSE t[c]
  BY DEF checkErrorCommand
<1>2. \A c \in Codes : t[c] # "WAIT"
  BY DEF isWaitingCommands, InState
<1>3. KeepsWants(t, u) /\ (StopWanted(t) => u[COMM_ID_STOP] = "REQUEST")
  <2> HIDE DEF u
  <2> QED
    BY <1>1, <1>2 DEF KeepsWants, Busy, StopWanted, Codes
<1> HIDE DEF u
<1>4. \/ w = u
      \/ /\ first \in Codes /\ u[first] = "SUCCES"
         /\ \A c \in Codes :
              w[c] = IF c = first THEN "NONE"
                     ELSE IF first \in DOMAIN FollowUp /\ c = FollowUp[first]
                          THEN "REQUEST" ELSE u[c]
  <2>1. CASE InState(u, "SUCCES") = {}
    BY <2>1 DEF switchExecuteCommand
  <2>2. CASE InState(u, "SUCCES") # {}
    <3>1. InState(u, "SUCCES") \in SUBSET Codes
      BY DEF InState
    <3>2. \E c \in InState(u, "SUCCES") : \A d \in InState(u, "SUCCES") : c =< d
      BY <2>2, <3>1, LeastExists
    <3>3. first \in InState(u, "SUCCES")
      BY <3>2 DEF Least
    <3>4. first \in Codes /\ u[first] = "SUCCES"
      BY <3>3 DEF InState
    <3>5. \/ w = u
          \/ w = [c \in Codes |->
                    IF c = first THEN "NONE"
                    ELSE IF first \in DOMAIN FollowUp /\ c = FollowUp[first]
                         THEN "REQUEST" ELSE u[c]]
      BY DEF switchExecuteCommand
    <3> QED
      BY <3>4, <3>5
  <2> QED
    BY <2>1, <2>2
<1> HIDE DEF w, first
<1>5. /\ DOMAIN FollowUp = {COMM_ID_STOP, COMM_ID_WRITE_CONFIG, COMM_ID_READ_CONFIG,
                            COMM_ID_READ_FIRMWARE_VERSION}
      /\ FollowUp[COMM_ID_STOP] = COMM_ID_READ_FIRMWARE_VERSION
      /\ FollowUp[COMM_ID_WRITE_CONFIG] = COMM_ID_READ_CONFIG
      /\ FollowUp[COMM_ID_READ_CONFIG] = COMM_ID_START_NO_PARAMS
      /\ FollowUp[COMM_ID_READ_FIRMWARE_VERSION] = COMM_ID_READ_CONFIG
  BY DEF FollowUp
<1>6. KeepsWants(u, w) /\ (u[COMM_ID_STOP] = "REQUEST" => w[COMM_ID_STOP] = "REQUEST")
  <2>1. CASE w = u
    BY <2>1 DEF KeepsWants
  <2>2. CASE /\ first \in Codes /\ u[first] = "SUCCES"
             /\ \A c \in Codes :
                  w[c] = IF c = first THEN "NONE"
                         ELSE IF first \in DOMAIN FollowUp /\ c = FollowUp[first]
                              THEN "REQUEST" ELSE u[c]
    <3>1. CASE first \in DOMAIN FollowUp
      BY <1>5, <2>2, <3>1 DEF KeepsWants, Busy, StopWanted, Codes
    <3>2. CASE first \notin DOMAIN FollowUp
      BY <1>5, <2>2, <3>2 DEF KeepsWants, Busy, StopWanted, Codes
    <3> QED
      BY <3>1, <3>2
  <2> QED
    BY <1>4, <2>1, <2>2
<1> QED
  BY <1>3, <1>6, KeepsTransitive DEF u, w

\* What an iteration that starts from the table t does to the line: nothing, or
\* it writes one command, which then waits alone.  A start is written by a
\* client that shows no scan and wants no stop, and getBaudRate writes nothing
\* but the question for the version.
Writes(t) ==
    \/ UNCHANGED toBoard /\ \A d \in Codes : cmd'[d] = "WAIT" <=> t[d] = "WAIT"
    \/ /\ ~isWaitingCommands(t) /\ UNCHANGED losses
       /\ \E c \in Sendable :
            /\ WriteToBoard(Request(c))
            /\ \A d \in Codes : cmd'[d] = "WAIT" <=> d = c
            /\ c = COMM_ID_START_NO_PARAMS => scanState' # "SCANNING" /\ ~StopWanted(t)
            /\ appState # "WORK" => c = COMM_ID_READ_FIRMWARE_VERSION

LEMMA SendEffect ==
    ASSUME NEW t, TableOK(t), NEW c \in Sendable, ~isWaitingCommands(t),
           SendCommand(t, c)
    PROVE  /\ TableOK(cmd') /\ KeepsWants(t, cmd')
           /\ UNCHANGED losses \/ CountLoss
           /\ \/ UNCHANGED toBoard /\ cmd' = t
              \/ /\ WriteToBoard(Request(c)) /\ UNCHANGED losses
                 /\ \A d \in Codes : cmd'[d] = "WAIT" <=> d = c
<1>1. \A d \in Codes : t[d] # "WAIT"
  BY DEF isWaitingCommands, InState
<1>2. CASE WriteToBoard(Request(c)) /\ cmd' = [t EXCEPT ![c] = "WAIT"] /\ UNCHANGED losses
  <2>1. c \in Codes
    BY DEF Sendable, Codes
  <2>2. cmd' \in [Codes -> CommandState]
    BY <1>2, <2>1 DEF TableOK, CommandState
  <2>3. \A d \in Codes : cmd'[d] = IF d = c THEN "WAIT" ELSE t[d]
    BY <1>2, <2>1 DEF TableOK
  <2>4. TableOK(cmd')
    BY <1>1, <2>2, <2>3 DEF TableOK
  <2>5. KeepsWants(t, cmd')
    BY <2>3 DEF KeepsWants, Busy, StopWanted, Codes
  <2> QED
    BY <1>1, <1>2, <2>3, <2>4, <2>5
<1>3. CASE /\ CountLoss \/ (Len(toBoard) = MaxLink /\ UNCHANGED losses)
           /\ cmd' = t /\ UNCHANGED toBoard
  BY <1>3 DEF KeepsWants
<1> QED
  BY <1>2, <1>3 DEF SendCommand

LEMMA ServeEffect ==
    ASSUME NEW t, TableOK(t), ~isWaitingCommands(t), appState = "WORK", ServeRequest(t)
    PROVE  /\ TableOK(cmd') /\ KeepsWants(t, cmd')
           /\ UNCHANGED losses \/ CountLoss
           /\ \/ UNCHANGED toBoard /\ \A d \in Codes : cmd'[d] = "WAIT" <=> t[d] = "WAIT"
              \/ /\ UNCHANGED losses
                 /\ \E c \in Sendable :
                      /\ WriteToBoard(Request(c))
                      /\ \A d \in Codes : cmd'[d] = "WAIT" <=> d = c
                      /\ c = COMM_ID_START_NO_PARAMS =>
                           scanState' # "SCANNING" /\ t[COMM_ID_STOP] # "REQUEST"
<1> DEFINE next == {c \in InState(t, "REQUEST") \cap Sendable :
                      \A d \in InState(t, "REQUEST") : c =< d}
<1>1. CASE cmd' = t /\ UNCHANGED <<toBoard, losses>>
  BY <1>1 DEF KeepsWants
<1>2. CASE /\ COMM_ID_START_NO_PARAMS \in next
           /\ cmd' = [t EXCEPT ![COMM_ID_START_NO_PARAMS] = "NONE",
                               ![COMM_ID_STOP] = "REQUEST"]
           /\ UNCHANGED <<toBoard, losses>>
  <2>1. cmd' \in [Codes -> CommandState]
    BY <1>2 DEF TableOK, CommandState, Codes
  <2>2. \A d \in Codes : cmd'[d] = IF d = COMM_ID_STOP THEN "REQUEST"
                                   ELSE IF d = COMM_ID_START_NO_PARAMS THEN "NONE" ELSE t[d]
    BY <1>2 DEF TableOK
  <2>3. TableOK(cmd')
    BY <2>1, <2>2 DEF TableOK, Sendable
  <2>4. KeepsWants(t, cmd')
    BY <2>2 DEF KeepsWants, Busy, StopWanted, Codes
  <2>5. \A d \in Codes : t[d] # "WAIT" /\ cmd'[d] # "WAIT"
    BY <2>2 DEF isWaitingCommands, InState
  <2> QED
    BY <1>2, <2>3, <2>4, <2>5
<1>3. ASSUME NEW c \in next, ~(c = COMM_ID_START_NO_PARAMS /\ scanState' = "SCANNING"),
             SendCommand(t, c)
      PROVE  /\ TableOK(cmd') /\ KeepsWants(t, cmd')
             /\ UNCHANGED losses \/ CountLoss
             /\ \/ UNCHANGED toBoard /\ \A d \in Codes : cmd'[d] = "WAIT" <=> t[d] = "WAIT"
                \/ /\ UNCHANGED losses
                   /\ WriteToBoard(Request(c))
                   /\ \A d \in Codes : cmd'[d] = "WAIT" <=> d = c
                   /\ c = COMM_ID_START_NO_PARAMS =>
                        scanState' # "SCANNING" /\ t[COMM_ID_STOP] # "REQUEST"
  <2>1. c \in Sendable /\ \A d \in Codes : t[d] = "REQUEST" => c =< d
    BY <1>3 DEF InState
  <2>2. c = COMM_ID_START_NO_PARAMS => t[COMM_ID_STOP] # "REQUEST"
    BY <2>1 DEF Codes
  <2> HIDE DEF next
  <2> QED
    BY <1>3, <2>1, <2>2, SendEffect
<1> QED
  BY <1>1, <1>2, <1>3 DEF ServeRequest

LEMMA RestEffect ==
    ASSUME NEW t, TableOK(t), losses \in Nat, baudState \in BaudState, Rest(t)
    PROVE  /\ TableOK(cmd') /\ KeepsWants(t, cmd') /\ Writes(t)
           /\ losses' \in Nat
           /\ baudState' \in BaudState /\ json' = json
           /\ appState \in {"WORK", "GET_BAUD"} /\ appState' \in ApplicationState
           /\ appState = "WORK" => appState' = "WORK"
           /\ appState # "WORK" /\ appState' = "WORK" =>
                /\ t[COMM_ID_READ_FIRMWARE_VERSION] = "SUCCES"
                /\ cmd'[COMM_ID_STOP] = "REQUEST"
           /\ appState' \notin {"GET_BAUD", "WORK"} =>
                cmd'[COMM_ID_READ_FIRMWARE_VERSION] # "WAIT"
<1>1. CASE appState = "WORK" /\ PollRest(t)
  <2>1. appState' = "WORK" /\ baudState' = baudState /\ json' = json
    BY <1>1 DEF PollRest
  <2>2. CASE isWaitingCommands(t) /\ cmd' = t /\ UNCHANGED <<toBoard, losses>>
    BY <1>1, <2>1, <2>2 DEF ApplicationState, KeepsWants, Writes
  <2>3. CASE /\ ~isWaitingCommands(t)
             /\ ServeRequest(switchExecuteCommand(checkErrorCommand(t)))
    <3> DEFINE w == switchExecuteCommand(checkErrorCommand(t))
    <3>1. /\ TableOK(w) /\ ~isWaitingCommands(w) /\ KeepsWants(t, w)
          /\ StopWanted(t) => w[COMM_ID_STOP] = "REQUEST"
      BY <2>3, SwitchOK, SwitchKeeps
    <3> HIDE DEF w
    <3>2. ServeRequest(w)
      BY <2>3 DEF w
    <3>3. /\ TableOK(cmd') /\ KeepsWants(w, cmd')
          /\ UNCHANGED losses \/ CountLoss
          /\ \/ UNCHANGED toBoard /\ \A d \in Codes : cmd'[d] = "WAIT" <=> w[d] = "WAIT"
             \/ /\ UNCHANGED losses
                /\ \E c \in Sendable :
                     /\ WriteToBoard(Request(c))
                     /\ \A d \in Codes : cmd'[d] = "WAIT" <=> d = c
                     /\ c = COMM_ID_START_NO_PARAMS =>
                          scanState' # "SCANNING" /\ w[COMM_ID_STOP] # "REQUEST"
      BY <1>1, <3>1, <3>2, ServeEffect
    <3>4. \A d \in Codes : t[d] # "WAIT" /\ w[d] # "WAIT"
      BY <2>3, <3>1 DEF isWaitingCommands, InState
    <3>5. Writes(t)
      BY <1>1, <2>3, <3>1, <3>3, <3>4 DEF Writes
    <3>6. KeepsWants(t, cmd')
      BY <3>1, <3>3, KeepsTransitive
    <3> QED
      BY <1>1, <2>1, <3>3, <3>5, <3>6 DEF ApplicationState, CountLoss
  <2> QED
    BY <1>1, <2>2, <2>3 DEF PollRest
<1>2. CASE appState = "GET_BAUD" /\ BaudRest(t)
  <2>1. json' = json
    BY <1>2 DEF BaudRest
  <2>2. CASE isWaitingCommands(t) /\ cmd' = t /\ UNCHANGED <<appState, baudState, toBoard, losses>>
    BY <1>2, <2>1, <2>2 DEF ApplicationState, BaudState, KeepsWants, Writes
  <2>3. CASE /\ ~isWaitingCommands(t)
             /\ appState' = "INIT_BOARD" /\ baudState' = "SWITCH_BAUD"
             /\ cmd' = t /\ UNCHANGED <<toBoard, losses>>
    <3>1. cmd'[COMM_ID_READ_FIRMWARE_VERSION] # "WAIT"
      BY <2>3 DEF isWaitingCommands, InState, Codes
    <3> QED
      BY <1>2, <2>1, <2>3, <3>1 DEF ApplicationState, BaudState, KeepsWants, Writes
  <2>4. CASE /\ ~isWaitingCommands(t) /\ t[COMM_ID_READ_FIRMWARE_VERSION] = "SUCCES"
             /\ appState' = "WORK" /\ baudState' = "NOT_SWITCH_BAUD"
             /\ cmd' = [t EXCEPT ![COMM_ID_STOP] = "REQUEST"]
             /\ UNCHANGED <<toBoard, losses>>
    <3>1. cmd' \in [Codes -> CommandState]
      BY <2>4 DEF TableOK, CommandState, Codes
    <3>2. \A d \in Codes : cmd'[d] = IF d = COMM_ID_STOP THEN "REQUEST" ELSE t[d]
      BY <2>4 DEF TableOK
    <3>3. TableOK(cmd')
      BY <3>1, <3>2 DEF TableOK, Sendable
    <3>4. KeepsWants(t, cmd')
      BY <3>2 DEF KeepsWants, Busy, StopWanted, Codes
    <3>5. \A d \in Codes : t[d] # "WAIT" /\ cmd'[d] # "WAIT"
      BY <2>4, <3>2 DEF isWaitingCommands, InState
    <3>6. cmd'[COMM_ID_STOP] = "REQUEST"
      BY <3>2 DEF Codes
    <3> QED
      BY <1>2, <2>1, <2>4, <3>3, <3>4, <3>5, <3>6 DEF ApplicationState, BaudState, Writes
  <2>5. CASE /\ ~isWaitingCommands(t)
             /\ SendCommand(t, COMM_ID_READ_FIRMWARE_VERSION)
             /\ UNCHANGED <<appState, baudState>>
    <3>1. COMM_ID_READ_FIRMWARE_VERSION \in Sendable
      BY DEF Sendable
    <3>2. /\ TableOK(cmd') /\ KeepsWants(t, cmd')
          /\ UNCHANGED losses \/ CountLoss
          /\ \/ UNCHANGED toBoard /\ cmd' = t
             \/ /\ WriteToBoard(Request(COMM_ID_READ_FIRMWARE_VERSION)) /\ UNCHANGED losses
                /\ \A d \in Codes :
                     cmd'[d] = "WAIT" <=> d = COMM_ID_READ_FIRMWARE_VERSION
      BY <2>5, <3>1, SendEffect
    <3>3. Writes(t)
      BY <2>5, <3>1, <3>2 DEF Writes
    <3> QED
      BY <1>2, <2>1, <2>5, <3>2, <3>3 DEF ApplicationState, CountLoss
  <2> QED
    BY <1>2, <2>2, <2>3, <2>4, <2>5 DEF BaudRest
<1> QED
  BY <1>1, <1>2 DEF Rest

\* A tick that is no mishap fails an unrepeatable command only when its answer
\* can no longer come.
LEMMA TickEffect ==
    ASSUME TableOK(cmd), NEW expired \in Expired, Premature(expired) = FALSE
    PROVE  /\ TableOK(timerTick(cmd, expired))
           /\ KeepsWants(cmd, timerTick(cmd, expired))
           /\ \A c \in Unrepeatable :
                cmd[c] = "WAIT" /\ Coming(c) => timerTick(cmd, expired)[c] = "WAIT"
<1>1. expired \in SUBSET InState(cmd, "WAIT")
  BY DEF Expired
<1>2. TableOK(timerTick(cmd, expired))
  BY <1>1, TickOK
<1>3. \A c \in Codes : timerTick(cmd, expired)[c] = IF c \in expired THEN "FAIL" ELSE cmd[c]
  BY DEF timerTick
<1>4. \A c \in expired : c \in Codes /\ cmd[c] = "WAIT"
  BY <1>1 DEF InState
<1>5. KeepsWants(cmd, timerTick(cmd, expired))
  BY <1>3, <1>4 DEF KeepsWants, Busy, StopWanted, Codes
<1>6. \A c \in expired : c \in Unrepeatable => ~Coming(c)
  BY DEF Premature
<1>7. \A c \in Unrepeatable : c \in Codes
  BY DEF Unrepeatable, Codes
<1> QED
  BY <1>2, <1>3, <1>5, <1>6, <1>7

\* An answer resolves the command that waits for it and no other; a stop
\* answer, and a start answer that does not fit the conversion file, leave the
\* client busy.
LEMMA AnswerEffect ==
    ASSUME NEW t, TableOK(t), NEW m \in Messages
    PROVE  /\ TableOK(Answered(t, m))
           /\ \A c \in {COMM_ID_READ_FIRMWARE_VERSION, COMM_ID_START_NO_PARAMS} :
                t[c] = "WAIT" /\ m.code # c => Answered(t, m)[c] = "WAIT"
           /\ Busy(t) /\ m.code # COMM_ID_START_NO_PARAMS => Busy(Answered(t, m))
           /\ m.code = COMM_ID_STOP => Busy(Answered(t, m))
           /\ m.code = COMM_ID_START_NO_PARAMS /\ Mismatch(m.conf) => Busy(Answered(t, m))
           /\ StopWanted(t) /\ m.code # COMM_ID_STOP => StopWanted(Answered(t, m))
           /\ Answered(t, m)[COMM_ID_READ_FIRMWARE_VERSION] = "SUCCES" =>
                \/ t[COMM_ID_READ_FIRMWARE_VERSION] = "SUCCES"
                \/ m.code = COMM_ID_READ_FIRMWARE_VERSION
<1> DEFINE u == Answered(t, m)
<1>1. \A c \in Codes :
        u[c] = IF c = m.code /\ c # COMM_ID_STOP_CAN THEN "SUCCES"
               ELSE IF m.code = COMM_ID_START_NO_PARAMS /\ c = COMM_ID_WRITE_CONFIG
                       /\ Mismatch(m.conf)
                    THEN "REQUEST" ELSE t[c]
  BY DEF Answered
<1>2. TableOK(u)
  BY AnsweredOK
<1> HIDE DEF u
<1>3. \A c \in {COMM_ID_READ_FIRMWARE_VERSION, COMM_ID_START_NO_PARAMS} :
        t[c] = "WAIT" /\ m.code # c => u[c] = "WAIT"
  BY <1>1 DEF Codes
<1>4. Busy(t) /\ m.code # COMM_ID_START_NO_PARAMS => Busy(u)
  BY <1>1 DEF Busy, Codes
<1>5. /\ m.code = COMM_ID_STOP => Busy(u)
      /\ m.code = COMM_ID_START_NO_PARAMS /\ Mismatch(m.conf) => Busy(u)
  BY <1>1 DEF Busy, Codes
<1>6. StopWanted(t) /\ m.code # COMM_ID_STOP => StopWanted(u)
  BY <1>1 DEF StopWanted, Codes
<1>7. u[COMM_ID_READ_FIRMWARE_VERSION] = "SUCCES" =>
        \/ t[COMM_ID_READ_FIRMWARE_VERSION] = "SUCCES"
        \/ m.code = COMM_ID_READ_FIRMWARE_VERSION
  BY <1>1 DEF Codes
<1> QED
  BY <1>2, <1>3, <1>4, <1>5, <1>6, <1>7 DEF u

\* The types of what an answer changes.
LEMMA AnswerTypes ==
    ASSUME HostTypeOK, NEW m \in Messages, answerParser(m)
    PROVE  /\ scanState' \in ScanState
           /\ boardSettings' \in Configs /\ scanSettings' \in Configs
           /\ frameBuffer' \in Seq(Nat) /\ Len(frameBuffer') =< FRAME_BUFFER_SIZE
           /\ m.code = COMM_ID_STOP => scanState' = "STOPED"
           /\ m.code = COMM_ID_START_NO_PARAMS =>
                scanState' = "SCANNING" /\ (Mismatch(m.conf) \/ scanSettings' = m.conf)
           /\ m.code \notin {COMM_ID_STOP, COMM_ID_START_NO_PARAMS} =>
                UNCHANGED <<scanState, scanSettings>>
<1>1. /\ m.conf \in Configs
      /\ json.x \in Dims /\ json.y \in Dims
      /\ scanState \in ScanState /\ boardSettings \in Configs /\ scanSettings \in Configs
      /\ frameBuffer \in Seq(Nat) /\ Len(frameBuffer) =< FRAME_BUFFER_SIZE
  BY LinkAssumption, HostAssumption DEF HostTypeOK, NoJson, Messages
<1>2. \A c \in Configs : Points(c) \in Nat
  <2>1. \A x, y \in Nat : x * y \in Nat
    OBVIOUS
  <2>2. \A c \in Configs : c.x \in Nat /\ c.y \in Nat
    BY LinkAssumption DEF Configs
  <2> QED
    BY <2>1, <2>2 DEF Points
<1>3. CASE AnswerStop(m)
  BY <1>1, <1>3, HostAssumption DEF AnswerStop, ScanState
<1>4. CASE AnswerFrame(m)
  <2>1. /\ UNCHANGED <<scanState, scanSettings, boardSettings>>
        /\ m.code = COMM_ID_FRAME
    BY <1>4 DEF AnswerFrame
  <2>2. CASE /\ Len(frameBuffer) < FRAME_BUFFER_SIZE
             /\ frameBuffer' = Append(frameBuffer, Points(m.conf))
    <3>1. Points(m.conf) \in Nat
      BY <1>1, <1>2
    <3> QED
      BY <1>1, <2>1, <2>2, <3>1, HostAssumption
  <2>3. CASE frameBuffer' = frameBuffer
    BY <1>1, <2>1, <2>3
  <2> QED
    BY <1>4, <2>2, <2>3 DEF AnswerFrame
<1>5. CASE AnswerReadConfig(m)
  BY <1>1, <1>5 DEF AnswerReadConfig
<1>6. CASE AnswerStartNoParams(m)
  <2>1. SettingsOf(m) \in Configs /\ (Mismatch(m.conf) \/ SettingsOf(m) = m.conf)
    BY <1>1 DEF SettingsOf, Configs
  <2> QED
    BY <1>1, <1>6, <2>1, HostAssumption DEF AnswerStartNoParams, ScanState
<1>7. CASE AnswerPlain(m)
  BY <1>1, <1>7 DEF AnswerPlain
<1> QED
  BY <1>3, <1>4, <1>5, <1>6, <1>7 DEF answerParser

-----------------------------------------------------------------------------
(* The first half of an iteration, up to the table t.                      *)

\* The answers that are left when the oldest is gone, and what they tell.
LEMMA VerdictsShift ==
    ASSUME toHost \in Seq(Messages), toHost # <<>>, toHost' = Tail(toHost)
    PROVE  /\ \A i \in DOMAIN toHost' :
                /\ i + 1 \in DOMAIN toHost /\ toHost'[i] = toHost[i + 1]
                /\ LastStart(i)' => LastStart(i + 1)
           /\ \A i \in DOMAIN toHost : LastStart(i) =>
                \/ i = 1
                \/ i - 1 \in DOMAIN toHost' /\ LastStart(i - 1)'
           /\ \A i \in DOMAIN toHost : i # 1 =>
                i - 1 \in DOMAIN toHost' /\ toHost'[i - 1] = toHost[i]
<1>1. toHost \in Seq(Messages) /\ Len(toHost) \in Nat \ {0}
  BY EmptySeq
<1>2. /\ DOMAIN toHost' = 1 .. Len(toHost) - 1 /\ DOMAIN toHost = 1 .. Len(toHost)
      /\ \A i \in 1 .. Len(toHost) - 1 : toHost'[i] = toHost[i + 1]
  <2>1. 1 \in 0 .. Len(toHost)
    BY <1>1
  <2> QED
    BY <1>1, <2>1, Remainder
<1>3. \A i \in DOMAIN toHost' : LastStart(i)' => LastStart(i + 1) /\ i + 1 \in DOMAIN toHost
  <2> SUFFICES ASSUME NEW i \in DOMAIN toHost', LastStart(i)'
               PROVE  LastStart(i + 1) /\ i + 1 \in DOMAIN toHost
    OBVIOUS
  <2>1. i \in 1 .. Len(toHost) - 1 /\ i + 1 \in 1 .. Len(toHost)
    BY <1>1, <1>2
  <2>2. toHost[i + 1].code = COMM_ID_START_NO_PARAMS
    BY <1>2, <2>1 DEF LastStart
  <2>3. ASSUME NEW j \in DOMAIN toHost, toHost[j].code = COMM_ID_STOP
        PROVE  j < i + 1
    <3>1. CASE j = 1
      BY <1>1, <2>1, <3>1
    <3>2. CASE j # 1
      <4>1. j - 1 \in 1 .. Len(toHost) - 1 /\ j = (j - 1) + 1 /\ j \in Int
        BY <1>1, <1>2, <3>2
      <4>2. toHost'[j - 1] = toHost[j]
        BY <1>2, <4>1
      <4>3. j - 1 < i
        BY <1>2, <2>3, <4>1, <4>2 DEF LastStart
      <4> QED
        BY <2>1, <4>1, <4>3
    <3> QED
      BY <3>1, <3>2
  <2> QED
    BY <1>2, <2>1, <2>2, <2>3 DEF LastStart
<1>4. \A i \in DOMAIN toHost : LastStart(i) =>
         \/ i = 1
         \/ i - 1 \in DOMAIN toHost' /\ LastStart(i - 1)'
  <2> SUFFICES ASSUME NEW i \in DOMAIN toHost, LastStart(i), i # 1
               PROVE  i - 1 \in DOMAIN toHost' /\ LastStart(i - 1)'
    OBVIOUS
  <2>1. i - 1 \in 1 .. Len(toHost) - 1 /\ i = (i - 1) + 1 /\ i \in Int
    BY <1>1, <1>2
  <2>2. toHost'[i - 1] = toHost[i]
    BY <1>2, <2>1
  <2>3. ASSUME NEW j \in DOMAIN toHost', toHost'[j].code = COMM_ID_STOP
        PROVE  j < i - 1
    <3>1. j + 1 \in DOMAIN toHost /\ toHost[j + 1].code = COMM_ID_STOP /\ j \in Int
      BY <1>1, <1>2, <2>3
    <3>2. j + 1 < i
      BY <3>1 DEF LastStart
    <3> QED
      BY <2>1, <3>1, <3>2
  <2> QED
    BY <1>2, <2>1, <2>2, <2>3 DEF LastStart
<1>5. \A i \in DOMAIN toHost : i # 1 =>
         i - 1 \in DOMAIN toHost' /\ toHost'[i - 1] = toHost[i]
  <2> SUFFICES ASSUME NEW i \in DOMAIN toHost, i # 1
               PROVE  i - 1 \in DOMAIN toHost' /\ toHost'[i - 1] = toHost[i]
    OBVIOUS
  <2>1. i - 1 \in 1 .. Len(toHost) - 1 /\ i = (i - 1) + 1
    BY <1>1, <1>2
  <2> QED
    BY <1>2, <2>1
<1>6. \A i \in DOMAIN toHost' : i + 1 \in DOMAIN toHost /\ toHost'[i] = toHost[i + 1]
  BY <1>1, <1>2
<1> QED
  BY <1>3, <1>4, <1>5, <1>6

\* What holds when the line has been read and before anything is written.
Entered(t) ==
    /\ TableOK(t)
    /\ toHost' \in Seq(Messages) /\ scanState' \in ScanState
    /\ boardSettings' \in Configs /\ scanSettings' \in Configs
    /\ frameBuffer' \in Seq(Nat) /\ Len(frameBuffer') =< FRAME_BUFFER_SIZE
    /\ \A c \in Codes : /\ In(toHost', c) => In(toHost, c)
                        /\ Once(toHost, c) => Once(toHost', c)
    /\ \A c \in {COMM_ID_READ_FIRMWARE_VERSION, COMM_ID_START_NO_PARAMS} :
         Alone(c) /\ cmd[c] = "WAIT" /\ (In(toBoard, c) \/ In(toHost', c)) => t[c] = "WAIT"
    /\ ~Awaited(COMM_ID_START_NO_PARAMS) =>
         /\ t[COMM_ID_READ_FIRMWARE_VERSION] # "SUCCES"
         /\ \A i, j \in DOMAIN toHost' :
              toHost'[i].code = COMM_ID_START_NO_PARAMS
              /\ toHost'[j].code = COMM_ID_READ_FIRMWARE_VERSION => i < j
    /\ appState = "WORK" /\ scanState' # "SCANNING" => Busy(t)
    /\ appState = "WORK" /\ scanState' = "UNDEFINED" => StopWanted(t)
    /\ \A i \in DOMAIN toHost' : LastStart(i)' =>
         scanning /\ Points(toHost'[i].conf) = Points(Top.conf)
    /\ scanning => \/ \E i \in DOMAIN toHost' : LastStart(i)'
                   \/ NoVerdict' /\ scanState' \in {"SCANNING", "UNDEFINED"}
    /\ NoVerdict' /\ scanState' = "SCANNING" =>
         scanning /\ (Points(scanSettings') = Points(Top.conf) \/ Busy(t))

\* No complete answer was on the line.
LEMMA SilentEntered ==
    ASSUME SysInv, NEW expired \in Expired, Premature(expired) = FALSE,
           UNCHANGED <<scanState, scanSettings, boardSettings, frameBuffer, toHost>>
    PROVE  Entered(timerTick(cmd, expired))
<1> DEFINE t == timerTick(cmd, expired)
<1>1. /\ TableOK(t) /\ KeepsWants(cmd, t)
      /\ \A c \in Unrepeatable : cmd[c] = "WAIT" /\ Coming(c) => t[c] = "WAIT"
  BY TickEffect DEF SysInv
<1> HIDE DEF t
<1>2. /\ toHost' \in Seq(Messages) /\ scanState' \in ScanState
      /\ boardSettings' \in Configs /\ scanSettings' \in Configs
      /\ frameBuffer' \in Seq(Nat) /\ Len(frameBuffer') =< FRAME_BUFFER_SIZE
  BY DEF SysInv, HostTypeOK, BoardInv, BoardTypeInvariant, LinkTypeOK
<1>3. \A c \in {COMM_ID_READ_FIRMWARE_VERSION, COMM_ID_START_NO_PARAMS} :
         cmd[c] = "WAIT" /\ (In(toBoard, c) \/ In(toHost', c)) => t[c] = "WAIT"
  BY <1>1 DEF Coming, In, Unrepeatable
<1>4. ~Awaited(COMM_ID_START_NO_PARAMS) =>
        /\ t[COMM_ID_READ_FIRMWARE_VERSION] # "SUCCES"
        /\ \A i, j \in DOMAIN toHost' :
             toHost'[i].code = COMM_ID_START_NO_PARAMS
             /\ toHost'[j].code = COMM_ID_READ_FIRMWARE_VERSION => i < j
  <2>1. ~Awaited(COMM_ID_START_NO_PARAMS) => Outdated
    BY DEF SysInv, StartsMatched
  <2> QED
    BY <1>1, <2>1 DEF Outdated, KeepsWants
<1>5. /\ appState = "WORK" /\ scanState' # "SCANNING" => Busy(t)
      /\ appState = "WORK" /\ scanState' = "UNDEFINED" => StopWanted(t)
  BY <1>1 DEF SysInv, StartsAgain, KeepsWants, StopWanted
<1>6. /\ \A i \in DOMAIN toHost' : LastStart(i)' =>
           scanning /\ Points(toHost'[i].conf) = Points(Top.conf)
      /\ scanning => \/ \E i \in DOMAIN toHost' : LastStart(i)'
                     \/ NoVerdict' /\ scanState' \in {"SCANNING", "UNDEFINED"}
      /\ NoVerdict' /\ scanState' = "SCANNING" =>
           scanning /\ (Points(scanSettings') = Points(Top.conf) \/ Busy(t))
  BY <1>1 DEF SysInv, AnswersTell, LastStart, NoVerdict, In, KeepsWants
<1> QED
  BY <1>1, <1>2, <1>3, <1>4, <1>5, <1>6 DEF Entered, t

\* The oldest answer was taken from the line.
LEMMA AnswerEntered ==
    ASSUME SysInv, NEW expired \in Expired, Premature(expired) = FALSE,
           toHost # <<>>, toHost' = Tail(toHost), answerParser(Head(toHost))
    PROVE  Entered(Answered(timerTick(cmd, expired), Head(toHost)))
<1> DEFINE t == timerTick(cmd, expired)
           m == Head(toHost)
           u == Answered(t, m)
<1>1. /\ TableOK(t) /\ KeepsWants(cmd, t)
      /\ \A c \in Unrepeatable : cmd[c] = "WAIT" /\ Coming(c) => t[c] = "WAIT"
  BY TickEffect DEF SysInv
<1>2. toHost \in Seq(Messages) /\ Len(toHost) \in Nat \ {0}
  BY EmptySeq DEF SysInv, BoardInv, BoardTypeInvariant, LinkTypeOK
<1>3. m \in Messages /\ m = toHost[1] /\ 1 \in 0 .. Len(toHost)
  BY <1>2
<1>4. /\ toHost' \in Seq(Messages)
      /\ DOMAIN toHost' = 1 .. Len(toHost) - 1 /\ DOMAIN toHost = 1 .. Len(toHost)
      /\ \A i \in 1 .. Len(toHost) - 1 : toHost'[i] = toHost[i + 1]
  BY <1>2, <1>3, Remainder
<1>5. \A c \in Codes : /\ In(toHost', c) => In(toHost, c)
                       /\ Once(toHost, c) => Once(toHost', c)
                       /\ Once(toHost, c) /\ m.code = c => ~In(toHost', c)
  <2>1. toHost # <<>> /\ 1 = 1 /\ toHost' = Tail(toHost) /\ 1 >= 1
    OBVIOUS
  <2> SUFFICES ASSUME NEW c \in Codes
               PROVE  /\ In(toHost', c) => In(toHost, c)
                      /\ Once(toHost, c) => Once(toHost', c)
                      /\ Once(toHost, c) /\ Head(toHost).code = c => ~In(toHost', c)
    OBVIOUS
  <2>2. /\ In(toHost', c) => In(toHost, c)
        /\ Once(toHost, c) => Once(toHost', c)
        /\ Once(toHost, c) /\ 1 >= 1 /\ Head(toHost).code = c => ~In(toHost', c)
    BY <1>2, <1>3, <2>1, RemainderQueue
  <2> QED
    BY <2>1, <2>2
<1> HIDE DEF t, m
<1>6. /\ TableOK(u)
      /\ \A c \in {COMM_ID_READ_FIRMWARE_VERSION, COMM_ID_START_NO_PARAMS} :
           t[c] = "WAIT" /\ m.code # c => u[c] = "WAIT"
      /\ Busy(t) /\ m.code # COMM_ID_START_NO_PARAMS => Busy(u)
      /\ m.code = COMM_ID_STOP => Busy(u)
      /\ m.code = COMM_ID_START_NO_PARAMS /\ Mismatch(m.conf) => Busy(u)
      /\ StopWanted(t) /\ m.code # COMM_ID_STOP => StopWanted(u)
      /\ u[COMM_ID_READ_FIRMWARE_VERSION] = "SUCCES" =>
           \/ t[COMM_ID_READ_FIRMWARE_VERSION] = "SUCCES"
           \/ m.code = COMM_ID_READ_FIRMWARE_VERSION
  BY <1>1, <1>3, AnswerEffect
<1> HIDE DEF u
<1>7. /\ scanState' \in ScanState
      /\ boardSettings' \in Configs /\ scanSettings' \in Configs
      /\ frameBuffer' \in Seq(Nat) /\ Len(frameBuffer') =< FRAME_BUFFER_SIZE
      /\ m.code = COMM_ID_STOP => scanState' = "STOPED"
      /\ m.code = COMM_ID_START_NO_PARAMS =>
           scanState' = "SCANNING" /\ (Mismatch(m.conf) \/ scanSettings' = m.conf)
      /\ m.code \notin {COMM_ID_STOP, COMM_ID_START_NO_PARAMS} =>
           UNCHANGED <<scanState, scanSettings>>
  BY <1>3, AnswerTypes DEF SysInv, m
<1>8. \A c \in {COMM_ID_READ_FIRMWARE_VERSION, COMM_ID_START_NO_PARAMS} :
        Alone(c) /\ cmd[c] = "WAIT" /\ (In(toBoard, c) \/ In(toHost', c)) => u[c] = "WAIT"
  <2> SUFFICES ASSUME NEW c \in {COMM_ID_READ_FIRMWARE_VERSION, COMM_ID_START_NO_PARAMS},
                      Alone(c), cmd[c] = "WAIT", In(toBoard, c) \/ In(toHost', c)
               PROVE  u[c] = "WAIT"
    OBVIOUS
  <2>1. c \in Codes
    BY DEF Codes
  <2>2. t[c] = "WAIT"
    BY <1>1, <1>5, <2>1 DEF Coming, In, Unrepeatable
  <2>3. m.code # c
    <3>1. ASSUME m.code = c  PROVE  FALSE
      <4>1. In(toHost, c)
        BY <1>2, <1>3, <1>4, <3>1 DEF In
      <4> QED
        BY <1>5, <2>1, <3>1, <4>1 DEF Alone
    <3> QED
      BY <3>1
  <2> QED
    BY <1>6, <2>2, <2>3
<1>9. ASSUME ~Awaited(COMM_ID_START_NO_PARAMS)
      PROVE  /\ u[COMM_ID_READ_FIRMWARE_VERSION] # "SUCCES"
             /\ \A i, j \in DOMAIN toHost' :
                  toHost'[i].code = COMM_ID_START_NO_PARAMS
                  /\ toHost'[j].code = COMM_ID_READ_FIRMWARE_VERSION => i < j
  <2>1. Outdated /\ Coming(COMM_ID_START_NO_PARAMS)
    BY <1>9 DEF SysInv, StartsMatched, Awaited
  <2>2. m.code # COMM_ID_READ_FIRMWARE_VERSION
    <3>1. ASSUME m.code = COMM_ID_READ_FIRMWARE_VERSION  PROVE  FALSE
      <4>1. In(toHost, COMM_ID_READ_FIRMWARE_VERSION) /\ 1 \in DOMAIN toHost
        BY <1>2, <1>3, <1>4, <3>1 DEF In
      <4>2. ~In(toBoard, COMM_ID_START_NO_PARAMS)
        BY <2>1, <4>1 DEF Outdated
      <4>3. PICK i \in DOMAIN toHost : toHost[i].code = COMM_ID_START_NO_PARAMS
        BY <2>1, <4>2 DEF Coming, In
      <4>4. i < 1
        BY <1>3, <2>1, <3>1, <4>1, <4>3 DEF Outdated
      <4> QED
        BY <1>2, <1>4, <4>4
    <3> QED
      BY <3>1
  <2>3. u[COMM_ID_READ_FIRMWARE_VERSION] # "SUCCES"
    BY <1>1, <1>6, <2>1, <2>2 DEF Outdated, KeepsWants
  <2>4. \A i, j \in DOMAIN toHost' :
          toHost'[i].code = COMM_ID_START_NO_PARAMS
          /\ toHost'[j].code = COMM_ID_READ_FIRMWARE_VERSION => i < j
    <3> SUFFICES ASSUME NEW i \in DOMAIN toHost', NEW j \in DOMAIN toHost',
                        toHost'[i].code = COMM_ID_START_NO_PARAMS,
                        toHost'[j].code = COMM_ID_READ_FIRMWARE_VERSION
                 PROVE  i < j
      OBVIOUS
    <3>1. /\ i + 1 \in DOMAIN toHost /\ toHost[i + 1].code = COMM_ID_START_NO_PARAMS
          /\ j + 1 \in DOMAIN toHost /\ toHost[j + 1].code = COMM_ID_READ_FIRMWARE_VERSION
      BY <1>2, <1>4
    <3>2. i + 1 < j + 1
      BY <2>1, <3>1 DEF Outdated
    <3> QED
      BY <1>2, <1>4, <3>2
  <2> QED
    BY <2>3, <2>4
<1>10. /\ appState = "WORK" /\ scanState' # "SCANNING" => Busy(u)
       /\ appState = "WORK" /\ scanState' = "UNDEFINED" => StopWanted(u)
  BY <1>1, <1>6, <1>7 DEF SysInv, StartsAgain, KeepsWants, StopWanted
<1>11. /\ \A i \in DOMAIN toHost' : LastStart(i)' => LastStart(i + 1) /\ i + 1 \in DOMAIN toHost
       /\ \A i \in DOMAIN toHost : LastStart(i) =>
            \/ i = 1
            \/ i - 1 \in DOMAIN toHost' /\ LastStart(i - 1)'
       /\ \A i \in DOMAIN toHost : i # 1 =>
            i - 1 \in DOMAIN toHost' /\ toHost'[i - 1] = toHost[i]
  BY <1>2, VerdictsShift
<1>12. \A i \in DOMAIN toHost' : LastStart(i)' =>
         scanning /\ Points(toHost'[i].conf) = Points(Top.conf)
  BY <1>4, <1>11 DEF SysInv, AnswersTell
<1>13. LastStart(1) => NoVerdict' /\ m.code = COMM_ID_START_NO_PARAMS
  <2> SUFFICES ASSUME LastStart(1)
               PROVE  NoVerdict' /\ m.code = COMM_ID_START_NO_PARAMS
    OBVIOUS
  <2>1. m.code = COMM_ID_START_NO_PARAMS
    BY <1>3 DEF LastStart
  <2>2. ~In(toHost', COMM_ID_START_NO_PARAMS)
    BY <1>5, <2>1 DEF SysInv, StartsMatched, Alone, Codes
  <2>3. ASSUME NEW j \in DOMAIN toHost', toHost'[j].code = COMM_ID_STOP  PROVE  FALSE
    <3>1. j + 1 \in DOMAIN toHost /\ toHost[j + 1].code = COMM_ID_STOP /\ j \in Nat \ {0}
      BY <1>2, <1>4, <2>3
    <3>2. j + 1 < 1
      BY <3>1 DEF LastStart
    <3> QED
      BY <3>1, <3>2
  <2> QED
    BY <2>1, <2>2, <2>3 DEF NoVerdict, In
<1>14. NoVerdict => NoVerdict' /\ m.code \notin {COMM_ID_STOP, COMM_ID_START_NO_PARAMS}
  <2>1. NoVerdict => NoVerdict'
    BY <1>5 DEF NoVerdict, Codes, In
  <2>2. In(toHost, m.code)
    BY <1>2, <1>3, <1>4 DEF In
  <2> QED
    BY <2>1, <2>2 DEF NoVerdict
<1>15. scanning => \/ \E i \in DOMAIN toHost' : LastStart(i)'
                   \/ NoVerdict' /\ scanState' \in {"SCANNING", "UNDEFINED"}
  <2> SUFFICES ASSUME scanning
               PROVE  \/ \E i \in DOMAIN toHost' : LastStart(i)'
                      \/ NoVerdict' /\ scanState' \in {"SCANNING", "UNDEFINED"}
    OBVIOUS
  <2>1. CASE \E i \in DOMAIN toHost : LastStart(i)
    BY <1>7, <1>11, <1>13, <2>1
  <2>2. CASE NoVerdict /\ scanState \in {"SCANNING", "UNDEFINED"}
    BY <1>7, <1>14, <2>2
  <2> QED
    BY <2>1, <2>2 DEF SysInv, AnswersTell
<1>16. NoVerdict' /\ scanState' = "SCANNING" =>
         scanning /\ (Points(scanSettings') = Points(Top.conf) \/ Busy(u))
  <2> SUFFICES ASSUME NoVerdict', scanState' = "SCANNING"
               PROVE  scanning /\ (Points(scanSettings') = Points(Top.conf) \/ Busy(u))
    OBVIOUS
  <2>1. CASE m.code = COMM_ID_START_NO_PARAMS
    <3>1. ASSUME NEW j \in DOMAIN toHost, toHost[j].code = COMM_ID_STOP  PROVE  FALSE
      <4>1. j # 1
        BY <1>3, <2>1, <3>1
      <4>2. j - 1 \in DOMAIN toHost' /\ toHost'[j - 1].code = COMM_ID_STOP
        BY <1>11, <3>1, <4>1
      <4> QED
        BY <4>2 DEF NoVerdict, In
    <3>2. LastStart(1) /\ 1 \in DOMAIN toHost
      BY <1>2, <1>3, <1>4, <2>1, <3>1 DEF LastStart
    <3>3. scanning /\ Points(m.conf) = Points(Top.conf)
      BY <1>3, <3>2 DEF SysInv, AnswersTell
    <3> QED
      BY <1>6, <1>7, <2>1, <3>3
  <2>2. CASE m.code = COMM_ID_STOP
    BY <1>7, <2>2
  <2>3. CASE m.code \notin {COMM_ID_STOP, COMM_ID_START_NO_PARAMS}
    <3>1. UNCHANGED <<scanState, scanSettings>>
      BY <1>7, <2>3
    <3>2. NoVerdict
      <4>1. ASSUME NEW c \in {COMM_ID_STOP, COMM_ID_START_NO_PARAMS},
                   NEW j \in DOMAIN toHost, toHost[j].code = c
            PROVE  FALSE
        <5>1. j # 1
          BY <1>3, <2>3, <4>1
        <5>2. j - 1 \in DOMAIN toHost' /\ toHost'[j - 1].code = c
          BY <1>11, <4>1, <5>1
        <5> QED
          BY <5>2 DEF NoVerdict, In
      <4> QED
        BY <4>1 DEF NoVerdict, In
    <3>3. scanning /\ (Points(scanSettings) = Points(Top.conf) \/ Busy(cmd))
      BY <3>1, <3>2 DEF SysInv, AnswersTell
    <3> QED
      BY <1>1, <1>6, <2>3, <3>1, <3>3 DEF KeepsWants
  <2> QED
    BY <2>1, <2>2, <2>3
<1> QED
  BY <1>4, <1>5, <1>6, <1>7, <1>8, <1>9, <1>10, <1>12, <1>15, <1>16 DEF Entered, u, t, m

-----------------------------------------------------------------------------
(* The second half of an iteration.                                        *)

\* The line after an iteration that started to write from the table t.
LEMMA LineAfter ==
    ASSUME NEW t, toBoard \in Seq(Messages), scanSettings' \in Configs, Writes(t)
    PROVE  /\ toBoard' \in Seq(Messages)
           /\ (\A i \in DOMAIN toBoard : toBoard[i].code \in Sendable) =>
                (\A i \in DOMAIN toBoard' : toBoard'[i].code \in Sendable)
           /\ \/ toBoard' = toBoard /\ \A d \in Codes : cmd'[d] = "WAIT" <=> t[d] = "WAIT"
              \/ /\ \A d \in Codes : t[d] # "WAIT"
                 /\ \E c \in Sendable :
                      /\ toBoard' = Append(toBoard, Request(c))
                      /\ Request(c) \in Messages /\ Request(c).code = c
                      /\ \A d \in Codes : cmd'[d] = "WAIT" <=> d = c
                      /\ c = COMM_ID_START_NO_PARAMS =>
                           scanState' # "SCANNING" /\ ~StopWanted(t)
                      /\ appState # "WORK" => c = COMM_ID_READ_FIRMWARE_VERSION
<1>1. CASE UNCHANGED toBoard /\ \A d \in Codes : cmd'[d] = "WAIT" <=> t[d] = "WAIT"
  BY <1>1
<1>2. ASSUME ~isWaitingCommands(t), NEW c \in Sendable,
             /\ WriteToBoard(Request(c))
             /\ \A d \in Codes : cmd'[d] = "WAIT" <=> d = c
             /\ c = COMM_ID_START_NO_PARAMS => scanState' # "SCANNING" /\ ~StopWanted(t)
             /\ appState # "WORK" => c = COMM_ID_READ_FIRMWARE_VERSION
      PROVE  /\ toBoard' \in Seq(Messages)
             /\ (\A i \in DOMAIN toBoard : toBoard[i].code \in Sendable) =>
                  (\A i \in DOMAIN toBoard' : toBoard'[i].code \in Sendable)
             /\ \A d \in Codes : t[d] # "WAIT"
             /\ toBoard' = Append(toBoard, Request(c))
             /\ Request(c) \in Messages /\ Request(c).code = c
  <2>1. Request(c) \in Messages /\ Request(c).code = c
    <3>1. c \in Codes
      BY DEF Sendable, Codes
    <3>2. NoConfig \in Configs
      BY LinkAssumption DEF NoConfig, Configs, FILTER_NONE
    <3> QED
      BY <3>1, <3>2 DEF Request, Plain, Carrying, Messages, Status
  <2>2. toBoard' = Append(toBoard, Request(c))
    BY <1>2 DEF WriteToBoard
  <2>3. toBoard' \in Seq(Messages)
    BY <2>1, <2>2
  <2>4. (\A i \in DOMAIN toBoard : toBoard[i].code \in Sendable) =>
          (\A i \in DOMAIN toBoard' : toBoard'[i].code \in Sendable)
    BY <2>1, <2>2
  <2>5. \A d \in Codes : t[d] # "WAIT"
    BY <1>2 DEF isWaitingCommands, InState
  <2> QED
    BY <2>1, <2>2, <2>3, <2>4, <2>5
<1> QED
  BY <1>1, <1>2 DEF Writes

\* A command that is on the line once, and awaited, stays so.
LEMMA StaysMatched ==
    ASSUME NEW t, Entered(t), Writes(t), toBoard \in Seq(Messages),
           NEW c \in {COMM_ID_READ_FIRMWARE_VERSION, COMM_ID_START_NO_PARAMS},
           Alone(c), Awaited(c)
    PROVE  Alone(c)' /\ Awaited(c)'
<1>1. /\ c \in Codes
      /\ In(toHost', c) => In(toHost, c)
      /\ Once(toHost', c) /\ Once(toBoard, c) /\ ~(In(toBoard, c) /\ In(toHost, c))
      /\ In(toBoard, c) \/ In(toHost', c) => t[c] = "WAIT"
  <2>1. c \in Codes
    BY DEF Codes
  <2>2. In(toHost', c) => In(toHost, c)
    BY <2>1 DEF Entered
  <2>3. In(toBoard, c) \/ In(toHost', c) => cmd[c] = "WAIT"
    BY <2>2 DEF Awaited, Coming, In
  <2> QED
    BY <2>1, <2>2, <2>3 DEF Entered, Alone
<1>2. CASE toBoard' = toBoard /\ \A d \in Codes : cmd'[d] = "WAIT" <=> t[d] = "WAIT"
  <2>1. Alone(c)'
    BY <1>1, <1>2 DEF Alone
  <2>2. Coming(c)' => In(toBoard, c) \/ In(toHost', c)
    BY <1>2 DEF Coming, In
  <2> QED
    BY <1>1, <1>2, <2>1, <2>2 DEF Awaited
<1>3. ASSUME \A d \in Codes : t[d] # "WAIT",
             NEW b \in Sendable,
             toBoard' = Append(toBoard, Request(b)),
             Request(b) \in Messages, Request(b).code = b,
             \A d \in Codes : cmd'[d] = "WAIT" <=> d = b
      PROVE  Alone(c)' /\ Awaited(c)'
  <2>1. ~In(toBoard, c) /\ ~In(toHost', c)
    BY <1>1, <1>3
  <2>2. /\ In(toBoard', c) <=> b = c
        /\ Once(toBoard', c)
    BY <1>1, <1>3, <2>1, AppendQueue
  <2>3. Alone(c)'
    BY <1>1, <2>1, <2>2 DEF Alone
  <2>4. Coming(c)' => b = c
    BY <2>1, <2>2 DEF Coming, In
  <2> QED
    BY <1>1, <1>3, <2>3, <2>4 DEF Awaited
<1> QED
  BY <1>2, <1>3, LineAfter DEF Entered

\* As long as a start of the client before is on the line, the new one waits
\* for its first answer.
LEMMA StaysOutdated ==
    ASSUME SysInv, NEW t, Entered(t), Writes(t), KeepsWants(t, cmd'),
           appState \in {"WORK", "GET_BAUD"},
           appState # "WORK" /\ appState' = "WORK" =>
             t[COMM_ID_READ_FIRMWARE_VERSION] = "SUCCES",
           ~Awaited(COMM_ID_START_NO_PARAMS)
    PROVE  Alone(COMM_ID_START_NO_PARAMS)' /\ Outdated'
<1> DEFINE F == COMM_ID_READ_FIRMWARE_VERSION
           S == COMM_ID_START_NO_PARAMS
<1>1. /\ toBoard \in Seq(Messages) /\ toHost' \in Seq(Messages)
      /\ Outdated /\ Alone(S) /\ Coming(S)
      /\ F \in Codes /\ S \in Codes /\ F # S
  BY DEF SysInv, StartsMatched, BoardInv, BoardTypeInvariant, LinkTypeOK, Entered, Awaited, Codes
<1>2. /\ In(toHost', S) => In(toHost, S)
      /\ In(toHost', F) => In(toHost, F)
      /\ Once(toHost, S) => Once(toHost', S)
      /\ t[F] # "SUCCES"
      /\ \A i, j \in DOMAIN toHost' :
           toHost'[i].code = S /\ toHost'[j].code = F => i < j
  BY <1>1 DEF Entered
<1>3. appState' # "WORK" /\ cmd'[F] # "SUCCES"
  BY <1>1, <1>2 DEF Outdated, KeepsWants
<1>4. \/ toBoard' = toBoard
      \/ \E m \in Messages : m.code = F /\ toBoard' = Append(toBoard, m)
  BY <1>1, LineAfter DEF Outdated, Entered
<1> HIDE DEF F, S
<1>5. /\ In(toBoard', S) => In(toBoard, S)
      /\ Once(toBoard, S) => Once(toBoard', S)
      /\ \A i, j \in DOMAIN toBoard' :
           toBoard'[i].code = S /\ toBoard'[j].code = F => i < j
  <2>1. \A i, j \in DOMAIN toBoard :
           toBoard[i].code = S /\ toBoard[j].code = F => i < j
    BY <1>1 DEF Outdated, S, F
  <2>2. CASE toBoard' = toBoard
    BY <2>1, <2>2
  <2>3. ASSUME NEW m \in Messages, m.code = F, toBoard' = Append(toBoard, m)
        PROVE  /\ In(toBoard', S) => In(toBoard, S)
               /\ Once(toBoard, S) => Once(toBoard', S)
               /\ \A i, j \in DOMAIN toBoard' :
                    toBoard'[i].code = S /\ toBoard'[j].code = F => i < j
    <3>1. /\ In(toBoard', S) => In(toBoard, S)
          /\ Once(toBoard, S) => Once(toBoard', S)
      BY <1>1, <2>3, AppendQueue
    <3>2. /\ DOMAIN toBoard' = 1 .. Len(toBoard) + 1 /\ DOMAIN toBoard = 1 .. Len(toBoard)
          /\ Len(toBoard) \in Nat
          /\ \A i \in 1 .. Len(toBoard) : toBoard'[i] = toBoard[i]
          /\ toBoard'[Len(toBoard) + 1] = m
      BY <1>1, <2>3
    <3>3. ASSUME NEW i \in DOMAIN toBoard', NEW j \in DOMAIN toBoard',
                 toBoard'[i].code = S, toBoard'[j].code = F
          PROVE  i < j
      <4>1. i \in 1 .. Len(toBoard)
        BY <1>1, <2>3, <3>2, <3>3
      <4>2. CASE j \in 1 .. Len(toBoard)
        BY <2>1, <3>2, <3>3, <4>1, <4>2
      <4>3. CASE j = Len(toBoard) + 1
        BY <3>2, <4>1, <4>3
      <4> QED
        BY <3>2, <4>2, <4>3
    <3> QED
      BY <3>1, <3>3
  <2> QED
    BY <1>4, <2>2, <2>3
<1>6. Alone(S)'
  BY <1>1, <1>2, <1>5 DEF Alone, S
<1>7. In(toBoard', S) => ~In(toHost', F)
  BY <1>1, <1>2, <1>5 DEF Outdated, S, F
<1> QED
  BY <1>2, <1>3, <1>5, <1>6, <1>7 DEF Outdated, S, F

\* A step that only touches the line keeps the invariant of the board.
LEMMA BoardInvLine ==
    ASSUME BoardInv, UNCHANGED boardVars,
           toBoard' \in Seq(Messages), toHost' \in Seq(Messages), losses' \in Nat
    PROVE  BoardInv'
BY DEF BoardInv, BoardTypeInvariant, BoardTypeOK, LinkTypeOK, Suspended, StopPending,
       CheckScans, IdleIsOff, CountKept, Top, boardVars, runVars, confVars, storeVars, pinVars

\* An iteration of the main loop keeps the invariant of the system.
LEMMA IterationOK ==
    ASSUME SysInv, NEW t, Entered(t), Rest(t), UNCHANGED <<boardVars, restarts>>
    PROVE  SysInv'
<1> DEFINE F == COMM_ID_READ_FIRMWARE_VERSION
           S == COMM_ID_START_NO_PARAMS
<1>1. /\ toBoard \in Seq(Messages) /\ losses \in Nat /\ baudState \in BaudState
      /\ HostTypeOK /\ BoardInv
  BY DEF SysInv, BoardInv, BoardTypeInvariant, LinkTypeOK, HostTypeOK
<1>2. /\ TableOK(cmd') /\ KeepsWants(t, cmd') /\ Writes(t)
      /\ losses' \in Nat
      /\ baudState' \in BaudState /\ json' = json
      /\ appState \in {"WORK", "GET_BAUD"} /\ appState' \in ApplicationState
      /\ appState = "WORK" => appState' = "WORK"
      /\ appState # "WORK" /\ appState' = "WORK" =>
           /\ t[F] = "SUCCES"
           /\ cmd'[COMM_ID_STOP] = "REQUEST"
      /\ appState' \notin {"GET_BAUD", "WORK"} => cmd'[F] # "WAIT"
  BY <1>1, RestEffect DEF Entered
<1>3. /\ toBoard' \in Seq(Messages)
      /\ (\A i \in DOMAIN toBoard : toBoard[i].code \in Sendable) =>
           (\A i \in DOMAIN toBoard' : toBoard'[i].code \in Sendable)
      /\ \/ toBoard' = toBoard /\ \A d \in Codes : cmd'[d] = "WAIT" <=> t[d] = "WAIT"
         \/ /\ \A d \in Codes : t[d] # "WAIT"
            /\ \E c \in Sendable :
                 /\ toBoard' = Append(toBoard, Request(c))
                 /\ Request(c) \in Messages /\ Request(c).code = c
                 /\ \A d \in Codes : cmd'[d] = "WAIT" <=> d = c
                 /\ c = S => scanState' # "SCANNING" /\ ~StopWanted(t)
                 /\ appState # "WORK" => c = F
  BY <1>1, <1>2, LineAfter DEF Entered
<1>4. /\ HostTypeOK' /\ BoardInv'
  <2>1. HostTypeOK'
    BY <1>1, <1>2 DEF Entered, HostTypeOK, TableOK
  <2>2. BoardInv'
    BY <1>1, <1>2, <1>3, BoardInvLine DEF Entered
  <2> QED
    BY <2>1, <2>2
<1>5. StartsMatched'
  <2>1. CASE Awaited(S)
    <3>1. Alone(S)' /\ Awaited(S)'
      BY <1>1, <1>2, <2>1, StaysMatched DEF SysInv, StartsMatched
    <3>2. restarts = 0 => Alone(F)' /\ Awaited(F)'
      BY <1>1, <1>2, StaysMatched DEF SysInv, StartsMatched
    <3> QED
      BY <1>2, <3>1, <3>2 DEF StartsMatched
  <2>2. CASE ~Awaited(S)
    <3>1. Alone(S)' /\ Outdated'
      BY <1>2, <2>2, StaysOutdated
    <3>2. restarts # 0
      BY <2>2 DEF SysInv, StartsMatched
    <3> QED
      BY <1>2, <3>1, <3>2 DEF StartsMatched
  <2> QED
    BY <2>1, <2>2
<1>6. StartsAgain'
  <2>1. appState' = "WORK" /\ scanState' # "SCANNING" => Busy(cmd')
    <3>1. cmd'[COMM_ID_STOP] = "REQUEST" => Busy(cmd')
      BY DEF Busy
    <3> QED
      BY <1>2, <3>1 DEF Entered, KeepsWants
  <2>2. appState' = "WORK" /\ scanState' = "UNDEFINED" => StopWanted(cmd')
    <3>1. cmd'[COMM_ID_STOP] = "REQUEST" => StopWanted(cmd')
      BY DEF StopWanted
    <3> QED
      BY <1>2, <3>1 DEF Entered, KeepsWants
  <2> QED
    BY <2>1, <2>2 DEF StartsAgain, StopWanted, Busy
<1>7. scanning' = scanning /\ Top' = Top /\ stack' = stack
  BY DEF boardVars, runVars, Top
<1>8. In(toBoard', S) => ~scanning
  <2> SUFFICES ASSUME In(toBoard', S), scanning  PROVE  FALSE
    OBVIOUS
  <2>1. ~In(toBoard, S)
    BY DEF SysInv, AnswersTell
  <2>2. PICK c \in Sendable :
          /\ toBoard' = Append(toBoard, Request(c))
          /\ Request(c) \in Messages /\ Request(c).code = c
          /\ \A d \in Codes : t[d] # "WAIT"
          /\ c = S => scanState' # "SCANNING" /\ ~StopWanted(t)
          /\ appState # "WORK" => c = F
    BY <1>3, <2>1
  <2>3. c = S
    BY <1>1, <2>1, <2>2, AppendQueue
  <2>4. appState = "WORK"
    BY <2>2, <2>3
  <2>5. ~In(toHost', S)
    <3>1. ASSUME In(toHost', S)  PROVE  FALSE
      <4>1. In(toHost, S) /\ S \in Codes
        BY <3>1 DEF Entered, Codes
      <4>2. Awaited(S) /\ Alone(S)
        BY <2>4 DEF SysInv, StartsMatched, Outdated
      <4>3. cmd[S] = "WAIT"
        BY <4>1, <4>2 DEF Awaited, Coming, In
      <4>4. t[S] = "WAIT"
        BY <3>1, <4>2, <4>3 DEF Entered
      <4> QED
        BY <2>2, <4>1, <4>4
    <3> QED
      BY <3>1
  <2>6. ~\E i \in DOMAIN toHost' : LastStart(i)'
    BY <2>5 DEF LastStart, In
  <2>7. scanState' = "UNDEFINED"
    BY <2>2, <2>3, <2>6 DEF Entered
  <2>8. StopWanted(t)
    BY <2>4, <2>7 DEF Entered
  <2> QED
    BY <2>2, <2>3, <2>8
<1>9. AnswersTell'
  <2>1. \A i \in DOMAIN toHost' : LastStart(i)' =>
          scanning /\ Points(toHost'[i].conf) = Points(Top.conf)
    BY DEF Entered
  <2>2. \/ ~scanning
        \/ \E i \in DOMAIN toHost' : LastStart(i)'
        \/ NoVerdict' /\ scanState' \in {"SCANNING", "UNDEFINED"}
    BY DEF Entered
  <2>3. NoVerdict' /\ scanState' = "SCANNING" =>
          scanning /\ (Points(scanSettings') = Points(Top.conf) \/ Busy(cmd'))
    BY <1>2 DEF Entered, KeepsWants
  <2> QED
    BY <1>7, <1>8, <2>1, <2>2, <2>3 DEF AnswersTell, NoVerdict, In
<1>10. ScansAnswered'
  BY <1>3, <1>7 DEF SysInv, ScansAnswered, boardVars, runVars, confVars, pinVars, Refuses
<1> QED
  BY <1>2, <1>4, <1>5, <1>6, <1>9, <1>10 DEF SysInv

\* The main loop goes round once.
LEMMA IterateKeeps ==
    ASSUME SysInv, Iterate, ~mishap', UNCHANGED <<boardVars, restarts>>
    PROVE  SysInv'
<1>1. PICK expired \in Expired :
        /\ Premature(expired) = FALSE
        /\ IterateSilent(expired) \/ IterateAnswer(expired)
  BY DEF Iterate, Remember, Premature
<1>2. CASE IterateSilent(expired)
  <2>1. /\ Entered(timerTick(cmd, expired))
        /\ Rest(timerTick(cmd, expired))
    BY <1>1, <1>2, SilentEntered DEF IterateSilent
  <2> QED
    BY <2>1, IterationOK
<1>3. CASE IterateAnswer(expired)
  <2>1. /\ Entered(Answered(timerTick(cmd, expired), Head(toHost)))
        /\ Rest(Answered(timerTick(cmd, expired), Head(toHost)))
    BY <1>1, <1>3, AnswerEntered DEF IterateAnswer
  <2> QED
    BY <2>1, IterationOK
<1> QED
  BY <1>1, <1>2, <1>3

-----------------------------------------------------------------------------
(* The other steps of the client.                                          *)

\* A step that leaves the line, the board and the scan state alone, and what
\* the client wants, changes nothing that the answers could tell.
LEMMA TellsAlike ==
    ASSUME SysInv, UNCHANGED <<boardVars, linkVars, scanState, scanSettings>>,
           Busy(cmd) => Busy(cmd')
    PROVE  AnswersTell' /\ ScansAnswered' /\ BoardInv'
<1>1. AnswersTell'
  <2>1. /\ NoVerdict' <=> NoVerdict
        /\ \A i \in DOMAIN toHost : LastStart(i)' <=> LastStart(i)
        /\ Top' = Top /\ toHost' = toHost /\ toBoard' = toBoard /\ scanning' = scanning
    BY DEF NoVerdict, In, LastStart, linkVars, boardVars, runVars, Top
  <2> QED
    BY <2>1 DEF SysInv, AnswersTell, In
<1>2. ScansAnswered'
  BY DEF SysInv, ScansAnswered, boardVars, runVars, confVars, pinVars, linkVars, Top, Refuses
<1>3. BoardInv'
  <2>1. toBoard' \in Seq(Messages) /\ toHost' \in Seq(Messages) /\ losses' \in Nat
    BY DEF SysInv, BoardInv, BoardTypeInvariant, LinkTypeOK, linkVars
  <2> QED
    BY <2>1, BoardInvLine DEF SysInv
<1> QED
  BY <1>1, <1>2, <1>3

\* The start-up: server, conversion file, serial port.
LEMMA HostStartKeeps ==
    ASSUME SysInv, HostStart, UNCHANGED <<boardVars, restarts>>
    PROVE  SysInv'
<1> DEFINE F == COMM_ID_READ_FIRMWARE_VERSION
           S == COMM_ID_START_NO_PARAMS
<1>1. /\ UNCHANGED <<baudState, scanState, boardSettings, scanSettings, frameBuffer, linkVars>>
      /\ appState \in {"INIT_SERVER", "INIT_JSON", "INIT_BOARD"}
      /\ appState' \in {"INIT_JSON", "INIT_BOARD", "GET_BAUD"}
      /\ json' \in JsonSizes \cup {NoJson}
      /\ cmd' = cmd \/ (appState' = "GET_BAUD" /\ cmd' = [cmd EXCEPT ![F] = "REQUEST"])
  BY DEF HostStart, serverStart, loadJson, detectDevice, SysInv, HostTypeOK
<1>2. TableOK(cmd) /\ cmd[F] # "WAIT" /\ F \in Codes /\ F \in Sendable /\ S \in Codes
  BY <1>1 DEF SysInv, StartsMatched, Codes, Sendable
<1>3. \A c \in Codes : cmd'[c] = cmd[c] \/ (c = F /\ cmd'[c] = "REQUEST")
  BY <1>1, <1>2 DEF TableOK
<1>4. cmd' \in [Codes -> CommandState]
  BY <1>1, <1>2 DEF TableOK, CommandState
<1>5. TableOK(cmd')
  BY <1>2, <1>3, <1>4 DEF TableOK
<1>6. Busy(cmd) => Busy(cmd')
  BY <1>3 DEF Busy, Codes
<1>7. AnswersTell' /\ ScansAnswered' /\ BoardInv'
  BY <1>1, <1>6, TellsAlike
<1>8. HostTypeOK'
  BY <1>1, <1>4 DEF SysInv, HostTypeOK, ApplicationState
<1>9. StartsAgain'
  BY <1>1 DEF StartsAgain
<1>10. cmd'[F] # "WAIT" /\ (cmd[F] # "SUCCES" => cmd'[F] # "SUCCES") /\ cmd'[S] = cmd[S]
  BY <1>2, <1>3
<1>11. toBoard' = toBoard /\ toHost' = toHost
  BY <1>1 DEF linkVars
<1>12. /\ Alone(S)' <=> Alone(S)
       /\ Alone(F)' <=> Alone(F)
       /\ Coming(S)' <=> Coming(S)
       /\ Coming(F)' <=> Coming(F)
  BY <1>11 DEF Alone, Once, In, Coming
<1>13. Awaited(S) => Awaited(S)'
  BY <1>10, <1>12 DEF Awaited
<1>14. Awaited(F) => Awaited(F)'
  BY <1>2, <1>12 DEF Awaited
<1>15. Outdated => Outdated'
  BY <1>1, <1>10, <1>11 DEF Outdated, In
<1>16. StartsMatched'
  BY <1>10, <1>12, <1>13, <1>14, <1>15 DEF SysInv, StartsMatched
<1> QED
  BY <1>5, <1>7, <1>8, <1>9, <1>16 DEF SysInv

\* A client of the server takes a frame.
LEMMA TakeFrameKeeps ==
    ASSUME SysInv, TakeFrame, UNCHANGED <<boardVars, restarts>>
    PROVE  SysInv'
<1>1. AnswersTell' /\ ScansAnswered' /\ BoardInv'
  BY TellsAlike DEF TakeFrame
<1>2. HostTypeOK'
  <2>1. /\ frameBuffer \in Seq(Nat) /\ frameBuffer # <<>>
        /\ Len(frameBuffer) =< FRAME_BUFFER_SIZE /\ frameBuffer' = Tail(frameBuffer)
    BY DEF SysInv, HostTypeOK, TakeFrame
  <2>2. frameBuffer' \in Seq(Nat) /\ Len(frameBuffer') =< FRAME_BUFFER_SIZE
    BY <2>1, HostAssumption
  <2> QED
    BY <2>2 DEF SysInv, HostTypeOK, TakeFrame
<1>3. StartsMatched' /\ StartsAgain'
  BY DEF SysInv, TakeFrame, linkVars, StartsMatched, StartsAgain, Alone, Awaited, Outdated,
         Once, In, Coming
<1> QED
  BY <1>1, <1>2, <1>3 DEF SysInv, TakeFrame

\* The client is killed and started again, for the first time.
LEMMA ClientRestartsKeeps ==
    ASSUME SysInv, ClientRestarts, ~mishap'
    PROVE  SysInv'
<1> DEFINE F == COMM_ID_READ_FIRMWARE_VERSION
           S == COMM_ID_START_NO_PARAMS
<1>1. restarts = 0 /\ restarts' = 1
  <2>1. restarts \in 0 .. 1 /\ restarts' = restarts + 1
    BY DEF SysInv, ClientRestarts
  <2>2. ~(restarts > 0)
    BY Zenon DEF ClientRestarts, Remember
  <2> QED
    BY <2>1, <2>2
<1>2. /\ toBoard \in Seq(Messages) /\ toHost \in Seq(Messages) /\ losses \in Nat
      /\ cmd \in [Codes -> CommandState]
      /\ \A c, d \in Codes : cmd[c] = "WAIT" /\ cmd[d] = "WAIT" => c = d
  BY DEF SysInv, BoardInv, BoardTypeInvariant, LinkTypeOK, TableOK
<1>3. /\ appState' = "INIT_SERVER" /\ scanState' = "UNDEFINED"
      /\ cmd' = [c \in Codes |-> "NONE"]
      /\ toHost' = toHost \/ toHost' = <<>>
      /\ UNCHANGED <<boardVars, toBoard, losses>>
  BY DEF ClientRestarts
<1>4. HostTypeOK' /\ TableOK(cmd')
  <2>1. NoConfig \in Configs
    BY LinkAssumption DEF NoConfig, Configs, FILTER_NONE
  <2> QED
    BY <2>1, HostAssumption
       DEF ClientRestarts, HostTypeOK, TableOK, ApplicationState, BaudState, ScanState,
           CommandState
<1>5. BoardInv'
  <2>1. BoardInv /\ UNCHANGED boardVars
    BY <1>3 DEF SysInv
  <2>2. <<>> \in Seq(Messages)
    OBVIOUS
  <2>3. toHost' \in Seq(Messages)
    BY <1>2, <1>3, <2>2, Zenon
  <2>4. toBoard' \in Seq(Messages) /\ losses' \in Nat
    BY <1>2, <1>3, Zenon
  <2> QED
    BY <2>1, <2>3, <2>4, BoardInvLine
<1>6. ~(Coming(S) /\ Coming(F))
  <2>1. Awaited(S) /\ Awaited(F) /\ S \in Codes /\ F \in Codes /\ S # F
    BY <1>1 DEF SysInv, StartsMatched, Codes
  <2> QED
    BY <1>2, <2>1 DEF Awaited
<1>7. /\ Alone(S)'
      /\ In(toBoard', S) => Coming(S)
      /\ In(toHost', S) => Coming(S)
      /\ In(toBoard', F) => Coming(F)
      /\ In(toHost', F) => Coming(F)
  <2>1. toHost' = <<>> => ~In(toHost', S) /\ ~In(toHost', F) /\ Once(toHost', S)
    BY DEF In, Once
  <2>2. Alone(S)'
    BY <1>3, <2>1 DEF SysInv, StartsMatched, Alone
  <2>3. toHost' = toHost => (In(toHost', S) => Coming(S)) /\ (In(toHost', F) => Coming(F))
    BY DEF In, Coming
  <2>4. (In(toBoard', S) => Coming(S)) /\ (In(toBoard', F) => Coming(F))
    BY <1>3 DEF In, Coming
  <2> QED
    BY <1>3, <2>1, <2>2, <2>3, <2>4
<1>8. Outdated'
  <2>1. appState' # "WORK" /\ cmd'[F] # "SUCCES"
    BY <1>3 DEF Codes
  <2>2. In(toBoard', S) => ~In(toHost', F)
    BY <1>6, <1>7
  <2>3. \A q \in {toBoard', toHost'} : \A i, j \in DOMAIN q :
          q[i].code = S /\ q[j].code = F => i < j
    BY <1>6, <1>7 DEF In
  <2> QED
    BY <2>1, <2>2, <2>3 DEF Outdated
<1>9. StartsMatched'
  <2>1. cmd'[F] # "WAIT"
    BY <1>3 DEF Codes
  <2> QED
    BY <1>1, <1>7, <1>8, <2>1 DEF StartsMatched
<1>10. StartsAgain'
  BY <1>3 DEF StartsAgain
<1>11. AnswersTell'
  <2>1. scanning' = scanning /\ Top' = Top /\ toBoard' = toBoard
    BY <1>3 DEF boardVars, runVars, Top
  <2>2. In(toBoard', S) => ~scanning'
    BY <2>1 DEF SysInv, AnswersTell
  <2>3. CASE toHost' = toHost
    <3>1. /\ NoVerdict' <=> NoVerdict
          /\ \A i \in DOMAIN toHost : LastStart(i)' <=> LastStart(i)
      BY <2>3 DEF NoVerdict, In, LastStart
    <3> QED
      BY <1>3, <2>1, <2>2, <2>3, <3>1 DEF SysInv, AnswersTell, In
  <2>4. CASE toHost' = <<>>
    <3>1. NoVerdict' /\ DOMAIN toHost' = {}
      BY <2>4 DEF NoVerdict, In
    <3> QED
      BY <1>3, <2>1, <2>2, <3>1 DEF AnswersTell, In
  <2> QED
    BY <1>3, <2>3, <2>4
<1>12. ScansAnswered'
  BY <1>3 DEF SysInv, ScansAnswered, boardVars, runVars, confVars, pinVars, Top, Refuses
<1>13. restarts' \in 0 .. 1
  BY <1>1
<1> QED
  BY <1>1, <1>4, <1>5, <1>9, <1>10, <1>11, <1>12, <1>13 DEF SysInv

-----------------------------------------------------------------------------
(* The line and the board.                                                 *)

\* The first n commands are gone.
Taken(n) ==
    /\ n \in 0 .. Len(toBoard)
    /\ \/ n = 0 /\ toBoard' = toBoard
       \/ toBoard # <<>> /\ n = 1 /\ toBoard' = Tail(toBoard)
       \/ toBoard' = SubSeq(toBoard, n + 1, Len(toBoard))

\* The answer a was written.  A start or a version answer answers the command
\* that was first on the line.
Wrote(n, a) ==
    /\ a \in Messages
    /\ toHost' = Append(toHost, a)
    /\ a.code \in {COMM_ID_READ_FIRMWARE_VERSION, COMM_ID_START_NO_PARAMS} =>
         n >= 1 /\ Head(toBoard).code = a.code

\* A message of the code c that is left was there before, and in that order.
LEMMA TakenQueue ==
    ASSUME toBoard \in Seq(Messages), NEW n, Taken(n)
    PROVE  /\ toBoard' \in Seq(Messages)
           /\ \A c : /\ In(toBoard', c) => In(toBoard, c)
                     /\ Once(toBoard, c) => Once(toBoard', c)
                     /\ Once(toBoard, c) /\ n >= 1 /\ Head(toBoard).code = c => ~In(toBoard', c)
           /\ n >= 1 => toBoard # <<>> /\ 1 \in DOMAIN toBoard /\ Head(toBoard) = toBoard[1]
           /\ \A i, j \in DOMAIN toBoard' :
                \E k, l \in DOMAIN toBoard :
                  /\ toBoard'[i] = toBoard[k] /\ toBoard'[j] = toBoard[l]
                  /\ k < l => i < j
<1>1. n \in 0 .. Len(toBoard) /\ Len(toBoard) \in Nat
  BY DEF Taken
<1>2. n >= 1 => toBoard # <<>> /\ 1 \in DOMAIN toBoard /\ Head(toBoard) = toBoard[1]
  BY <1>1
<1>3. CASE n = 0 /\ toBoard' = toBoard
  BY <1>2, <1>3 DEF In, Once
<1>4. CASE \/ toBoard' = SubSeq(toBoard, n + 1, Len(toBoard))
           \/ toBoard # <<>> /\ n = 1 /\ toBoard' = Tail(toBoard)
  <2>1. /\ toBoard' \in Seq(Messages)
        /\ DOMAIN toBoard' = 1 .. Len(toBoard) - n /\ DOMAIN toBoard = 1 .. Len(toBoard)
        /\ \A i \in 1 .. Len(toBoard) - n : toBoard'[i] = toBoard[i + n]
    BY <1>1, <1>4, Remainder
  <2>2. \A c : /\ In(toBoard', c) => In(toBoard, c)
               /\ Once(toBoard, c) => Once(toBoard', c)
               /\ Once(toBoard, c) /\ n >= 1 /\ Head(toBoard).code = c => ~In(toBoard', c)
    BY <1>1, <1>4, RemainderQueue
  <2>3. ASSUME NEW i \in DOMAIN toBoard', NEW j \in DOMAIN toBoard'
        PROVE  \E k, l \in DOMAIN toBoard :
                 /\ toBoard'[i] = toBoard[k] /\ toBoard'[j] = toBoard[l]
                 /\ k < l => i < j
    <3>1. i + n \in DOMAIN toBoard /\ j + n \in DOMAIN toBoard /\ (i + n < j + n => i < j)
      BY <1>1, <2>1
    <3>2. toBoard'[i] = toBoard[i + n] /\ toBoard'[j] = toBoard[j + n]
      BY <2>1
    <3> QED
      BY <3>1, <3>2
  <2> QED
    BY <1>2, <2>1, <2>2, <2>3
<1> QED
  BY <1>3, <1>4 DEF Taken

\* Commands are taken, one answer is written, or lost: what is on the line of a
\* code that was there once is there at most once, and only if it was there.
LEMMA LineKeepsMatch ==
    ASSUME toBoard \in Seq(Messages), toHost \in Seq(Messages), NEW n, Taken(n),
           \/ toHost' = toHost
           \/ toHost # <<>> /\ toHost' = Tail(toHost)
           \/ \E a : Wrote(n, a),
           UNCHANGED <<appState, cmd, restarts>>, StartsMatched
    PROVE  StartsMatched'
<1> DEFINE F == COMM_ID_READ_FIRMWARE_VERSION
           S == COMM_ID_START_NO_PARAMS
<1>1. /\ \A c : /\ In(toBoard', c) => In(toBoard, c)
                /\ Once(toBoard, c) => Once(toBoard', c)
                /\ Once(toBoard, c) /\ n >= 1 /\ Head(toBoard).code = c => ~In(toBoard', c)
      /\ n >= 1 => toBoard # <<>> /\ 1 \in DOMAIN toBoard /\ Head(toBoard) = toBoard[1]
      /\ \A i, j \in DOMAIN toBoard' :
           \E k, l \in DOMAIN toBoard :
             /\ toBoard'[i] = toBoard[k] /\ toBoard'[j] = toBoard[l]
             /\ k < l => i < j
  BY TakenQueue
<1>2. \/ \A c : (In(toHost', c) => In(toHost, c)) /\ (Once(toHost, c) => Once(toHost', c))
      \/ \E a : /\ Wrote(n, a)
                /\ \A c : /\ In(toHost', c) <=> In(toHost, c) \/ a.code = c
                          /\ Once(toHost, c) /\ ~(a.code = c /\ In(toHost, c)) =>
                               Once(toHost', c)
  <2>1. CASE toHost' = toHost
    BY <2>1
  <2>2. CASE toHost # <<>> /\ toHost' = Tail(toHost)
    <3>1. 1 \in 0 .. Len(toHost) /\ 1 = 1
      BY <2>2
    <3> QED
      BY <2>2, <3>1, RemainderQueue
  <2>3. CASE \E a : Wrote(n, a)
    BY <2>3, AppendQueue DEF Wrote
  <2> QED
    BY <2>1, <2>2, <2>3
<1>3. \A c \in {F, S} : /\ Alone(c) => Alone(c)'
                        /\ In(toBoard', c) \/ In(toHost', c) => In(toBoard, c) \/ In(toHost, c)
  <2> SUFFICES ASSUME NEW c \in {F, S}
               PROVE  /\ Alone(c) => Alone(c)'
                      /\ In(toBoard', c) \/ In(toHost', c) => In(toBoard, c) \/ In(toHost, c)
    OBVIOUS
  <2>1. CASE (In(toHost', c) => In(toHost, c)) /\ (Once(toHost, c) => Once(toHost', c))
    BY <1>1, <2>1 DEF Alone
  <2>2. ASSUME NEW a, Wrote(n, a),
               In(toHost', c) <=> In(toHost, c) \/ a.code = c,
               Once(toHost, c) /\ ~(a.code = c /\ In(toHost, c)) => Once(toHost', c)
        PROVE  /\ Alone(c) => Alone(c)'
               /\ In(toBoard', c) \/ In(toHost', c) => In(toBoard, c) \/ In(toHost, c)
    <3>1. CASE a.code = c
      <4>1. n >= 1 /\ Head(toBoard).code = c
        BY <2>2, <3>1 DEF Wrote
      <4>2. In(toBoard, c)
        BY <1>1, <4>1 DEF In
      <4> QED
        BY <1>1, <2>2, <4>1, <4>2 DEF Alone
    <3>2. CASE a.code # c
      BY <1>1, <2>2, <3>2 DEF Alone
    <3> QED
      BY <3>1, <3>2
  <2> QED
    BY <1>2, <2>1, <2>2
<1>4. \A c \in {F, S} : Awaited(c) => Awaited(c)'
  <2>1. \A c : /\ Coming(c)' <=> In(toBoard', c) \/ In(toHost', c)
               /\ Coming(c) <=> In(toBoard, c) \/ In(toHost, c)
    BY DEF Coming, In
  <2> QED
    BY <1>3, <2>1 DEF Awaited
<1>5. ASSUME Outdated  PROVE Outdated'
  <2>1. appState' # "WORK" /\ cmd'[F] # "SUCCES"
    BY <1>5 DEF Outdated
  <2>2. \A i, j \in DOMAIN toBoard' : toBoard'[i].code = S /\ toBoard'[j].code = F => i < j
    BY <1>1, <1>5 DEF Outdated
  <2>3. In(toBoard', S) => ~In(toHost', F)
    <3> SUFFICES ASSUME In(toBoard', S), In(toHost', F)  PROVE FALSE
      OBVIOUS
    <3>1. In(toBoard, S) /\ ~In(toHost, F)
      BY <1>1, <1>5 DEF Outdated
    <3>2. PICK a : Wrote(n, a) /\ a.code = F
      BY <1>2, <3>1
    <3>3. 1 \in DOMAIN toBoard /\ toBoard[1].code = F
      BY <1>1, <3>2 DEF Wrote
    <3>4. PICK i \in DOMAIN toBoard : toBoard[i].code = S
      BY <3>1 DEF In
    <3>5. i < 1
      BY <1>5, <3>3, <3>4 DEF Outdated
    <3>6. i >= 1
      BY <3>4
    <3> QED
      BY <3>4, <3>5, <3>6
  <2>4. ASSUME NEW i \in DOMAIN toHost', NEW j \in DOMAIN toHost',
               toHost'[i].code = S, toHost'[j].code = F
        PROVE  i < j
    <3>1. CASE toHost' = toHost
      BY <1>5, <2>4, <3>1 DEF Outdated
    <3>2. CASE toHost # <<>> /\ toHost' = Tail(toHost)
      <4>1. /\ i + 1 \in DOMAIN toHost /\ toHost[i + 1] = toHost'[i]
            /\ j + 1 \in DOMAIN toHost /\ toHost[j + 1] = toHost'[j]
        BY <2>4, <3>2, VerdictsShift
      <4>2. i + 1 < j + 1
        BY <1>5, <2>4, <4>1 DEF Outdated
      <4>3. i \in Int /\ j \in Int
        BY <2>4, <3>2
      <4> QED
        BY <4>2, <4>3
    <3>3. ASSUME NEW a, Wrote(n, a)  PROVE i < j
      <4>1. Len(toHost) \in Nat /\ DOMAIN toHost = 1 .. Len(toHost)
        OBVIOUS
      <4>2. /\ DOMAIN toHost' = 1 .. Len(toHost) + 1
            /\ \A k \in 1 .. Len(toHost) : toHost'[k] = toHost[k]
            /\ toHost'[Len(toHost) + 1] = a
        BY <3>3 DEF Wrote
      <4>3. /\ i \in 1 .. Len(toHost) \/ i = Len(toHost) + 1
            /\ j \in 1 .. Len(toHost) \/ j = Len(toHost) + 1
        <5>1. i \in 1 .. Len(toHost) + 1 /\ j \in 1 .. Len(toHost) + 1
          BY <4>2
        <5> QED
          BY <4>1, <5>1
      <4>4. CASE i \in 1 .. Len(toHost) /\ j \in 1 .. Len(toHost)
        BY <1>5, <2>4, <4>1, <4>2, <4>4 DEF Outdated
      <4>5. CASE i \in 1 .. Len(toHost) /\ j = Len(toHost) + 1
        BY <4>1, <4>5
      <4>6. ASSUME i = Len(toHost) + 1  PROVE FALSE
        <5>1. a.code = S
          BY <2>4, <4>2, <4>6
        <5>2. j # Len(toHost) + 1
          BY <2>4, <4>2, <5>1
        <5>3. j \in DOMAIN toHost /\ toHost[j].code = F
          BY <2>4, <4>1, <4>2, <4>3, <5>2
        <5>4. In(toHost, F)
          BY <5>3 DEF In
        <5>5. n >= 1 /\ Head(toBoard).code = S
          BY <3>3, <5>1 DEF Wrote
        <5>6. In(toBoard, S)
          BY <1>1, <5>5 DEF In
        <5> QED
          BY <1>5, <5>4, <5>6 DEF Outdated
      <4> QED
        BY <4>3, <4>4, <4>5, <4>6
    <3> QED
      BY <3>1, <3>2, <3>3
  <2> QED
    BY <2>1, <2>2, <2>3, <2>4 DEF Outdated
<1> QED
  BY <1>3, <1>4, <1>5 DEF StartsMatched

\* An answer that is no verdict changes no verdict.
LEMMA VerdictsStay ==
    ASSUME toHost \in Seq(Messages), NEW a \in Messages, toHost' = Append(toHost, a),
           a.code \notin {COMM_ID_STOP, COMM_ID_START_NO_PARAMS}
    PROVE  /\ NoVerdict' <=> NoVerdict
           /\ \A i \in DOMAIN toHost' : LastStart(i)' =>
                i \in DOMAIN toHost /\ toHost'[i] = toHost[i] /\ LastStart(i)
           /\ \A i \in DOMAIN toHost : LastStart(i) => i \in DOMAIN toHost' /\ LastStart(i)'
<1>1. /\ DOMAIN toHost = 1 .. Len(toHost) /\ DOMAIN toHost' = 1 .. Len(toHost) + 1
      /\ Len(toHost) \in Nat
      /\ \A k \in 1 .. Len(toHost) : toHost'[k] = toHost[k]
      /\ toHost'[Len(toHost) + 1] = a
  OBVIOUS
<1>2. \A i \in 1 .. Len(toHost) + 1 : i \in 1 .. Len(toHost) \/ i = Len(toHost) + 1
  BY <1>1
<1>3. \A i \in 1 .. Len(toHost) : i \in 1 .. Len(toHost) + 1
  BY <1>1
<1>4. NoVerdict' <=> NoVerdict
  BY AppendQueue DEF NoVerdict
<1>5. ASSUME NEW i \in DOMAIN toHost', LastStart(i)'
      PROVE  i \in DOMAIN toHost /\ toHost'[i] = toHost[i] /\ LastStart(i)
  <2>1. i \in DOMAIN toHost /\ toHost'[i] = toHost[i]
    BY <1>1, <1>2, <1>5 DEF LastStart
  <2>2. \A j \in DOMAIN toHost : j \in DOMAIN toHost' /\ toHost'[j] = toHost[j]
    BY <1>1, <1>3
  <2> QED
    BY <1>5, <2>1, <2>2 DEF LastStart
<1>6. ASSUME NEW i \in DOMAIN toHost, LastStart(i)
      PROVE  i \in DOMAIN toHost' /\ LastStart(i)'
  <2>1. i \in DOMAIN toHost' /\ toHost'[i] = toHost[i]
    BY <1>1, <1>3
  <2>2. \A j \in DOMAIN toHost' : toHost'[j].code = COMM_ID_STOP =>
          j \in DOMAIN toHost /\ toHost[j].code = COMM_ID_STOP
    BY <1>1, <1>2
  <2> QED
    BY <1>6, <2>1, <2>2 DEF LastStart
<1> QED
  BY <1>4, <1>5, <1>6

\* The board goes on as it was, whatever else it answers.
LEMMA NeutralTells ==
    ASSUME toBoard \in Seq(Messages), toHost \in Seq(Messages), NEW n, Taken(n),
           \/ toHost' = toHost
           \/ \E a \in Messages : /\ a.code \notin {COMM_ID_STOP, COMM_ID_START_NO_PARAMS}
                                  /\ toHost' = Append(toHost, a),
           scanning' = scanning, scanning => Points(Top.conf)' = Points(Top.conf),
           UNCHANGED <<cmd, scanState, scanSettings>>, AnswersTell
    PROVE  AnswersTell'
<1>1. /\ NoVerdict' <=> NoVerdict
      /\ \A i \in DOMAIN toHost' : LastStart(i)' =>
           i \in DOMAIN toHost /\ toHost'[i] = toHost[i] /\ LastStart(i)
      /\ \A i \in DOMAIN toHost : LastStart(i) => i \in DOMAIN toHost' /\ LastStart(i)'
  <2>1. CASE toHost' = toHost
    BY <2>1 DEF NoVerdict, In, LastStart
  <2>2. ASSUME NEW a \in Messages, a.code \notin {COMM_ID_STOP, COMM_ID_START_NO_PARAMS},
               toHost' = Append(toHost, a)
        PROVE  /\ NoVerdict' <=> NoVerdict
               /\ \A i \in DOMAIN toHost' : LastStart(i)' =>
                    i \in DOMAIN toHost /\ toHost'[i] = toHost[i] /\ LastStart(i)
               /\ \A i \in DOMAIN toHost : LastStart(i) =>
                    i \in DOMAIN toHost' /\ LastStart(i)'
    BY <2>2, VerdictsStay
  <2> QED
    BY <2>1, <2>2
<1>2. In(toBoard', COMM_ID_START_NO_PARAMS) => ~scanning
  BY TakenQueue DEF AnswersTell
<1>3. \A i \in DOMAIN toHost' : LastStart(i)' =>
        scanning' /\ Points(toHost'[i].conf) = Points(Top.conf)'
  BY <1>1 DEF AnswersTell
<1>4. scanning => \/ \E i \in DOMAIN toHost' : LastStart(i)'
                  \/ NoVerdict' /\ scanState \in {"SCANNING", "UNDEFINED"}
  BY <1>1 DEF AnswersTell
<1>5. NoVerdict' /\ scanState = "SCANNING" =>
        scanning /\ (Points(scanSettings) = Points(Top.conf)' \/ Busy(cmd))
  BY <1>1 DEF AnswersTell
<1> QED
  BY <1>2, <1>3, <1>4, <1>5 DEF AnswersTell, Points, In

\* The board starts a scan and says so.
LEMMA StartTells ==
    ASSUME toBoard \in Seq(Messages), toHost \in Seq(Messages), NEW n, Taken(n), n >= 1,
           Head(toBoard).code = COMM_ID_START_NO_PARAMS, Alone(COMM_ID_START_NO_PARAMS),
           NEW a \in Messages, toHost' = Append(toHost, a),
           a.code = COMM_ID_START_NO_PARAMS,
           scanning', Points(a.conf) = Points(Top.conf)'
    PROVE  AnswersTell'
<1>1. /\ DOMAIN toHost = 1 .. Len(toHost) /\ DOMAIN toHost' = 1 .. Len(toHost) + 1
      /\ Len(toHost) \in Nat
      /\ \A k \in 1 .. Len(toHost) : toHost'[k] = toHost[k]
      /\ toHost'[Len(toHost) + 1] = a
  OBVIOUS
<1>2. In(toBoard, COMM_ID_START_NO_PARAMS) /\ ~In(toBoard', COMM_ID_START_NO_PARAMS)
  BY TakenQueue DEF Alone, In
<1>3. \A k \in DOMAIN toHost : toHost[k].code # COMM_ID_START_NO_PARAMS
  BY <1>2 DEF Alone, In
<1>4. \A i \in 1 .. Len(toHost) + 1 : i \in 1 .. Len(toHost) \/ i = Len(toHost) + 1
  BY <1>1
<1>5. PICK last : last = Len(toHost) + 1
  OBVIOUS
<1>6. \A i \in DOMAIN toHost' : LastStart(i)' => i = last
  BY <1>1, <1>3, <1>4, <1>5 DEF LastStart
<1>7. last \in DOMAIN toHost' /\ toHost'[last] = a
  BY <1>1, <1>5
<1>8. LastStart(last)'
  <2>1. ASSUME NEW j \in DOMAIN toHost', toHost'[j].code = COMM_ID_STOP
        PROVE  j < last
    <3>1. j # last
      BY <1>7, <2>1
    <3>2. j \in 1 .. Len(toHost)
      BY <1>1, <1>4, <1>5, <3>1
    <3> QED
      BY <1>1, <1>5, <3>2
  <2> QED
    BY <1>7, <2>1 DEF LastStart
<1>9. ~NoVerdict'
  BY <1>7 DEF NoVerdict, In
<1>10. \A i \in DOMAIN toHost' : LastStart(i)' =>
         scanning' /\ Points(toHost'[i].conf) = Points(Top.conf)'
  BY <1>6, <1>7
<1> QED
  BY <1>2, <1>7, <1>8, <1>9, <1>10 DEF AnswersTell, Points, In

\* The scan is over, and the board says so.
LEMMA StopTells ==
    ASSUME toHost \in Seq(Messages), NEW a \in Messages, toHost' = Append(toHost, a),
           a.code = COMM_ID_STOP, scanning' = FALSE
    PROVE  AnswersTell'
<1>1. /\ DOMAIN toHost' = 1 .. Len(toHost) + 1 /\ Len(toHost) \in Nat
      /\ toHost'[Len(toHost) + 1] = a
  OBVIOUS
<1>2. Len(toHost) + 1 \in DOMAIN toHost'
  BY <1>1
<1>3. \A i \in DOMAIN toHost' : ~(Len(toHost) + 1 < i)
  BY <1>1
<1>4. \A i \in DOMAIN toHost' : ~LastStart(i)'
  BY <1>1, <1>2, <1>3 DEF LastStart
<1>5. ~NoVerdict'
  BY <1>1, <1>2 DEF NoVerdict, In
<1> QED
  BY <1>4, <1>5 DEF AnswersTell

\* The line loses a message.
LEMMA LineLosesKeeps ==
    ASSUME SysInv, LineLoses, ~mishap'
    PROVE  SysInv'
<1>1. /\ toBoard \in Seq(Messages) /\ toHost \in Seq(Messages) /\ losses \in Nat
      /\ AnswersTell /\ StartsMatched /\ ScansAnswered
  BY DEF SysInv, BoardInv, BoardTypeInvariant, LinkTypeOK
<1>2. UNCHANGED <<hostVars, boardVars, restarts>> /\ losses' \in Nat
  BY <1>1 DEF LineLoses, LoseCommand, LoseAnswer, CountLoss
<1>3. /\ UNCHANGED <<appState, cmd, scanState, scanSettings, restarts>>
      /\ scanning' = scanning /\ Top' = Top
  BY <1>2 DEF hostVars, boardVars, runVars, Top
<1>4. /\ toBoard' \in Seq(Messages) /\ toHost' \in Seq(Messages)
      /\ StartsMatched' /\ AnswersTell'
      /\ \A i \in DOMAIN toBoard' : toBoard'[i].code \in Sendable
  <2>1. CASE LoseCommand
    <3>1. Taken(1) /\ toHost' = toHost
      BY <1>1, <2>1 DEF LoseCommand, Taken
    <3>2. toBoard' \in Seq(Messages) /\ \A i \in DOMAIN toBoard' : toBoard'[i].code \in Sendable
      BY <1>1, <3>1, TakenQueue DEF ScansAnswered
    <3>3. StartsMatched'
      BY <1>1, <1>3, <3>1, LineKeepsMatch
    <3>4. AnswersTell'
      BY <1>1, <1>3, <3>1, NeutralTells
    <3> QED
      BY <1>1, <3>1, <3>2, <3>3, <3>4
  <2>2. CASE LoseAnswer /\ Remember(Unrepeated(Head(toHost)))
    <3>1. /\ toHost # <<>> /\ toHost' = Tail(toHost) /\ toBoard' = toBoard
          /\ Head(toHost).code \notin {COMM_ID_STOP, COMM_ID_START_NO_PARAMS}
      BY <2>2 DEF LoseAnswer, Remember, Unrepeated
    <3>2. Taken(0)
      BY <1>1, <3>1 DEF Taken
    <3>3. StartsMatched'
      BY <1>1, <1>3, <3>1, <3>2, LineKeepsMatch
    <3>4. /\ \A i \in DOMAIN toHost' : LastStart(i)' =>
               i + 1 \in DOMAIN toHost /\ toHost'[i] = toHost[i + 1] /\ LastStart(i + 1)
          /\ \A i \in DOMAIN toHost : LastStart(i) => \E j \in DOMAIN toHost' : LastStart(j)'
      <4>1. ~LastStart(1)
        BY <1>1, <3>1 DEF LastStart
      <4> QED
        BY <1>1, <3>1, <4>1, VerdictsShift
    <3>5. NoVerdict' <=> NoVerdict
      <4>1. \A i \in DOMAIN toHost' : i + 1 \in DOMAIN toHost /\ toHost'[i] = toHost[i + 1]
        BY <1>1, <3>1, VerdictsShift
      <4>2. \A i \in DOMAIN toHost : i # 1 =>
              i - 1 \in DOMAIN toHost' /\ toHost'[i - 1] = toHost[i]
        BY <1>1, <3>1, VerdictsShift
      <4>3. toHost[1].code \notin {COMM_ID_STOP, COMM_ID_START_NO_PARAMS}
        BY <1>1, <3>1
      <4> QED
        BY <4>1, <4>2, <4>3 DEF NoVerdict, In
    <3>6. AnswersTell'
      BY <1>1, <1>3, <3>1, <3>4, <3>5 DEF AnswersTell, In
    <3>7. toHost' \in Seq(Messages)
      BY <1>1, <3>1
    <3> QED
      BY <1>1, <3>1, <3>3, <3>6, <3>7 DEF ScansAnswered
  <2> QED
    BY <2>1, <2>2 DEF LineLoses
<1>5. BoardInv'
  BY <1>2, <1>4, BoardInvLine DEF SysInv
<1>6. ScansAnswered'
  BY <1>1, <1>2, <1>3, <1>4
     DEF ScansAnswered, boardVars, runVars, confVars, pinVars, Refuses
<1>7. HostTypeOK' /\ TableOK(cmd') /\ StartsAgain'
  BY <1>2 DEF SysInv, hostVars, HostTypeOK, TableOK, StartsAgain, Busy
<1>8. restarts' = restarts
  BY <1>2
<1> QED
  BY <1>4, <1>5, <1>6, <1>7, <1>8 DEF SysInv

\* The scans go on, if any.
Onward ==
    \/ stack = <<>> /\ stack' = <<>>
    \/ /\ stack # <<>> /\ stack' # <<>> /\ Len(stack') = Len(stack)
       /\ Top'.conf = Top.conf /\ Top'.result = Top.result /\ Top'.starter = Top.starter

\* A function on 1 .. n is a sequence of the length n.
LEMMA FunctionLength ==
    ASSUME NEW T, NEW n \in Nat, NEW f \in [1 .. n -> T]
    PROVE  Len(f) = n
OBVIOUS

\* The running activation is written over.
LEMMA RewriteOnward ==
    ASSUME stack \in Seq(Activations), stack # <<>>, NEW a,
           stack' = [stack EXCEPT ![Len(stack)] = a],
           a.conf = Top.conf, a.result = Top.result, a.starter = Top.starter
    PROVE  Onward
<1>1. Len(stack) \in Nat \ {0} /\ DOMAIN stack = 1 .. Len(stack)
  BY EmptySeq
<1>2. Len(stack) \in DOMAIN stack
  BY <1>1
<1>3. DOMAIN stack' = DOMAIN stack /\ stack'[Len(stack)] = a
  BY <1>2
<1>4. stack' \in [1 .. Len(stack) -> Activations \cup {a}]
  BY <1>1, <1>3
<1>5. Len(stack') = Len(stack)
  BY <1>1, <1>4, FunctionLength
<1>6. Top' = a
  BY <1>3, <1>5 DEF Top
<1>7. stack' # <<>>
  BY <1>1, <1>5
<1> QED
  BY <1>5, <1>6, <1>7 DEF Onward

\* checkCommand has returned to its caller.
LEMMA ReturnedOnward ==
    ASSUME stack \in Seq(Activations), stack' = Returned
    PROVE  Onward
<1>1. CASE stack = <<>>
  BY <1>1 DEF Returned, Onward
<1>2. CASE stack # <<>>
  <2>1. Len(stack) \in DOMAIN stack /\ Top \in Activations
    <3>1. Len(stack) \in Nat \ {0} /\ DOMAIN stack = 1 .. Len(stack)
      BY <1>2, EmptySeq
    <3>2. Len(stack) \in DOMAIN stack
      BY <3>1
    <3> QED
      BY <3>2 DEF Top
  <2>2. PICK a : a = [Top EXCEPT !.pc = "sample"]
    OBVIOUS
  <2>3. a.conf = Top.conf /\ a.result = Top.result /\ a.starter = Top.starter
    BY <2>1, <2>2 DEF Activations
  <2>4. stack' = [stack EXCEPT ![Len(stack)] = a]
    BY <1>2, <2>1, <2>2 DEF Returned, Top
  <2> QED
    BY <1>2, <2>3, <2>4, RewriteOnward
<1> QED
  BY <1>1, <1>2

\* What a step of the board says and does: it goes on as it was and says
\* nothing of it; it starts to scan; or it stops.
GoesOn(n) ==
    /\ scanning' = scanning
    /\ scanning => Points(Top.conf)' = Points(Top.conf)
    /\ \/ toHost' = toHost
       \/ \E a : Wrote(n, a) /\ a.code \notin {COMM_ID_STOP, COMM_ID_START_NO_PARAMS}

Starts(n) ==
    /\ scanning' /\ n >= 1 /\ Head(toBoard).code = COMM_ID_START_NO_PARAMS
    /\ \E a : /\ Wrote(n, a) /\ a.code = COMM_ID_START_NO_PARAMS
              /\ Points(a.conf) = Points(Top.conf)'

Stops(n) ==
    /\ scanning' = FALSE
    /\ \E a : Wrote(n, a) /\ a.code = COMM_ID_STOP

\* What the invariant says of the board and of the line.
LEMMA BoardFacts ==
    ASSUME SysInv
    PROVE  /\ toBoard \in Seq(Messages) /\ toHost \in Seq(Messages)
           /\ stack \in Seq(Activations) /\ settings \in Configs /\ window \in Windows
           /\ pinLow = FALSE /\ triggerFlag = FALSE /\ doStop = FALSE
           /\ stack = <<>> \/ (Len(stack) = 1 /\ Top = stack[1] /\ Top \in Activations)
           /\ stack # <<>> => Top.result /\ Top.starter = COMM_ID_STOP /\ Refuses = FALSE
           /\ Points(settings) # 0
           /\ \A i \in DOMAIN toBoard : toBoard[i].code \in Sendable
           /\ stack = <<>> => scanning = FALSE
           /\ AtCheck /\ stack # <<>> => scanning
<1>1. /\ toBoard \in Seq(Messages) /\ toHost \in Seq(Messages)
      /\ stack \in Seq(Activations) /\ settings \in Configs /\ window \in Windows
      /\ pinLow = FALSE /\ triggerFlag = FALSE /\ doStop = FALSE
  BY DEF SysInv, ScansAnswered, BoardInv, BoardTypeInvariant, BoardTypeOK, LinkTypeOK
<1>2. stack = <<>> \/ (Len(stack) = 1 /\ Top = stack[1] /\ Top \in Activations)
  <2>1. Len(stack) =< 1 /\ Len(stack) \in Nat
    BY <1>1 DEF SysInv, ScansAnswered
  <2>2. stack # <<>> => Len(stack) = 1
    <3>1. stack # <<>> => Len(stack) # 0
      BY <1>1, EmptySeq
    <3>2. \A k \in Nat : k =< 1 => k = 0 \/ k = 1
      OBVIOUS
    <3>3. Len(stack) = 0 \/ Len(stack) = 1
      BY <2>1, <3>2
    <3> QED
      BY <3>1, <3>3
  <2>3. stack # <<>> => stack[1] \in Activations
    BY <1>1, <2>2
  <2> QED
    BY <2>2, <2>3 DEF Top
<1>3. scanning \in BOOLEAN /\ (stack = <<>> => scanning = FALSE)
  BY DEF SysInv, BoardInv, BoardTypeInvariant, BoardTypeOK, IdleIsOff
<1>4. AtCheck /\ stack # <<>> => scanning
  BY DEF SysInv, BoardInv, AtCheck, CheckScans
<1>5. stack # <<>> => Refuses = FALSE
  BY DEF SysInv, ScansAnswered
<1> QED
  BY <1>1, <1>2, <1>3, <1>4, <1>5 DEF SysInv, ScansAnswered

\* Whatever leaves the settings of the scan and its window alone keeps what is
\* said of scans.
LEMMA ScansGoOn ==
    ASSUME SysInv, Onward, UNCHANGED <<pinVars, doStop, filterWindow>>,
           Points(settings)' # 0, NEW n, Taken(n)
    PROVE  /\ ScansAnswered'
           /\ scanning => Points(Top.conf)' = Points(Top.conf)
<1>1. /\ stack = <<>> \/ Len(stack) = 1
      /\ stack # <<>> => Top.result /\ Top.starter = COMM_ID_STOP /\ ~Refuses
      /\ stack = <<>> => scanning = FALSE
      /\ toBoard \in Seq(Messages)
      /\ \A i \in DOMAIN toBoard : toBoard[i].code \in Sendable
      /\ ~pinLow /\ ~triggerFlag /\ ~doStop
  BY BoardFacts
<1>2. \A i \in DOMAIN toBoard' : toBoard'[i].code \in Sendable
  BY <1>1, TakenQueue
<1>3. ~pinLow' /\ ~triggerFlag' /\ ~doStop'
  BY <1>1 DEF pinVars
<1>4. stack' # <<>> => Top'.result /\ Top'.starter = COMM_ID_STOP /\ ~Refuses'
  BY <1>1 DEF Onward, Refuses
<1>5. Len(stack') =< 1
  <2>1. Len(<<>>) =< 1 /\ 1 =< 1
    OBVIOUS
  <2> QED
    BY <1>1, <2>1, Zenon DEF Onward
<1>6. ScansAnswered'
  BY <1>2, <1>3, <1>4, <1>5 DEF ScansAnswered
<1>7. scanning => Points(Top.conf)' = Points(Top.conf)
  BY <1>1 DEF Onward, Points
<1> QED
  BY <1>6, <1>7

\* A command is handled.
LEMMA HandleCasesSystem ==
    ASSUME SysInv, AtCheck, NEW n, Taken(n), n >= 1, Unannounced' = FALSE,
           NEW m, m = Head(toBoard), Handle(m), UNCHANGED pinVars
    PROVE  ScansAnswered' /\ (GoesOn(n) \/ Starts(n) \/ Stops(n))
<1>1. /\ toBoard \in Seq(Messages) /\ toHost \in Seq(Messages)
      /\ stack \in Seq(Activations) /\ settings \in Configs /\ window \in Windows
      /\ pinLow = FALSE /\ triggerFlag = FALSE /\ doStop = FALSE
      /\ stack # <<>> => Top.result /\ Top.starter = COMM_ID_STOP /\ Refuses = FALSE
      /\ Points(settings) # 0
      /\ \A i \in DOMAIN toBoard : toBoard[i].code \in Sendable
      /\ AtCheck /\ stack # <<>> => scanning
  BY BoardFacts
<1>2. /\ toBoard # <<>> /\ 1 \in DOMAIN toBoard /\ m = toBoard[1]
      /\ \A i \in DOMAIN toBoard' : toBoard'[i].code \in Sendable
  BY <1>1, TakenQueue
<1>3. m \in Messages /\ m.code \in Sendable /\ m.conf \in Configs
  <2>1. m \in Messages
    BY <1>1, <1>2, ElementOfSeq
  <2>2. m.code \in Sendable
    BY <1>1, <1>2
  <2> QED
    BY <2>1, <2>2 DEF Messages
<1>4. NoConfig \in Configs
  BY LinkAssumption DEF NoConfig, Configs, FILTER_NONE
<1>5. \A c \in Codes : Plain(c) \in Messages /\ Plain(c).code = c
  BY <1>4, AnswersTyped DEF Plain, Status
<1>6. CASE HandleStartNoParams(m)
  <2>1. In(toBoard, COMM_ID_START_NO_PARAMS)
    BY <1>2, <1>6 DEF HandleStartNoParams, In
  <2>2. scanning = FALSE /\ stack = <<>>
    BY <1>1, <2>1 DEF SysInv, AnswersTell, BoardInv, BoardTypeInvariant, BoardTypeOK
  <2>3. /\ WriteToHost(StartAnswer(COMM_ID_START_NO_PARAMS, settings, "SESSION_STARTED"))
        /\ BeginScan(COMM_ID_STOP, settings) /\ UNCHANGED confVars
    BY <1>6, <2>2 DEF HandleStartNoParams, Toggle
  <2>4. PICK act : /\ act = [starter |-> COMM_ID_STOP, conf |-> settings, counter |-> 0,
                             packageId |-> 0, pc |-> "check", result |-> TRUE]
                   /\ stack' = <<act>>
    BY <1>1, <2>2, <2>3 DEF BeginScan, Returned
  <2>5. /\ scanning' /\ doStop' = FALSE
        /\ filterWindow' = WindowFor(settings.filter)
    BY <1>1, <2>3 DEF BeginScan
  <2>6. Top' = act /\ Len(stack') = 1
    BY <2>4 DEF Top
  <2>7. ~Refuses'
    <3>1. stack' # <<>>
      BY <2>4
    <3> QED
      BY <3>1 DEF Unannounced
  <2>8. ScansAnswered'
    <3>1. Len(stack') =< 1
      BY <2>6
    <3>2. Top'.result /\ Top'.starter = COMM_ID_STOP
      BY <2>4, <2>6
    <3> QED
      BY <1>1, <1>2, <2>3, <2>5, <2>7, <3>1, <3>2 DEF ScansAnswered, confVars, pinVars
  <2>9. PICK a : a = StartAnswer(COMM_ID_START_NO_PARAMS, settings, "SESSION_STARTED")
    OBVIOUS
  <2>10. /\ a \in Messages /\ a.code = COMM_ID_START_NO_PARAMS
         /\ Points(a.conf) = Points(settings)
    <3>1. COMM_ID_START_NO_PARAMS \in Codes /\ "SESSION_STARTED" \in Status
      BY DEF Codes, Status
    <3>2. a \in Messages
      BY <1>1, <2>9, <3>1, AnswersTyped
    <3>3. a.conf = [settings EXCEPT !.filter = FILTER_NONE]
      BY <2>9 DEF StartAnswer
    <3>4. a.conf.x = settings.x /\ a.conf.y = settings.y
      BY <1>1, <3>3 DEF Configs
    <3> QED
      BY <2>9, <3>2, <3>4 DEF StartAnswer, Points
  <2>11. Wrote(n, a)
    BY <1>6, <2>3, <2>9, <2>10 DEF Wrote, WriteToHost, HandleStartNoParams
  <2>12. Points(a.conf) = Points(Top.conf)'
    BY <2>4, <2>6, <2>10 DEF Points
  <2>13. Starts(n)
    BY <1>6, <2>5, <2>10, <2>11, <2>12 DEF Starts, HandleStartNoParams
  <2> QED
    BY <2>8, <2>13
<1>7. CASE HandleStop(m)
  <2>1. Onward
    BY <1>1, <1>7, ReturnedOnward DEF HandleStop
  <2>2. ScansAnswered'
    BY <1>1, <1>7, <2>1, ScansGoOn DEF HandleStop, confVars, Points
  <2>3. Plain(COMM_ID_STOP) \in Messages /\ Plain(COMM_ID_STOP).code = COMM_ID_STOP
    BY <1>5 DEF Codes
  <2>4. Stops(n)
    BY <1>7, <2>3 DEF HandleStop, Stops, Wrote, WriteToHost
  <2> QED
    BY <2>2, <2>4
<1>8. CASE HandleWriteConfig(m)
  <2>1. Onward /\ UNCHANGED <<doStop, filterWindow, scanning>>
    BY <1>1, <1>8, ReturnedOnward DEF HandleWriteConfig, runVars
  <2>2. Points(settings') # 0
    <3>1. settings' = [m.conf EXCEPT !.x = IF @ = 0 THEN MAX_X ELSE @,
                                     !.y = IF @ = 0 THEN MAX_Y ELSE @]
      BY <1>8 DEF HandleWriteConfig
    <3>2. settings'.x \in Nat \ {0} /\ settings'.y \in Nat \ {0}
      BY <1>3, <3>1, LinkAssumption, BoardAssumption DEF Configs
    <3>3. \A x, y \in Nat \ {0} : x * y # 0
      OBVIOUS
    <3> QED
      BY <3>2, <3>3 DEF Points
  <2>3. ScansAnswered' /\ (scanning => Points(Top.conf)' = Points(Top.conf))
    BY <2>1, <2>2, ScansGoOn DEF Points
  <2>4. toHost' = toHost \/ toHost' = Append(toHost, Plain(COMM_ID_WRITE_CONFIG))
    BY <1>8 DEF HandleWriteConfig, WriteSettings, WriteToHost
  <2>5. /\ Plain(COMM_ID_WRITE_CONFIG) \in Messages
        /\ Plain(COMM_ID_WRITE_CONFIG).code = COMM_ID_WRITE_CONFIG
    BY <1>5 DEF Codes
  <2>6. GoesOn(n)
    BY <2>1, <2>3, <2>4, <2>5 DEF GoesOn, Wrote
  <2> QED
    BY <2>3, <2>6
<1>9. CASE HandleRead(m)
  <2>1. Onward /\ UNCHANGED <<doStop, filterWindow, scanning, settings>>
    BY <1>1, <1>9, ReturnedOnward DEF HandleRead, runVars, confVars
  <2>2. ScansAnswered' /\ (scanning => Points(Top.conf)' = Points(Top.conf))
    BY <1>1, <2>1, ScansGoOn DEF Points
  <2>3. PICK a : a = IF m.code = COMM_ID_READ_CONFIG THEN Carrying(m.code, settings)
                     ELSE Plain(m.code)
    OBVIOUS
  <2>4. a \in Messages /\ a.code = m.code
    BY <1>1, <1>3, <1>5, <2>3, AnswersTyped DEF Carrying, Status, Sendable, Codes
  <2>5. Wrote(n, a)
    BY <1>9, <2>3, <2>4 DEF HandleRead, Wrote, WriteToHost
  <2>6. GoesOn(n)
    BY <1>9, <2>1, <2>2, <2>4, <2>5 DEF GoesOn, HandleRead
  <2> QED
    BY <2>2, <2>6
<1>10. \/ HandleStartNoParams(m) \/ HandleStop(m) \/ HandleWriteConfig(m) \/ HandleRead(m)
  BY <1>3 DEF Handle, HandleStart, HandleStopCan, HandleStartCan, HandleWriteFilter,
              HandleReadFilter, Sendable
<1> QED
  BY <1>6, <1>7, <1>8, <1>9, <1>10

\* Everything the board does.
LEMMA BoardCases ==
    ASSUME SysInv, BoardNext, Unannounced' = FALSE
    PROVE  ScansAnswered' /\ \E n : Taken(n) /\ (GoesOn(n) \/ Starts(n) \/ Stops(n))
<1>1. /\ toBoard \in Seq(Messages) /\ toHost \in Seq(Messages)
      /\ stack \in Seq(Activations) /\ settings \in Configs
      /\ pinLow = FALSE /\ triggerFlag = FALSE /\ doStop = FALSE
      /\ stack = <<>> \/ (Len(stack) = 1 /\ Top = stack[1] /\ Top \in Activations)
      /\ stack # <<>> => Top.result /\ Top.starter = COMM_ID_STOP /\ Refuses = FALSE
      /\ Points(settings) # 0
      /\ \A i \in DOMAIN toBoard : toBoard[i].code \in Sendable
  BY BoardFacts
<1>2. toBoard' = toBoard => Taken(0)
  BY <1>1 DEF Taken
<1>3. CASE ReceiveCommand
  <2>1. PICK n \in 1 .. Len(toBoard) :
          /\ toBoard' = SubSeq(toBoard, n + 1, Len(toBoard))
          /\ Handle(Head(toBoard))
    BY <1>3 DEF ReceiveCommand
  <2>2. Taken(n) /\ n >= 1
    BY <1>1, <2>1 DEF Taken
  <2>3. AtCheck /\ UNCHANGED pinVars
    BY <1>3 DEF ReceiveCommand
  <2> QED
    BY <2>1, <2>2, <2>3, HandleCasesSystem
<1>4. CASE NoCommand
  <2>1. Onward
    BY <1>1, <1>4, ReturnedOnward DEF NoCommand
  <2>2. UNCHANGED <<pinVars, doStop, filterWindow, scanning, settings, toBoard, toHost>>
    BY <1>4 DEF NoCommand, runVars, confVars, linkVars
  <2>3. ScansAnswered' /\ (scanning => Points(Top.conf)' = Points(Top.conf))
    BY <1>1, <1>2, <2>1, <2>2, ScansGoOn DEF Points
  <2> QED
    BY <1>2, <2>2, <2>3 DEF GoesOn
<1>5. CASE SampleAndFilter
  <2>1. stack # <<>> /\ Refuses = FALSE /\ Top \in Activations
    BY <1>1, <1>5 DEF SampleAndFilter, RunningAt
  <2>2. /\ UNCHANGED <<pinVars, doStop, filterWindow, scanning, settings, toBoard>>
    BY <1>5 DEF SampleAndFilter, runVars, confVars
  <2>3. PICK b \in {[Top EXCEPT !.packageId = Min2(@ + 1, MaxPackage)],
                    [Top EXCEPT !.counter = @ + 1]} :
          /\ stack' = [stack EXCEPT ![Len(stack)] = Continued(b)]
          /\ toHost' = toHost \/ WriteToHost(FrameOf(Top.conf))
    BY <1>5, <2>1 DEF SampleAndFilter
  <2>4. /\ b.conf = Top.conf /\ b.result = Top.result /\ b.starter = Top.starter
        /\ DOMAIN b = DOMAIN Top
    BY <2>1, <2>3 DEF Activations
  <2>5. PICK a : a = Continued(b)
    OBVIOUS
  <2>6. a.conf = Top.conf /\ a.result = Top.result /\ a.starter = Top.starter
    BY <2>1, <2>4, <2>5 DEF Continued, Activations
  <2>7. Onward
    BY <1>1, <2>1, <2>3, <2>5, <2>6, RewriteOnward
  <2>8. ScansAnswered' /\ (scanning => Points(Top.conf)' = Points(Top.conf))
    BY <1>1, <1>2, <2>2, <2>7, ScansGoOn DEF Points
  <2>9. FrameOf(Top.conf) \in Messages /\ FrameOf(Top.conf).code = COMM_ID_FRAME
    <3>1. Top.conf \in Configs
      BY <2>1 DEF Activations
    <3> QED
      BY <3>1, FrameTyped
  <2>10. \/ toHost' = toHost
         \/ \E m : Wrote(0, m) /\ m.code \notin {COMM_ID_STOP, COMM_ID_START_NO_PARAMS}
    BY <2>3, <2>9 DEF Wrote, WriteToHost
  <2> QED
    BY <1>2, <2>2, <2>8, <2>10 DEF GoesOn
<1>6. CASE Crash \/ FlashDone
  <2>1. UNCHANGED <<pinVars, doStop, filterWindow, scanning, settings, stack, toBoard, toHost>>
    BY <1>6 DEF Crash, FlashDone, runVars, confVars, linkVars
  <2>2. Onward
    BY <2>1 DEF Onward, Top
  <2>3. ScansAnswered' /\ (scanning => Points(Top.conf)' = Points(Top.conf))
    BY <1>1, <1>2, <2>1, <2>2, ScansGoOn DEF Points
  <2> QED
    BY <1>2, <2>1, <2>3 DEF GoesOn
<1>7. CASE EndScan
  <2>1. stack # <<>> /\ Top.result /\ Top.starter = COMM_ID_STOP /\ Len(stack) = 1
    BY <1>1, <1>7 DEF EndScan, RunningAt
  <2>2. /\ WriteToHost(Plain(COMM_ID_STOP)) /\ scanning' = FALSE
        /\ stack' = SubSeq(stack, 1, 0)
        /\ UNCHANGED <<doStop, settings, pinVars, toBoard>>
    BY <1>7, <2>1 DEF EndScan, confVars
  <2>3. stack' = <<>>
    BY <1>1, <2>2
  <2>4. Plain(COMM_ID_STOP) \in Messages /\ Plain(COMM_ID_STOP).code = COMM_ID_STOP
    <3>1. NoConfig \in Configs
      BY LinkAssumption DEF NoConfig, Configs, FILTER_NONE
    <3> QED
      BY <3>1 DEF Plain, Messages, Codes, Status
  <2>5. Stops(0)
    BY <2>2, <2>4 DEF Stops, Wrote, WriteToHost
  <2>6. ScansAnswered'
    <3>1. Len(stack') =< 1
      BY <2>3
    <3>2. Points(settings)' # 0
      BY <1>1, <2>2 DEF Points
    <3> QED
      BY <1>1, <2>2, <2>3, <3>1, <3>2 DEF ScansAnswered, pinVars, Points
  <2> QED
    BY <1>2, <2>2, <2>5, <2>6
<1>8. ~PinChange
  BY <1>1 DEF PinChange, Unannounced
<1>9. ReceiveCommand \/ NoCommand \/ SampleAndFilter \/ Crash \/ FlashDone \/ EndScan
  BY <1>1, <1>8 DEF BoardNext, ScanStep, TriggerStart, TriggerStop, AbortScan
<1> QED
  BY <1>3, <1>4, <1>5, <1>6, <1>7, <1>9

\* A step of the board keeps the invariant of the system.
LEMMA BoardStepKeeps ==
    ASSUME SysInv, BoardStep, ~mishap'
    PROVE  SysInv'
<1>0. Unannounced' = FALSE
  BY DEF BoardStep, Remember, Unannounced
<1>1. /\ toBoard \in Seq(Messages) /\ toHost \in Seq(Messages)
      /\ BoardInv /\ AnswersTell /\ StartsMatched /\ BoardNext
      /\ UNCHANGED <<hostVars, restarts>>
  BY BoardFacts DEF SysInv, BoardStep
<1>2. UNCHANGED <<appState, cmd, scanState, scanSettings, restarts>>
  BY <1>1 DEF hostVars
<1>3. BoardInv'
  BY <1>1, BoardNextOK
<1>4. PICK n : Taken(n) /\ (GoesOn(n) \/ Starts(n) \/ Stops(n))
  BY <1>0, <1>1, BoardCases
<1>5. ScansAnswered'
  BY <1>0, <1>1, BoardCases
<1>6. StartsMatched'
  <2>1. toHost' = toHost \/ \E a : Wrote(n, a)
    BY <1>4 DEF GoesOn, Starts, Stops
  <2> QED
    BY <1>1, <1>2, <1>4, <2>1, LineKeepsMatch
<1>7. AnswersTell'
  <2>1. CASE GoesOn(n)
    <3>1. \/ toHost' = toHost
          \/ \E a \in Messages : /\ a.code \notin {COMM_ID_STOP, COMM_ID_START_NO_PARAMS}
                                 /\ toHost' = Append(toHost, a)
      BY <2>1 DEF GoesOn, Wrote
    <3> QED
      BY <1>1, <1>2, <1>4, <2>1, <3>1, NeutralTells DEF GoesOn
  <2>2. CASE Starts(n)
    <3>1. Alone(COMM_ID_START_NO_PARAMS)
      BY <1>1 DEF StartsMatched
    <3> QED
      BY <1>1, <1>4, <2>2, <3>1, StartTells DEF Starts, Wrote
  <2>3. CASE Stops(n)
    BY <1>1, <2>3, StopTells DEF Stops, Wrote
  <2> QED
    BY <1>4, <2>1, <2>2, <2>3
<1>8. HostTypeOK' /\ TableOK(cmd') /\ StartsAgain'
  BY <1>1 DEF SysInv, hostVars, HostTypeOK, TableOK, StartsAgain, Busy
<1>9. restarts' = restarts
  BY <1>2
<1> QED
  BY <1>3, <1>5, <1>6, <1>7, <1>8, <1>9 DEF SysInv

-----------------------------------------------------------------------------
(* The invariant of the system.                                            *)

LEMMA SysInvInit == ASSUME SysInit, ~mishap PROVE SysInv
<1>1. /\ scanning = FALSE /\ doStop = FALSE /\ stack = <<>> /\ settings \in StoredConfigs
      /\ pinLow = FALSE /\ triggerFlag = FALSE
      /\ toBoard = <<>> /\ toHost = <<>> /\ restarts = 0
      /\ appState = "INIT_SERVER" /\ scanState = "UNDEFINED"
      /\ cmd = [c \in Codes |-> "NONE"]
  BY DEF SysInit, HostInit, BoardInit, LinkInit
<1>2. HostTypeOK /\ TableOK(cmd)
  BY HostInvInit DEF SysInit, HostOpenInit, HostInv, HostTypeInvariant
<1>3. BoardInv
  BY BoardInvInit DEF SysInit, BoardOpenInit
<1>4. /\ DOMAIN toBoard = {} /\ DOMAIN toHost = {}
      /\ \A c : ~In(toBoard, c) /\ ~In(toHost, c) /\ ~Coming(c)
  BY <1>1 DEF In, Coming
<1>5. StartsMatched
  <2>1. \A c : Alone(c) /\ Awaited(c)
    BY <1>4 DEF Alone, Once, Awaited
  <2>2. cmd[COMM_ID_READ_FIRMWARE_VERSION] # "WAIT"
    BY <1>1 DEF Codes
  <2> QED
    BY <2>1, <2>2 DEF StartsMatched
<1>6. StartsAgain
  BY <1>1 DEF StartsAgain
<1>7. AnswersTell
  <2>1. scanning => NoVerdict /\ scanState \in {"SCANNING", "UNDEFINED"}
    BY <1>1
  <2> QED
    BY <1>1, <1>4 DEF AnswersTell
<1>8. ScansAnswered
  <2>1. Points(settings) # 0
    BY DEF SysInit, Unannounced
  <2>2. Len(stack) =< 1
    BY <1>1
  <2> QED
    BY <1>1, <1>4, <2>1, <2>2 DEF ScansAnswered
<1> QED
  BY <1>1, <1>2, <1>3, <1>5, <1>6, <1>7, <1>8 DEF SysInv

LEMMA SysInvNext == ASSUME SysInv, [SysNext]_sysVars, ~mishap' PROVE SysInv'
<1>1. CASE HostStep
  BY <1>1, HostStartKeeps, IterateKeeps, TakeFrameKeeps DEF HostStep, MainLoop
<1>2. CASE BoardStep
  BY <1>2, BoardStepKeeps
<1>3. CASE ClientRestarts
  BY <1>3, ClientRestartsKeeps
<1>4. CASE LineLoses
  BY <1>4, LineLosesKeeps
<1>5. CASE UNCHANGED sysVars
  <2>1. /\ UNCHANGED <<boardVars, linkVars, scanState, scanSettings, cmd, hostVars>>
        /\ restarts' = restarts
    BY <1>5 DEF sysVars, hostVars
  <2>2. AnswersTell' /\ ScansAnswered' /\ BoardInv'
    BY <2>1, TellsAlike DEF Busy
  <2>3. HostTypeOK' /\ TableOK(cmd') /\ StartsAgain'
    BY <2>1 DEF SysInv, hostVars, HostTypeOK, TableOK, StartsAgain, Busy
  <2>4. StartsMatched'
    BY <2>1 DEF SysInv, hostVars, linkVars, StartsMatched, Alone, Awaited, Outdated, Once,
                In, Coming
  <2> QED
    BY <2>1, <2>2, <2>3, <2>4 DEF SysInv
<1> QED
  BY <1>1, <1>2, <1>3, <1>4, <1>5 DEF SysNext

\* Mishaps are not forgotten.
LEMMA MishapStays == ASSUME mishap, [SysNext]_sysVars PROVE mishap'
BY DEF SysNext, HostStep, MainLoop, Iterate, BoardStep, ClientRestarts, LineLoses, Remember,
       sysVars

LEMMA SysInvUnlessMishapInvariant == SysSpec => []SysInvUnlessMishap
<1>1. SysInit => SysInvUnlessMishap
  BY SysInvInit DEF SysInvUnlessMishap
<1>2. SysInvUnlessMishap /\ [SysNext]_sysVars => SysInvUnlessMishap'
  <2> SUFFICES ASSUME SysInvUnlessMishap, [SysNext]_sysVars, ~mishap'  PROVE SysInv'
    BY DEF SysInvUnlessMishap
  <2>1. SysInv
    BY MishapStays DEF SysInvUnlessMishap
  <2> QED
    BY <2>1, SysInvNext
<1> QED
  BY <1>1, <1>2, PTL DEF SysSpec

\* What the invariant is for.
LEMMA QuietAgrees ==
    ASSUME SysInv, Quiet
    PROVE  /\ scanState = "SCANNING" /\ stack # <<>>
           /\ Points(Top.conf) = Points(scanSettings)
<1>1. ~Busy(cmd) /\ appState = "WORK"
  BY DEF Quiet, Busy, Codes
<1>2. scanState = "SCANNING"
  BY <1>1 DEF SysInv, StartsAgain
<1>3. NoVerdict
  BY DEF Quiet, NoVerdict, In
<1>4. scanning /\ Points(scanSettings) = Points(Top.conf)
  BY <1>1, <1>2, <1>3 DEF SysInv, AnswersTell
<1>5. stack # <<>>
  BY <1>4, BoardFacts
<1> QED
  BY <1>2, <1>4, <1>5

\* frameParser keeps the frame of a scan of the expected size if it is whole.
LEMMA WholeFrameExpected ==
    ASSUME NEW conf \in Configs, Points(conf) = Points(scanSettings)
    PROVE  Expected(FrameOf(conf)) <=> Points(conf) =< TX_POINTS
<1>1. /\ FrameOf(conf).conf = conf
      /\ FrameOf(conf).status = IF Points(conf) =< TX_POINTS THEN "NONE" ELSE "TRUNCATED"
  BY DEF FrameOf, Carrying
<1> QED
  BY <1>1 DEF Expected

-----------------------------------------------------------------------------

\* Up to the first mishap, after every exchange the client shows a scan exactly
\* when checkCommand runs one, whatever commands and repeatable answers the line
\* loses, whichever other counters run out and although the client may have been
\* killed: of several starts on the line the second would stop what the first
\* began.
THEOREM SystemAgrees == SysSpec => []AgreeUnlessMishap
<1>1. SysInvUnlessMishap => AgreeUnlessMishap
  BY QuietAgrees DEF SysInvUnlessMishap, AgreeUnlessMishap, AgreeWhenQuiet
<1> QED
  BY <1>1, SysInvUnlessMishapInvariant, PTL

\* When frames arrive after an exchange, frameParser expects their size, up to
\* the first mishap: the settings of the client have the pixels of the scan in
\* progress.  It keeps the frames if and only if sendFrame has sent them whole.
THEOREM SystemFramesExpected == SysSpec => []FramesExpected
<1>1. SysInvUnlessMishap => FramesExpected
  <2> SUFFICES ASSUME SysInv, Quiet, stack # <<>>
               PROVE  /\ Points(Top.conf) = Points(scanSettings)
                      /\ Expected(FrameOf(Top.conf)) <=> Points(Top.conf) =< TX_POINTS
    BY DEF SysInvUnlessMishap, FramesExpected
  <2>1. Points(Top.conf) = Points(scanSettings)
    BY QuietAgrees
  <2>2. Top.conf \in Configs
    BY BoardFacts DEF Activations
  <2> QED
    BY <2>1, <2>2, WholeFrameExpected
<1> QED
  BY <1>1, SysInvUnlessMishapInvariant, PTL
-----------------------------------------------------------------------------
(* Each program is, beside the other, what it is beside any partner.       *)

\* The types, which need no assumption.
SysTypes == HostTypeOK /\ TableOK(cmd) /\ BoardInv /\ restarts \in Nat

\* An iteration keeps the types, and to the board it is an act of a client.
LEMMA IterateActs ==
    ASSUME SysTypes, Iterate, UNCHANGED boardVars,
           \A m \in Messages : m.code \in Sendable => m \in AnyCommand
    PROVE  HostTypeOK' /\ TableOK(cmd') /\ ClientActs
<1>1. /\ toBoard \in Seq(Messages) /\ toHost \in Seq(Messages) /\ losses \in Nat
      /\ HostTypeOK /\ TableOK(cmd) /\ baudState \in BaudState
  BY DEF SysTypes, HostTypeOK, BoardInv, BoardTypeInvariant, LinkTypeOK
<1>2. PICK expired \in Expired : IterateSilent(expired) \/ IterateAnswer(expired)
  BY DEF Iterate
<1>3. TableOK(timerTick(cmd, expired))
  BY <1>1, TickOK DEF Expired
<1>4. \E t : /\ TableOK(t) /\ Rest(t)
             /\ scanState' \in ScanState
             /\ boardSettings' \in Configs /\ scanSettings' \in Configs
             /\ frameBuffer' \in Seq(Nat) /\ Len(frameBuffer') =< FRAME_BUFFER_SIZE
             /\ toHost' = toHost \/ (toHost # <<>> /\ toHost' = Tail(toHost))
  <2>1. CASE IterateSilent(expired)
    BY <1>1, <1>3, <2>1 DEF IterateSilent, HostTypeOK
  <2>2. CASE IterateAnswer(expired)
    <3>1. Head(toHost) \in Messages
      BY <1>1, <2>2 DEF IterateAnswer
    <3>2. TableOK(Answered(timerTick(cmd, expired), Head(toHost)))
      BY <1>3, <3>1, AnswerEffect
    <3> QED
      BY <1>1, <2>2, <3>1, <3>2, AnswerTypes DEF IterateAnswer
  <2> QED
    BY <1>2, <2>1, <2>2
<1>5. PICK t : /\ TableOK(t) /\ Rest(t)
               /\ scanState' \in ScanState
               /\ boardSettings' \in Configs /\ scanSettings' \in Configs
               /\ frameBuffer' \in Seq(Nat) /\ Len(frameBuffer') =< FRAME_BUFFER_SIZE
               /\ toHost' = toHost \/ (toHost # <<>> /\ toHost' = Tail(toHost))
  BY <1>4
<1>6. /\ TableOK(cmd') /\ Writes(t)
      /\ baudState' \in BaudState /\ json' = json /\ appState' \in ApplicationState
  BY <1>1, <1>5, RestEffect
<1>7. UNCHANGED losses \/ CountLoss
  BY <1>5 DEF Rest, PollRest, BaudRest, ServeRequest, SendCommand
<1>8. HostTypeOK'
  BY <1>1, <1>5, <1>6 DEF HostTypeOK, TableOK
<1>9. \/ UNCHANGED toBoard
      \/ \E m \in AnyCommand : WriteToBoard(m)
  <2>1. NoConfig \in Configs
    BY LinkAssumption DEF NoConfig, Configs, FILTER_NONE
  <2>2. \A c \in Sendable : Request(c) \in Messages /\ Request(c).code = c
    BY <1>5, <2>1 DEF Request, Plain, Carrying, Messages, Status, Sendable, Codes
  <2> QED
    BY <1>6, <2>2 DEF Writes
<1>10. \E read \in 0 .. Len(toHost) : toHost' = SubSeq(toHost, read + 1, Len(toHost))
  <2>1. CASE toHost' = toHost
    <3>1. 0 \in 0 .. Len(toHost) /\ toHost = SubSeq(toHost, 0 + 1, Len(toHost))
      BY <1>1
    <3> QED
      BY <2>1, <3>1
  <2>2. CASE toHost # <<>> /\ toHost' = Tail(toHost)
    <3>1. 1 \in 0 .. Len(toHost) /\ Tail(toHost) = SubSeq(toHost, 1 + 1, Len(toHost))
      BY <1>1, <2>2
    <3> QED
      BY <2>2, <3>1
  <2> QED
    BY <1>5, <2>1, <2>2
<1> QED
  BY <1>6, <1>7, <1>8, <1>9, <1>10 DEF ClientActs

\* To the board every step of the system is one of its own or an act of a
\* client, also the restart of that client and what the line loses.
LEMMA SystemIsBoard ==
    ASSUME \A m \in Messages : m.code \in Sendable => m \in AnyCommand,
           SysTypes, [SysNext]_sysVars
    PROVE  SysTypes' /\ [BoardOpenNext]_<<boardVars, linkVars>>
<1>1. /\ toBoard \in Seq(Messages) /\ toHost \in Seq(Messages) /\ losses \in Nat
      /\ HostTypeOK /\ TableOK(cmd) /\ BoardInv /\ restarts \in Nat
  BY DEF SysTypes, HostTypeOK, BoardInv, BoardTypeInvariant, LinkTypeOK
<1>2. [BoardOpenNext]_<<boardVars, linkVars>> => BoardInv'
  BY <1>1, BoardInvNext
<1>3. CASE (HostStart \/ TakeFrame) /\ UNCHANGED <<boardVars, restarts>>
  <2>1. UNCHANGED <<boardVars, linkVars>>
    BY <1>3 DEF HostStart, serverStart, loadJson, detectDevice, TakeFrame
  <2>2. cmd' \in [Codes -> CommandState] /\ TableOK(cmd')
    <3>1. \/ cmd' = cmd
          \/ cmd' = [cmd EXCEPT ![COMM_ID_READ_FIRMWARE_VERSION] = "REQUEST"]
      BY <1>3 DEF HostStart, serverStart, loadJson, detectDevice, TakeFrame
    <3>2. CASE cmd' = [cmd EXCEPT ![COMM_ID_READ_FIRMWARE_VERSION] = "REQUEST"]
      <4>1. cmd' \in [Codes -> CommandState]
        BY <1>1, <3>2 DEF TableOK, CommandState
      <4>2. \A c \in Codes : \/ cmd'[c] = cmd[c]
                             \/ c = COMM_ID_READ_FIRMWARE_VERSION /\ cmd'[c] = "REQUEST"
        BY <1>1, <3>2 DEF TableOK
      <4>3. COMM_ID_READ_FIRMWARE_VERSION \in Sendable
        BY DEF Sendable
      <4> QED
        BY <1>1, <4>1, <4>2, <4>3 DEF TableOK
    <3> QED
      BY <1>1, <3>1, <3>2 DEF TableOK
  <2>3. frameBuffer' \in Seq(Nat) /\ Len(frameBuffer') =< FRAME_BUFFER_SIZE
    <3>1. \/ frameBuffer' = frameBuffer
          \/ frameBuffer # <<>> /\ frameBuffer' = Tail(frameBuffer)
      BY <1>3 DEF HostStart, serverStart, loadJson, detectDevice, TakeFrame
    <3>2. frameBuffer \in Seq(Nat) /\ Len(frameBuffer) =< FRAME_BUFFER_SIZE
      BY <1>1 DEF HostTypeOK
    <3> QED
      BY <3>1, <3>2, HostAssumption
  <2>4. /\ UNCHANGED <<baudState, scanState, boardSettings, scanSettings>>
        /\ appState' \in ApplicationState /\ json' \in JsonSizes \cup {NoJson}
    BY <1>1, <1>3 DEF HostStart, serverStart, loadJson, detectDevice, TakeFrame, HostTypeOK,
                      ApplicationState
  <2>5. HostTypeOK'
    BY <1>1, <2>2, <2>3, <2>4 DEF HostTypeOK
  <2> QED
    BY <1>1, <1>2, <1>3, <2>1, <2>2, <2>5 DEF SysTypes
<1>4. CASE Iterate /\ UNCHANGED <<boardVars, restarts>>
  <2>1. HostTypeOK' /\ TableOK(cmd') /\ ClientActs
    BY <1>4, IterateActs
  <2> QED
    BY <1>1, <1>2, <1>4, <2>1 DEF BoardOpenNext, SysTypes
<1>5. CASE BoardStep
  <2>1. HostTypeOK' /\ TableOK(cmd')
    BY <1>1, <1>5 DEF BoardStep, hostVars, HostTypeOK, TableOK
  <2> QED
    BY <1>1, <1>2, <1>5, <2>1 DEF BoardStep, BoardOpenNext, SysTypes
<1>6. CASE ClientRestarts
  <2>1. \E read \in 0 .. Len(toHost) : toHost' = SubSeq(toHost, read + 1, Len(toHost))
    <3>1. /\ 0 \in 0 .. Len(toHost) /\ toHost = SubSeq(toHost, 0 + 1, Len(toHost))
          /\ Len(toHost) \in 0 .. Len(toHost)
          /\ <<>> = SubSeq(toHost, Len(toHost) + 1, Len(toHost))
      BY <1>1
    <3>2. toHost' = toHost \/ toHost' = <<>>
      BY <1>6 DEF ClientRestarts
    <3> QED
      BY <3>1, <3>2, Zenon
  <2>2. ClientActs
    BY <1>6, <2>1 DEF ClientRestarts, ClientActs
  <2>3. HostTypeOK' /\ TableOK(cmd')
    <3>1. NoConfig \in Configs
      BY LinkAssumption DEF NoConfig, Configs, FILTER_NONE
    <3> QED
      BY <1>6, <3>1, HostAssumption
         DEF ClientRestarts, HostTypeOK, TableOK, ApplicationState, BaudState, ScanState,
             CommandState
  <2>4. restarts' \in Nat
    BY <1>1, <1>6 DEF ClientRestarts
  <2> QED
    BY <1>2, <2>2, <2>3, <2>4 DEF BoardOpenNext, SysTypes
<1>7. CASE LineLoses
  <2>1. \E read \in 0 .. Len(toHost) : toHost' = SubSeq(toHost, read + 1, Len(toHost))
    <3>1. CASE toHost' = toHost
      <4>1. 0 \in 0 .. Len(toHost) /\ toHost = SubSeq(toHost, 0 + 1, Len(toHost))
        BY <1>1
      <4> QED
        BY <3>1, <4>1
    <3>2. CASE toHost # <<>> /\ toHost' = Tail(toHost)
      <4>1. 1 \in 0 .. Len(toHost) /\ Tail(toHost) = SubSeq(toHost, 1 + 1, Len(toHost))
        BY <1>1, <3>2
      <4> QED
        BY <3>2, <4>1
    <3> QED
      BY <1>7, <3>1, <3>2 DEF LineLoses, LoseCommand, LoseAnswer
  <2>2. ClientActs
    BY <1>7, <2>1 DEF LineLoses, LoseCommand, LoseAnswer, ClientActs
  <2>3. HostTypeOK' /\ TableOK(cmd')
    BY <1>1, <1>7 DEF LineLoses, hostVars, HostTypeOK, TableOK
  <2> QED
    BY <1>1, <1>2, <1>7, <2>2, <2>3 DEF LineLoses, BoardOpenNext, SysTypes
<1>8. CASE UNCHANGED sysVars
  BY <1>1, <1>2, <1>8 DEF sysVars, hostVars, SysTypes, HostTypeOK, TableOK
<1> QED
  BY <1>3, <1>4, <1>5, <1>6, <1>7, <1>8 DEF SysNext, HostStep, MainLoop

LEMMA SysTypesInit == SysInit => SysTypes /\ BoardOpenInit /\ HostOpenInit
<1> SUFFICES ASSUME SysInit  PROVE SysTypes /\ BoardOpenInit /\ HostOpenInit
  OBVIOUS
<1>1. BoardOpenInit /\ HostOpenInit /\ restarts = 0
  BY DEF SysInit, BoardOpenInit, HostOpenInit
<1>2. HostTypeOK /\ TableOK(cmd)
  BY <1>1, HostInvInit DEF HostInv, HostTypeInvariant
<1>3. BoardInv
  BY <1>1, BoardInvInit
<1> QED
  BY <1>1, <1>2, <1>3 DEF SysTypes

\* The firmware beside this client, which is killed and started again at will,
\* is the firmware beside any client that writes these five commands: what is
\* proved of BoardSpec holds in the system.
THEOREM SystemRefinesBoard ==
    ASSUME \A m \in Messages : m.code \in Sendable => m \in AnyCommand
    PROVE  SysSpec => BoardSpec
<1>1. SysInit => SysTypes /\ BoardOpenInit
  BY SysTypesInit
<1>2. SysTypes /\ [SysNext]_sysVars => SysTypes' /\ [BoardOpenNext]_<<boardVars, linkVars>>
  BY SystemIsBoard
<1> QED
  BY <1>1, <1>2, PTL DEF SysSpec, BoardSpec

\* What the board writes is one message, or none; what it takes is gone.
LEMMA BoardWrites ==
    ASSUME BoardNext
    PROVE  /\ toHost' = toHost \/ \E a : WriteToHost(a)
           /\ UNCHANGED losses \/ CountLoss
           /\ \/ toBoard' = toBoard
              \/ \E n \in 1 .. Len(toBoard) : toBoard' = SubSeq(toBoard, n + 1, Len(toBoard))
<1>1. ASSUME NEW m, Handle(m)
      PROVE  (toHost' = toHost \/ \E a : WriteToHost(a)) /\ (UNCHANGED losses \/ CountLoss)
  <2>1. CASE HandleStart(m)          BY <2>1 DEF HandleStart, Toggle
  <2>2. CASE HandleStartNoParams(m)  BY <2>2 DEF HandleStartNoParams, Toggle
  <2>3. CASE HandleStop(m)           BY <2>3 DEF HandleStop
  <2>4. CASE HandleStopCan(m)        BY <2>4 DEF HandleStopCan
  <2>5. CASE HandleStartCan(m)       BY <2>5 DEF HandleStartCan
  <2>6. CASE HandleWriteConfig(m)    BY <2>6 DEF HandleWriteConfig, WriteSettings
  <2>7. CASE HandleWriteFilter(m)    BY <2>7 DEF HandleWriteFilter, WriteSettings
  <2>8. CASE HandleReadFilter(m)     BY <2>8 DEF HandleReadFilter
  <2>9. CASE HandleRead(m)           BY <2>9 DEF HandleRead
  <2> QED
    BY <1>1, <2>1, <2>2, <2>3, <2>4, <2>5, <2>6, <2>7, <2>8, <2>9 DEF Handle
<1>2. CASE ReceiveCommand
  <2>1. PICK n \in 1 .. Len(toBoard) :
          toBoard' = SubSeq(toBoard, n + 1, Len(toBoard)) /\ Handle(Head(toBoard))
    BY <1>2 DEF ReceiveCommand
  <2> QED
    BY <1>1, <2>1
<1>3. CASE TriggerStart
  BY <1>3 DEF TriggerStart, HandleStartCan
<1>4. CASE TriggerStop
  BY <1>4 DEF TriggerStop, HandleStopCan
<1>5. CASE ScanStep
  BY <1>5 DEF ScanStep, NoCommand, AbortScan, SampleAndFilter, Crash, EndScan, linkVars
<1>6. CASE FlashDone \/ PinChange
  BY <1>6 DEF FlashDone, PinChange, linkVars
<1> QED
  BY <1>2, <1>3, <1>4, <1>5, <1>6 DEF BoardNext

\* To the client every step of the system but its restart is one of its own or an
\* act of a board that may do anything.
LEMMA SystemIsHost ==
    ASSUME AnyAnswer = Messages, SysTypes, SysTypes', [SysNext]_sysVars, restarts' = restarts
    PROVE  [HostOpenNext]_<<hostVars, linkVars>>
<1>1. /\ toBoard \in Seq(Messages) /\ toHost \in Seq(Messages) /\ toHost' \in Seq(Messages)
  BY DEF SysTypes, BoardInv, BoardTypeInvariant, LinkTypeOK
<1>2. 0 \in 0 .. Len(toBoard) /\ toBoard = SubSeq(toBoard, 0 + 1, Len(toBoard))
  BY <1>1
<1>3. CASE HostStep
  BY <1>3 DEF HostStep, MainLoop, Iterate, HostNext, HostOpenNext
<1>4. CASE BoardStep
  <2>1. /\ toHost' = toHost \/ \E a : WriteToHost(a)
        /\ UNCHANGED losses \/ CountLoss
        /\ \/ toBoard' = toBoard
           \/ \E n \in 1 .. Len(toBoard) : toBoard' = SubSeq(toBoard, n + 1, Len(toBoard))
    BY <1>4, BoardWrites DEF BoardStep
  <2>2. \E taken \in 0 .. Len(toBoard) :
          toBoard' = SubSeq(toBoard, taken + 1, Len(toBoard))
    <3>1. \A n \in 1 .. Len(toBoard) : n \in 0 .. Len(toBoard)
      BY <1>1
    <3> QED
      BY <1>2, <2>1, <3>1
  <2>3. UNCHANGED toHost \/ \E m \in AnyAnswer : WriteToHost(m)
    <3>1. ASSUME NEW a, WriteToHost(a)  PROVE a \in Messages
      <4>1. PICK last : last = Len(toHost) + 1
        OBVIOUS
      <4>2. toHost' = Append(toHost, a)
        BY <3>1 DEF WriteToHost
      <4>3. last \in 1 .. Len(toHost') /\ toHost'[last] = a
        BY <1>1, <4>1, <4>2
      <4> QED
        BY <1>1, <4>3, ElementOfSeq
    <3> QED
      BY <2>1, <3>1
  <2> QED
    BY <1>4, <2>1, <2>2, <2>3 DEF BoardStep, BoardActs, HostOpenNext
<1>5. CASE LineLoses
  <2>1. \E taken \in 0 .. Len(toBoard) :
          toBoard' = SubSeq(toBoard, taken + 1, Len(toBoard))
    <3>1. CASE toBoard' = toBoard
      BY <1>2, <3>1
    <3>2. CASE toBoard # <<>> /\ toBoard' = Tail(toBoard)
      <4>1. 1 \in 0 .. Len(toBoard) /\ Tail(toBoard) = SubSeq(toBoard, 1 + 1, Len(toBoard))
        BY <1>1, <3>2
      <4> QED
        BY <3>2, <4>1
    <3> QED
      BY <1>5, <3>1, <3>2 DEF LineLoses, LoseCommand, LoseAnswer
  <2>2. UNCHANGED toHost \/ (toHost # <<>> /\ toHost' = Tail(toHost))
    BY <1>5 DEF LineLoses, LoseCommand, LoseAnswer
  <2> QED
    BY <1>5, <2>1, <2>2
       DEF LineLoses, LoseCommand, LoseAnswer, BoardActs, HostOpenNext
<1>6. ~ClientRestarts
  BY DEF SysTypes, ClientRestarts
<1>7. CASE UNCHANGED sysVars
  BY <1>7 DEF sysVars
<1> QED
  BY <1>3, <1>4, <1>5, <1>6, <1>7 DEF SysNext, HostStep, BoardStep, LineLoses

\* The client beside this firmware is, from one start to the next, the client
\* beside a board that may answer anything at any time.
THEOREM SystemRefinesHost ==
    ASSUME AnyAnswer = Messages,
           \A m \in Messages : m.code \in Sendable => m \in AnyCommand
    PROVE  SysSpec => ImplementsHost
<1>1. SysInit => SysTypes /\ HostOpenInit
  BY SysTypesInit
<1>2. SysTypes /\ [SysNext]_sysVars =>
        SysTypes' /\ [restarts' = restarts => HostOpenNext]_<<hostVars, linkVars>>
  <2> SUFFICES ASSUME SysTypes, [SysNext]_sysVars
               PROVE  SysTypes' /\ [restarts' = restarts => HostOpenNext]_<<hostVars, linkVars>>
    OBVIOUS
  <2>1. SysTypes'
    BY SystemIsBoard
  <2> QED
    BY <2>1, SystemIsHost
<1> QED
  BY <1>1, <1>2, PTL DEF SysSpec, ImplementsHost
=============================================================================
