---------------------------- MODULE DevkitSystem ----------------------------
(***************************************************************************)
(* The development kit as it runs: the client's main loop and the          *)
(* firmware at the two ends of the serial line.  The line may lose         *)
(* messages, and the client may be killed and started again while the      *)
(* board goes on.                                                          *)
(***************************************************************************)
EXTENDS HostCommands, BoardFirmware

CONSTANTS
    MaxRestarts,      \* bound: restarts of the client
    BeyondMishaps     \* bound: whether a behaviour goes on after a mishap

ASSUME SystemAssumption == MaxRestarts \in Nat /\ BeyondMishaps \in BOOLEAN

VARIABLES
    restarts,     \* restarts of the client so far
    mishap        \* history: something happened that the protocol has no remedy for

sysVars == <<hostVars, boardVars, linkVars, restarts, mishap>>

-----------------------------------------------------------------------------
(* Mishaps: what client and board do not recover from.  The program has    *)
(* nothing that prevents them; what it promises ends with the first.       *)

\* The command or its answer is still on the line.
Coming(c) ==
    \/ \E i \in DOMAIN toBoard : toBoard[i].code = c
    \/ \E i \in DOMAIN toHost : toHost[i].code = c

\* The commands of which two must not be under way: a second start stops the scan
\* of the first, and by the answer to the version a restarted client knows that
\* the board is done with the commands of the client before it.
Unrepeatable == {COMM_ID_START_NO_PARAMS, COMM_ID_READ_FIRMWARE_VERSION}

\* A counter counts iterations of the main loop, not time, and is not reset by
\* an answer: it may run out while the command or its answer is under way.
Premature(expired) == \E c \in expired \cap Unrepeatable : Coming(c)

\* The answers that nothing makes the board give again.
Unrepeated(m) == m.code \in {COMM_ID_START_NO_PARAMS, COMM_ID_STOP}

\* What the board then does is not what it answers: the trigger pin starts and
\* ends scans, a start with an empty configuration is answered without a scan, and
\* a scan ends for want of a window without an answer.
Unannounced ==
    \/ pinLow
    \/ Points(settings) = 0
    \/ stack # <<>> /\ Refuses

\* event: whether this step is one.
Remember(event) ==
    /\ mishap' = (mishap \/ event)
    /\ mishap' => BeyondMishaps

SysInit ==
    /\ HostInit /\ BoardInit /\ LinkInit
    /\ restarts = 0 /\ mishap = Unannounced

-----------------------------------------------------------------------------
(* Steps.                                                                  *)

Iterate ==
    \E expired \in Expired :
        /\ IterateSilent(expired) \/ IterateAnswer(expired)
        /\ Remember(Premature(expired))

MainLoop == Iterate \/ (HostStart /\ UNCHANGED mishap)

HostStep ==
    /\ MainLoop \/ (TakeFrame /\ UNCHANGED mishap)
    /\ UNCHANGED <<boardVars, restarts>>

BoardStep == BoardNext /\ Remember(Unannounced') /\ UNCHANGED <<hostVars, restarts>>

\* The client is killed and started again.  What is on the line stays there,
\* or the answers are flushed when the port is closed.
ClientRestarts ==
    /\ restarts < MaxRestarts
    /\ restarts' = restarts + 1
    /\ appState' = "INIT_SERVER" /\ baudState' = "NOT_SWITCH_BAUD"
    /\ scanState' = "UNDEFINED"
    /\ cmd' = [c \in Codes |-> "NONE"]
    /\ boardSettings' = NoConfig /\ scanSettings' = NoConfig
    /\ json' = NoJson /\ frameBuffer' = <<>>
    /\ toHost' \in {toHost, <<>>}
    /\ Remember(restarts > 0)
    /\ UNCHANGED <<boardVars, toBoard, losses>>

LineLoses ==
    /\ \/ LoseCommand /\ UNCHANGED mishap
       \/ LoseAnswer /\ Remember(Unrepeated(Head(toHost)))
    /\ UNCHANGED <<hostVars, boardVars, restarts>>

SysNext == HostStep \/ BoardStep \/ ClientRestarts \/ LineLoses

SysSpec == SysInit /\ [][SysNext]_sysVars

\* Both programs are endless loops that the operating system and the
\* processor keep running, and the flash storage finishes its writes.  A board
\* that scans looks at its serial port again and again, so a command that stays on
\* the line is read one day.
SysFairSpec ==
    /\ SysSpec
    /\ WF_sysVars(MainLoop /\ UNCHANGED <<boardVars, restarts>>)
    /\ WF_sysVars(ScanStep /\ Remember(Unannounced') /\ UNCHANGED <<hostVars, restarts>>)
    /\ WF_sysVars(FlashDone /\ Remember(Unannounced') /\ UNCHANGED <<hostVars, restarts>>)
    /\ SF_sysVars(ReceiveCommand /\ Remember(Unannounced') /\ UNCHANGED <<hostVars, restarts>>)

-----------------------------------------------------------------------------
(* Properties.                                                             *)

\* The exchange is over: the client works and wants nothing more, and apart
\* from frames the line is empty.
Quiet ==
    /\ appState = "WORK"
    /\ \A c \in Codes \ {COMM_ID_FRAME} : cmd[c] = "NONE"
    /\ toBoard = <<>>
    /\ \A i \in DOMAIN toHost : toHost[i].code = COMM_ID_FRAME

\* After every exchange the client believes what is true: it shows a scan in
\* progress exactly when the board is scanning.  A start repeated too early breaks
\* it.
AgreeWhenQuiet == Quiet => (scanState = "SCANNING" <=> stack # <<>>)

\* It is true up to the first mishap, over a line that loses any command and
\* every other answer, with every other counter running out at any moment, and
\* with the client killed once.
AgreeUnlessMishap == ~mishap => AgreeWhenQuiet

\* The frames of the scan in progress have the size that the client expects, up
\* to the first mishap, and it keeps them exactly if the board's transmit buffer
\* holds a whole one; frameParser silently drops every one of them otherwise.
FramesExpected ==
    ~mishap /\ Quiet /\ stack # <<>> =>
        /\ Points(Top.conf) = Points(scanSettings)
        /\ Expected(FrameOf(Top.conf)) <=> Points(Top.conf) =< TX_POINTS

\* Between restarts the client's part of the system is the client of HostSpec.
ImplementsHost ==
    HostOpenInit /\ [][restarts' = restarts => HostOpenNext]_<<hostVars, linkVars>>

\* The client never quietly settles in a state without a scan, unless after a
\* mishap; a scan that the board hangs in counts as one.
KeepsScanning == []<>(stack # <<>> \/ mishap)

\* "Board settings and JSON settings mismatch. Stop scan": the scan that does
\* not fit the conversion file is over before the board is reconfigured.
MismatchStopsScan ==
    stack # <<>> =>
        \A i \in DOMAIN toBoard : toBoard[i].code # COMM_ID_WRITE_CONFIG
-----------------------------------------------------------------------------
(* The inductive invariant of the safety proofs.                           *)

\* A message with the code c is in the queue; not more than one is.
In(q, c)   == \E i \in DOMAIN q : q[i].code = c
Once(q, c) == \A i, j \in DOMAIN q : q[i].code = c /\ q[j].code = c => i = j

\* A command that is on the line, or whose answer is, is there once.
Alone(c) == Once(toBoard, c) /\ Once(toHost, c) /\ ~(In(toBoard, c) /\ In(toHost, c))

Awaited(c) == Coming(c) => cmd[c] = "WAIT"

\* The start is one of the client that was killed: the new one has not got an
\* answer yet, and the start is ahead of whatever it has sent.
Outdated ==
    /\ appState # "WORK" /\ cmd[COMM_ID_READ_FIRMWARE_VERSION] # "SUCCES"
    /\ In(toBoard, COMM_ID_START_NO_PARAMS) => ~In(toHost, COMM_ID_READ_FIRMWARE_VERSION)
    /\ \A q \in {toBoard, toHost} : \A i, j \in DOMAIN q :
         q[i].code = COMM_ID_START_NO_PARAMS /\ q[j].code = COMM_ID_READ_FIRMWARE_VERSION
            => i < j

\* There is never a second start on the line, which would stop the first.
StartsMatched ==
    /\ Alone(COMM_ID_START_NO_PARAMS)
    /\ Awaited(COMM_ID_START_NO_PARAMS) \/ Outdated
    /\ restarts = 0 => /\ Awaited(COMM_ID_START_NO_PARAMS)
                       /\ Alone(COMM_ID_READ_FIRMWARE_VERSION)
                       /\ Awaited(COMM_ID_READ_FIRMWARE_VERSION)
    /\ appState \notin {"GET_BAUD", "WORK"} => cmd[COMM_ID_READ_FIRMWARE_VERSION] # "WAIT"

\* The client has something to do that ends in a start or a stop.
Busy(t) ==
    \/ \E c \in {COMM_ID_STOP, COMM_ID_WRITE_CONFIG, COMM_ID_READ_CONFIG,
                 COMM_ID_READ_FIRMWARE_VERSION} : t[c] # "NONE"
    \/ t[COMM_ID_START_NO_PARAMS] \in {"REQUEST", "WAIT", "FAIL"}

\* A client that shows no scan is about to start one, after a stop if it does not
\* know what the board does.
StartsAgain ==
    /\ appState = "WORK" /\ scanState # "SCANNING" => Busy(cmd)
    /\ appState = "WORK" /\ scanState = "UNDEFINED" =>
         cmd[COMM_ID_STOP] \in {"REQUEST", "WAIT", "FAIL"}

\* No answer on the line contradicts a start answer; nor is there any.
LastStart(i) ==
    /\ toHost[i].code = COMM_ID_START_NO_PARAMS
    /\ \A j \in DOMAIN toHost : toHost[j].code = COMM_ID_STOP => j < i

NoVerdict == ~In(toHost, COMM_ID_START_NO_PARAMS) /\ ~In(toHost, COMM_ID_STOP)

\* What the client will believe when it has read the answers on the line is true.
AnswersTell ==
    /\ \A i \in DOMAIN toHost : LastStart(i) =>
         scanning /\ Points(toHost[i].conf) = Points(Top.conf)
    /\ scanning => \/ \E i \in DOMAIN toHost : LastStart(i)
                   \/ NoVerdict /\ scanState \in {"SCANNING", "UNDEFINED"}
    /\ NoVerdict /\ scanState = "SCANNING" =>
         scanning /\ (Points(scanSettings) = Points(Top.conf) \/ Busy(cmd))
    /\ In(toBoard, COMM_ID_START_NO_PARAMS) => ~scanning

\* Scans do not nest and end with an answer.
ScansAnswered ==
    /\ ~pinLow /\ ~triggerFlag /\ ~doStop
    /\ Len(stack) =< 1
    /\ stack # <<>> => Top.result /\ Top.starter = COMM_ID_STOP /\ ~Refuses
    /\ Points(settings) # 0
    /\ \A i \in DOMAIN toBoard : toBoard[i].code \in Sendable

SysInv ==
    /\ HostTypeOK /\ TableOK(cmd) /\ BoardInv
    /\ restarts \in 0 .. 1
    /\ StartsMatched /\ StartsAgain /\ AnswersTell /\ ScansAnswered

\* The invariant holds up to the first mishap.
SysInvUnlessMishap == mishap \/ SysInv
=============================================================================
