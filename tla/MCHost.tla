------------------------------- MODULE MCHost -------------------------------
(* The client against any board: constants for TLC.                        *)
EXTENDS HostCommands

Narrow == [x |-> 1, y |-> 2, samples |-> 0, filter |-> 0]

\* One matrix that fits Narrow and one that does not.
MCJson == {[x |-> 1, y |-> 2], [x |-> 2, y |-> 1]}

\* An empty flash makes the board report NoConfig.
MCAnswers ==
    {Plain(c) : c \in {COMM_ID_STOP, COMM_ID_WRITE_CONFIG,
                       COMM_ID_READ_CONFIG, COMM_ID_READ_FIRMWARE_VERSION,
                       COMM_ID_START_NO_PARAMS}}
      \cup {Carrying(c, Narrow) : c \in {COMM_ID_FRAME, COMM_ID_START_NO_PARAMS}}
      \cup {Plain(COMM_ID_START_CAN)}
=============================================================================
