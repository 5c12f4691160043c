------------------------------- MODULE MCBoard -------------------------------
(* The board against any client: constants for TLC.                        *)
EXTENDS BoardFirmware

Matrix(x, y, n, f) == [x |-> x, y |-> y, samples |-> n, filter |-> f]

MCStored == {NoConfig, Matrix(2, 1, 1, 0), Matrix(1, 1, 0, 1)}

\* Every command, READ_CONFIG for both reads; the configuration written has a zero
\* to be replaced and a filter that the board does not have.
MCCommands ==
    {Plain(c) : c \in {COMM_ID_STOP, COMM_ID_START_NO_PARAMS, COMM_ID_READ_CONFIG,
                       COMM_ID_WRITE_FLTR_CONF, COMM_ID_READ_FLTR_CONF}}
      \cup {Carrying(COMM_ID_START, Matrix(0, 0, n, 0)) : n \in {0, 2}}
      \cup {Carrying(COMM_ID_WRITE_CONFIG, Matrix(1, 0, 1, 6))}

\* What a client sends that only scans, next to the external trigger.
MCScanCommands == {Plain(COMM_ID_STOP), Plain(COMM_ID_START_NO_PARAMS),
                   Carrying(COMM_ID_START, Matrix(0, 0, 2, 0))}

\* A matrix for every window filter and the cumulative one.
MCFilterStored ==
    {Matrix(1, 1, 1, f) : f \in {FILTER_MOV_AVERAGE, FILTER_MOV_AVERAGE_WEIGHTED,
                                 FILTER_MOV_AVERAGE_CUMULATIVE, FILTER_MEDIAN}}
=============================================================================
