------------------------------ MODULE MCSystem ------------------------------
(* The client and the board together: constants for TLC.                   *)
EXTENDS DevkitSystem

Matrix(x, y, n) == [x |-> x, y |-> y, samples |-> n, filter |-> FILTER_NONE]

\* A scan without end and a scan of one frame.
MCStored == {Matrix(1, 1, 0), Matrix(2, 1, 1)}

\* The second alone.
MCStoredFrame == {Matrix(2, 1, 1)}

\* A conversion file that fits both matrices.
MCSmallJson == {[x |-> 1, y |-> 1]}

\* A conversion file that is larger than both.
MCLargeJson == {[x |-> 2, y |-> 2]}

\* What the board sends, for the refinement of HostSpec.
MCAnswers ==
    {Plain(c) : c \in {COMM_ID_STOP, COMM_ID_READ_FIRMWARE_VERSION, COMM_ID_WRITE_CONFIG}}
      \cup {FrameOf(conf) : conf \in Configs}
      \cup {Carrying(COMM_ID_READ_CONFIG, conf) : conf \in Configs}
      \cup {StartAnswer(COMM_ID_START_NO_PARAMS, conf, status) :
              conf \in Configs, status \in {"SESSION_STARTED", "SESSION_STOPED"}}

\* What the client sends, for the refinement of BoardSpec: a configuration is
\* one that the conversion file asks for.
MCCommands ==
    {Plain(c) : c \in Sendable \ {COMM_ID_WRITE_CONFIG}}
      \cup {Carrying(COMM_ID_WRITE_CONFIG, conf) :
              conf \in {c \in Configs : c.x = 2 /\ c.y = 2}}
=============================================================================
