----------------------------- MODULE SerialLink -----------------------------
(***************************************************************************)
(* The USB serial line between the console client and the board: one       *)
(* queue of whole messages per direction.  Bytes are abstracted away: a    *)
(* message that the receiver does not get as a well-formed whole (cut by a *)
(* partial read, resynchronised over, refused by the port) is a lost one.  *)
(***************************************************************************)
EXTENDS Naturals, Sequences

CONSTANTS
    Dims,           \* matrix dimensions that occur, 0 among them
    SampleNumbers,  \* values of m_samplesNumber, 0 = scan without end
    FilterTypes,    \* values of m_filterType, 0 = FILTER_NONE
    MaxLink,        \* bound: messages queued in one direction
    MaxLosses       \* bound: messages lost in a behaviour

ASSUME LinkAssumption ==
    /\ Dims \subseteq Nat /\ 0 \in Dims
    /\ SampleNumbers \subseteq Nat /\ 0 \in SampleNumbers
    /\ FilterTypes \subseteq Nat /\ 0 \in FilterTypes
    /\ MaxLink \in Nat \ {0}
    /\ MaxLosses \in Nat

VARIABLES
    toBoard,        \* commands written by the client, not yet read
    toHost,         \* answers written by the board, not yet parsed
    losses          \* messages lost so far

linkVars == <<toBoard, toHost, losses>>

\* The command codes; their order is the order in which the client serves them.
COMM_ID_START                 == 1
COMM_ID_STOP                  == 2
COMM_ID_START_CAN             == 3
COMM_ID_FRAME                 == 4
COMM_ID_STOP_CAN              == 5
COMM_ID_WRITE_CONFIG          == 8
COMM_ID_READ_CONFIG           == 9
COMM_ID_READ_FIRMWARE_VERSION == 10
COMM_ID_START_NO_PARAMS       == 11
COMM_ID_WRITE_FLTR_CONF       == 18
COMM_ID_READ_FLTR_CONF        == 19

\* The codes that the board knows.  The client's table has further entries,
\* which no code path requests and the board never answers.
Codes == {COMM_ID_START, COMM_ID_STOP, COMM_ID_START_CAN, COMM_ID_FRAME,
          COMM_ID_STOP_CAN, COMM_ID_WRITE_CONFIG, COMM_ID_READ_CONFIG,
          COMM_ID_READ_FIRMWARE_VERSION, COMM_ID_START_NO_PARAMS,
          COMM_ID_WRITE_FLTR_CONF, COMM_ID_READ_FLTR_CONF}

FILTER_NONE == 0

\* A scan configuration, as WRITE_CONFIG carries it and the answers report it.
Configs == [x : Dims, y : Dims, samples : SampleNumbers, filter : FilterTypes]

NoConfig == [x |-> 0, y |-> 0, samples |-> 0, filter |-> FILTER_NONE]

\* Pixels of a frame of this configuration.
Points(c) == c.x * c.y

\* SESSION_STARTED / SESSION_STOPED, the last byte of a start answer; a frame may
\* be TRUNCATED.
Status == {"NONE", "SESSION_STARTED", "SESSION_STOPED", "TRUNCATED"}

Messages == [code : Codes, conf : Configs, status : Status]

Plain(code) == [code |-> code, conf |-> NoConfig, status |-> "NONE"]

Carrying(code, conf) == [code |-> code, conf |-> conf, status |-> "NONE"]

LinkTypeOK ==
    /\ toBoard \in Seq(Messages)
    /\ toHost \in Seq(Messages)
    /\ losses \in Nat

LinkInit == toBoard = <<>> /\ toHost = <<>> /\ losses = 0

\* One more message is lost; the bound keeps behaviours finite.
CountLoss == losses < MaxLosses /\ losses' = losses + 1

\* A whole message is written to the line.
WriteToBoard(m) == Len(toBoard) < MaxLink /\ toBoard' = Append(toBoard, m)

WriteToHost(m) == Len(toHost) < MaxLink /\ toHost' = Append(toHost, m)

\* A command or an answer that the receiver never gets as a whole.
LoseCommand ==
    /\ toBoard # <<>> /\ CountLoss
    /\ toBoard' = Tail(toBoard)
    /\ UNCHANGED toHost

LoseAnswer ==
    /\ toHost # <<>> /\ CountLoss
    /\ toHost' = Tail(toHost)
    /\ UNCHANGED toBoard
=============================================================================
