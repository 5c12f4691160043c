---------------------------- MODULE BoardReceiver ----------------------------
(***************************************************************************)
(* The bytes behind the board's commands: getCommand of the firmware's     *)
(* Application.cpp.  m_pRxBuffer always holds the last m_rxIndex bytes     *)
(* read from the serial port.                                              *)
(***************************************************************************)
EXTENDS ByteStream

CONSTANTS
    CommandStreams,     \* the streams that the board may read
    SERIAL_BUFFER,      \* bytes that Serial.available() reports at most
    RX_COMMAND_SIZE     \* size of m_pRxBuffer

\* Bytes before the longest command is looked at, and before WRITE_FLTR_CONF is:
\* one less than it has, so its checksum may be computed over a byte left from
\* an earlier command.
LONGEST_NEEDS   == 25
FLTR_CONF_NEEDS == 22

IsCommandStream(s) == IsStream(s) /\ \A m \in s.messages : m.needs =< LONGEST_NEEDS

ASSUME ReceiverAssumption ==
    /\ \A s \in CommandStreams : IsCommandStream(s)
    /\ SERIAL_BUFFER \in Nat \ {0}
    /\ RX_COMMAND_SIZE \in Nat
    /\ RX_COMMAND_SIZE >= LONGEST_NEEDS + SERIAL_BUFFER

VARIABLES
    commands,       \* the stream of this behaviour
    read,           \* bytes read from the serial port so far
    rxIndex,        \* m_rxIndex
    returned        \* the commands returned, as spans of bytes

receiverVars == <<commands, read, rxIndex, returned>>

ReceiverInit ==
    /\ commands \in CommandStreams
    /\ read = 0 /\ rxIndex = 0
    /\ returned = <<>>

\* The header at the beginning of m_pRxBuffer, once nine bytes are in it.
Recognised ==
    IF read' < read - rxIndex + HEADER THEN {} ELSE HeaderAt(commands, read - rxIndex)

\* Mutant of Enough: the header is taken for the command.
EnoughHeader(m) == m.at + HEADER =< read'

\* Bytes in m_pRxBuffer after the read, for the command at its beginning.
Enough(m) == m.at + m.needs =< read'

\* Mutant of Fails: what was not recognised stays in the buffer.
FailsKeeping ==
    /\ Recognised = {}
    /\ rxIndex' = rxIndex + (read' - read)
    /\ UNCHANGED returned

\* Too few bytes or no preamble: the call fails and the buffer is emptied.
Fails ==
    /\ Recognised = {}
    /\ rxIndex' = 0
    /\ UNCHANGED returned

\* Mutant of Takes: the bytes behind the command are kept.
TakesOnly ==
    \E m \in Recognised :
        /\ m.known /\ Enough(m)
        /\ returned' = Append(returned, Span(m))
        /\ rxIndex' = read' - (m.at + m.needs)

\* A command is returned; whatever was read with it is dropped.
Takes ==
    \E m \in Recognised :
        /\ m.known /\ Enough(m)
        /\ returned' = Append(returned, Span(m))
        /\ rxIndex' = 0

\* The checksum of WRITE_FLTR_CONF does not match the byte that is not there yet.
FailsChecksum ==
    /\ \E m \in Recognised : m.needs = FLTR_CONF_NEEDS /\ read' = m.at + FLTR_CONF_NEEDS
    /\ rxIndex' = 0
    /\ UNCHANGED returned

\* No branch of the chain applies: the call succeeds with an empty command.
Waits ==
    /\ \E m \in Recognised : ~m.known \/ ~Enough(m)
    /\ rxIndex' = rxIndex + (read' - read)
    /\ UNCHANGED returned

\* getCommand when bytes are available; it reads all of them.
GetCommand ==
    /\ \E n \in 1 .. SERIAL_BUFFER :
         read + n =< commands.total /\ read' = read + n
    /\ Fails \/ Takes \/ FailsChecksum \/ Waits
    /\ UNCHANGED commands

\* getCommand when none are: that, too, is a failure that empties the buffer.
NothingAvailable ==
    /\ rxIndex' = 0
    /\ UNCHANGED <<commands, read, returned>>

ReceiverNext == GetCommand \/ NothingAvailable

ReceiverSpec == ReceiverInit /\ [][ReceiverNext]_receiverVars

-----------------------------------------------------------------------------
(* Properties.                                                             *)

\* What waits in the buffer is the beginning of a command that has not all its
\* bytes yet or that the board does not know.
Waiting ==
    \E m \in HeaderAt(commands, read - rxIndex) :
        rxIndex >= HEADER /\ (m.known => rxIndex < m.needs)

ReceiverInv ==
    /\ IsCommandStream(commands)
    /\ read \in Nat /\ rxIndex \in Nat
    /\ rxIndex =< read /\ read =< commands.total
    /\ returned \in Seq(Announced(commands))
    /\ returned # <<>> => returned[Len(returned)].upto + rxIndex =< read
    /\ rxIndex > 0 => Waiting

\* As long as only commands arrive that the board knows, the next read fits
\* m_pRxBuffer, which nothing in the code tests.
RxFits == AllKnown(commands) => rxIndex + SERIAL_BUFFER =< RX_COMMAND_SIZE

ReceiverChannel == INSTANCE WholeMessages
             WITH announced <- Announced(commands), arrived <- read, handed <- returned

\* However the reads cut the stream, the board takes commands in order, each
\* once and with all the bytes it looks at.
ReceiverHandsOverWhole == ReceiverChannel!Spec

\* The bytes that the whole command has on the line.
Length(m) == IF m.needs = FLTR_CONF_NEEDS THEN m.needs + 1 ELSE m.needs

\* A command that one call reads from its first byte to its last is returned by
\* that call, whatever was read before it, if all commands are whole and known.
OneReadSuffices ==
    [][\A m \in commands.messages :
         /\ AllKnown(commands) /\ \A c \in commands.messages : ~IsCut(commands, c)
         /\ read = m.at /\ m.at + Length(m) =< read'
         => returned' = Append(returned, Span(m))]_receiverVars
=============================================================================
