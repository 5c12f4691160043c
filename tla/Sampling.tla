------------------------------ MODULE Sampling ------------------------------
(***************************************************************************)
(* How the firmware reaches one point of the matrix: the column loop of    *)
(* scan and doSample (Application.cpp), the chain of MAX14661 switches     *)
(* that connects one drive line to A and all others to B (MAX14661.cpp),   *)
(* and the ADG732 that selects the scan line (ADG732.cpp).  An SPI         *)
(* transfer overwrites m_pData with what the chain shifts out, its former  *)
(* contents; the analog part loses power between scans.                    *)
(***************************************************************************)
EXTENDS Naturals

CONSTANTS
    CHIP,               \* lines of one MAX14661: 16
    CHAIN,              \* m_chainLength: 2
    SCAN_LINES,         \* m_channelCount of the ADG732: 32
    INT8_LIMIT,         \* a row of this number or more is a negative int8_t: 128
    Unknown,            \* the address of an ADG732 that has just got power
    Matrices            \* the configurations the board may be given

ASSUME SamplingAssumption ==
    /\ CHIP \in Nat \ {0} /\ CHAIN \in Nat \ {0}
    /\ SCAN_LINES \in Nat \ {0} /\ INT8_LIMIT \in Nat /\ SCAN_LINES =< INT8_LIMIT
    /\ Unknown \notin Nat
    /\ Matrices \subseteq [x : Nat, y : Nat, shiftX : Nat, shiftY : Nat]
    /\ \A m \in Matrices : m.y < 2 * INT8_LIMIT

MAX_CHNL   == CHIP * CHAIN              \* m_maxChnlNum / 2
DriveLines == 0 .. (MAX_CHNL - 1)

\* What the chain holds: the lines connected to A and those connected to B.
Contents == [a : SUBSET DriveLines, b : SUBSET DriveLines]
Zeros    == [a |-> {}, b |-> {}]

VARIABLES
    matrix,         \* m_scanSettings, as far as this module goes
    place,          \* where scan and doSample are
    col, row,       \* their loop variables
    pData,          \* m_pData, the buffer in memory
    chain,          \* what the chain of MAX14661 holds
    activeChnlA,    \* m_activeChnlA
    channel,        \* m_channel, the address the ADG732 was last given
    latch           \* the address it is at

driveVars    == <<pData, chain, activeChnlA>>
samplingVars == <<matrix, place, col, row, driveVars, channel, latch>>

Addresses == 0 .. (SCAN_LINES - 1)
Bytes     == 0 .. (2 * INT8_LIMIT - 1)

SamplingTypeOK ==
    /\ matrix \in Matrices
    /\ place \in {"off", "frame", "row", "convert"}
    /\ col \in Nat /\ row \in Nat
    /\ pData \in Contents /\ chain \in Contents
    /\ activeChnlA \in 0 .. MAX_CHNL
    /\ channel \in Bytes /\ latch \in Addresses \cup {Unknown}

\* Nothing initialises m_activeChnlA; what is not a line counts as MAX_CHNL.
\* m_channel is an uint8_t set to -1.
SamplingInit ==
    /\ matrix \in Matrices
    /\ place = "off"
    /\ col = 0 /\ row = 0
    /\ pData = Zeros /\ chain = Zeros
    /\ activeChnlA \in 0 .. MAX_CHNL
    /\ channel = 2 * INT8_LIMIT - 1 /\ latch = Unknown

-----------------------------------------------------------------------------
(* MAX14661.                                                               *)

\* setData: the chain takes the buffer, the buffer what the chain held.
setData(buffer) == chain' = buffer /\ pData' = chain

\* Mutant of setAllToB: the buffer is not prepared.
KeepAll == pData

setAllToB == [a |-> {}, b |-> DriveLines]

\* The lines on the chip of line c.
ChipOf(c) == {d \in DriveLines : d \div CHIP = c \div CHIP}

\* switchChnlA rewrites the data of one chip in the buffer.
Selected(buffer, c) ==
    [a |-> (buffer.a \ ChipOf(c)) \cup {c},
     b |-> (buffer.b \ ChipOf(c)) \cup (ChipOf(c) \ {c})]

\* A channel that the chain does not have is refused and nothing is sent.
switchChnlA(buffer, c) ==
    \/ /\ c >= MAX_CHNL
       /\ pData' = buffer /\ UNCHANGED <<chain, activeChnlA>>
    \/ /\ c < MAX_CHNL
       /\ activeChnlA' = c
       /\ setData(Selected(buffer, c))

\* Mutant of nextChnlA: the last channel is left out.
nextChnlEarly(buffer) ==
    switchChnlA(buffer, IF activeChnlA + 2 >= MAX_CHNL THEN 0 ELSE activeChnlA + 1)

nextChnlA(buffer) ==
    switchChnlA(buffer, IF activeChnlA + 1 >= MAX_CHNL THEN 0 ELSE activeChnlA + 1)

-----------------------------------------------------------------------------
(* The scan.                                                               *)

\* The analog part gets power: the chain is set to zeros; the ADG732 may be at
\* any address, whatever m_channel says.
StartScan ==
    /\ place = "off"
    /\ matrix' \in Matrices /\ matrix'.x * matrix'.y # 0
    /\ latch' = Unknown
    /\ setData(Zeros)
    /\ place' = "frame"
    /\ UNCHANGED <<col, row, activeChnlA, channel>>

\* A command between two frames may have changed the configuration.
FirstColumn ==
    /\ place = "frame"
    /\ matrix' \in Matrices
    /\ switchChnlA(setAllToB, matrix'.shiftX)
    /\ col' = 0 /\ row' = matrix'.shiftY
    /\ place' = IF matrix'.x = 0 THEN "frame" ELSE "row"
    /\ UNCHANGED <<channel, latch>>

\* Mux::channel writes the address of row r unless it was given last; it refuses
\* one that it has not, but for the rows that are negative as an int8_t.
Addressed(r) == \/ r < SCAN_LINES /\ r # channel
                \/ r >= INT8_LIMIT

SelectRow ==
    /\ place = "row" /\ row < matrix.y
    /\ \/ Addressed(row) /\ channel' = row /\ latch' = row % SCAN_LINES
       \/ ~Addressed(row) /\ UNCHANGED <<channel, latch>>
    /\ place' = "convert"
    /\ UNCHANGED <<matrix, col, row, driveVars>>

\* The ADC takes the value at the point.
Convert ==
    /\ place = "convert"
    /\ row' = row + 1
    /\ place' = "row"
    /\ UNCHANGED <<matrix, col, driveVars, channel, latch>>

NextColumn ==
    /\ place = "row" /\ row >= matrix.y
    /\ nextChnlA(setAllToB)
    /\ col' = col + 1 /\ row' = matrix.shiftY
    /\ place' = IF col + 1 < matrix.x THEN "row" ELSE "frame"
    /\ UNCHANGED <<matrix, channel, latch>>

\* The scan was stopped or has all its frames: the power goes.
EndScan ==
    /\ place = "frame"
    /\ place' = "off"
    /\ UNCHANGED <<matrix, col, row, driveVars, channel, latch>>

SamplingNext ==
    StartScan \/ FirstColumn \/ SelectRow \/ Convert \/ NextColumn \/ EndScan

SamplingSpec == SamplingInit /\ [][SamplingNext]_samplingVars

-----------------------------------------------------------------------------
(* Properties.                                                             *)

\* While a value is taken, one drive line at most is on A and every other on B,
\* whatever the size and the shift of the matrix.
OneLineDriven ==
    place = "convert" =>
        \/ \E c \in DriveLines : chain = [a |-> {c}, b |-> DriveLines \ {c}]
        \/ chain = Zeros

\* A value that the matrix has is taken at its point: the drive line of its
\* column is on A and the scan line of its row is selected, wherever the shift
\* puts the chips' border, as far as there are lines.  One row alone may have
\* been left out since power came: the row that m_channel still names.
RightPoint ==
    place = "convert" /\ matrix.shiftX + col < MAX_CHNL /\ row < SCAN_LINES =>
        /\ chain.a = {matrix.shiftX + col}
        /\ latch \in {row, Unknown}
=============================================================================
