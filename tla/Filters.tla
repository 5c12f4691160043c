------------------------------- MODULE Filters -------------------------------
(***************************************************************************)
(* The firmware's filters over a window of frames, and how scan uses them: *)
(* movAverage.cpp, movAverageWeighted.cpp and median.cpp.  Points do not   *)
(* influence each other, so one point of the matrix is modelled.  The      *)
(* buffers of the two averages are not initialised.                        *)
(***************************************************************************)
EXTENDS Naturals, Sequences, FiniteSets

CONSTANTS
    Values,         \* what the ADC may measure, and what memory may hold
    WindowSizes     \* the sizes of the window

ASSUME FiltersAssumption ==
    /\ Values \subseteq Nat /\ 0 \in Values
    /\ WindowSizes \subseteq Nat \ {0}

VARIABLES
    filter,         \* the filter of this scan
    windowSize,     \* m_windowSize, and m_filterWindowSize of scan
    cells,          \* m_pData of this point
    bufferCounter,  \* m_bufferCounter
    scanCounter,    \* l_scanCounter
    sent,           \* the value in the frame that was sent last, if any
    recent,         \* the last windowSize values measured, the newest at the end
    measured        \* every value measured in this scan

filterVars == <<filter, windowSize, cells, bufferCounter, scanCounter, sent, recent, measured>>

Ascending(s) == \A i, j \in 1 .. Len(s) : i < j => s[i] =< s[j]

FiltersTypeOK ==
    /\ filter \in {"MOV_AVERAGE", "MOV_AVERAGE_WEIGHTED", "MEDIAN"}
    /\ windowSize \in WindowSizes
    /\ cells \in [1 .. windowSize -> Values]
    /\ filter = "MEDIAN" => Ascending(cells)
    /\ bufferCounter \in 0 .. (windowSize - 1)
    /\ scanCounter \in 0 .. windowSize
    /\ sent \subseteq Nat
    /\ recent \in Seq(Values) /\ Len(recent) =< windowSize
    /\ measured \subseteq Values

FiltersInit ==
    /\ filter \in {"MOV_AVERAGE", "MOV_AVERAGE_WEIGHTED", "MEDIAN"}
    /\ windowSize \in WindowSizes
    /\ IF filter = "MEDIAN" THEN cells = [i \in 1 .. windowSize |-> 0]
                            ELSE cells \in [1 .. windowSize -> Values]
    /\ bufferCounter = 0 /\ scanCounter = 0
    /\ sent = {} /\ recent = <<>> /\ measured = {}

-----------------------------------------------------------------------------
(* insertData.                                                             *)

\* Mutant of InsertAverage: the last cell of the window is not used.
InsertShort(v) ==
    /\ filter = "MOV_AVERAGE"
    /\ cells' = [cells EXCEPT ![bufferCounter + 1] = v]
    /\ bufferCounter' = IF bufferCounter + 2 >= windowSize THEN 0 ELSE bufferCounter + 1

InsertAverage(v) ==
    /\ filter = "MOV_AVERAGE"
    /\ cells' = [cells EXCEPT ![bufferCounter + 1] = v]
    /\ bufferCounter' = IF bufferCounter + 1 >= windowSize THEN 0 ELSE bufferCounter + 1

InsertWeighted(v) ==
    /\ filter = "MOV_AVERAGE_WEIGHTED"
    /\ cells' = <<v>> \o SubSeq(cells, 1, windowSize - 1)
    /\ UNCHANGED bufferCounter

\* The cell that getData returns for a median.
Middle == windowSize \div 2 + 1

\* std::sort: the value at i is the one that fewer than i are smaller than and at
\* least i do not exceed.
Smaller(s, v)   == {j \in 1 .. Len(s) : s[j] < v}
NotLarger(s, v) == {j \in 1 .. Len(s) : s[j] =< v}

Sorted(s) ==
    [i \in 1 .. Len(s) |->
        CHOOSE v \in {s[j] : j \in 1 .. Len(s)} :
            Cardinality(Smaller(s, v)) < i /\ i =< Cardinality(NotLarger(s, v))]

\* Mutant of InsertMedian: the smallest and the largest are mixed up.
InsertMixed(v) ==
    /\ filter = "MEDIAN"
    /\ \/ v < cells[Middle] /\ cells' = Sorted([cells EXCEPT ![1] = v])
       \/ v > cells[Middle] /\ cells' = Sorted([cells EXCEPT ![windowSize] = v])
       \/ v = cells[Middle] /\ UNCHANGED cells
    /\ UNCHANGED bufferCounter

\* Mutant of InsertMedian: the window is not sorted again.
InsertUnsorted(v) ==
    /\ filter = "MEDIAN"
    /\ \/ v < cells[Middle] /\ cells' = [cells EXCEPT ![windowSize] = v]
       \/ v > cells[Middle] /\ cells' = [cells EXCEPT ![1] = v]
       \/ v = cells[Middle] /\ UNCHANGED cells
    /\ UNCHANGED bufferCounter

\* A value below the middle takes the place of the largest, one above it that of
\* the smallest, whenever these came; one that equals it is dropped.
InsertMedian(v) ==
    /\ filter = "MEDIAN"
    /\ \/ v < cells[Middle] /\ cells' = Sorted([cells EXCEPT ![windowSize] = v])
       \/ v > cells[Middle] /\ cells' = Sorted([cells EXCEPT ![1] = v])
       \/ v = cells[Middle] /\ UNCHANGED cells
    /\ UNCHANGED bufferCounter

-----------------------------------------------------------------------------
(* getData.                                                                *)

Total(s) ==
    LET sum[i \in 0 .. Len(s)] == IF i = 0 THEN 0 ELSE sum[i - 1] + s[i]
    IN  sum[Len(s)]

\* The quotient n / d, rounded; a half may go either way, as the weights are
\* floats.
Rounded(n, d) == {r \in 0 .. n : 2 * r * d =< 2 * n + d /\ 2 * n - d =< 2 * r * d}

\* m_indexSumm
IndexSum == (windowSize * (windowSize + 1)) \div 2

\* The values that getData may return for the cells.
Filtered(s) ==
    CASE filter = "MOV_AVERAGE" -> {Total(s) \div windowSize}
      [] filter = "MOV_AVERAGE_WEIGHTED" ->
           Rounded(Total([i \in 1 .. windowSize |-> s[i] * (windowSize + 1 - i)]), IndexSum)
      [] filter = "MEDIAN" -> {s[Middle]}

-----------------------------------------------------------------------------
(* scan.                                                                   *)

\* Frames are sent once the window has been filled, and one more.
Filled == scanCounter >= windowSize

\* The window of the values measured, after one more.
Slide(v) == LET longer == Append(recent, v)
            IN  IF Len(longer) > windowSize THEN Tail(longer) ELSE longer

Frame(v) ==
    /\ InsertAverage(v) \/ InsertWeighted(v) \/ InsertMedian(v)
    /\ \/ Filled /\ (\E r \in Filtered(cells') : sent' = {r}) /\ UNCHANGED scanCounter
       \/ ~Filled /\ scanCounter' = scanCounter + 1 /\ UNCHANGED sent
    /\ recent' = Slide(v) /\ measured' = measured \cup {v}
    /\ UNCHANGED <<filter, windowSize>>

FiltersNext == \E v \in Values : Frame(v)

FiltersSpec == FiltersInit /\ [][FiltersNext]_filterVars

-----------------------------------------------------------------------------
(* Properties.                                                             *)

\* What the averages send is the average of the last windowSize measurements, in
\* the weighted one the newest counts most; nothing of what memory held before
\* the scan is left in it.
SentIsAverage ==
    \A r \in sent :
        /\ filter = "MOV_AVERAGE" => r = Total(recent) \div windowSize
        /\ filter = "MOV_AVERAGE_WEIGHTED" =>
             r \in Rounded(Total([i \in 1 .. windowSize |-> i * recent[i]]), IndexSum)

\* A point that measures the same for a whole window is sent with this value,
\* whatever it measured before; for the median, whose window keeps no order of
\* time, that is not evident.
SteadyIsSent ==
    \A r \in sent : (\A i \in 1 .. Len(recent) : recent[i] = recent[1]) => r = recent[1]

\* The median sends values that it was given, and never the zeros with which its
\* window begins.
MedianWasMeasured == filter = "MEDIAN" => sent \subseteq measured

-----------------------------------------------------------------------------
(* The inductive invariant of the safety proofs.                           *)

\* Frames are sent from the moment on at which all of the window was measured
\* in this scan, and what was sent was computed from the cells there are.
SentFromWindow ==
    /\ Len(recent) = scanCounter
    /\ sent # {} => Filled /\ sent \subseteq Filtered(cells)

\* The n-th newest value, for the three ways to keep them.
Newest(n) == recent[Len(recent) + 1 - n]

CellOf(n) == IF n =< bufferCounter THEN bufferCounter + 1 - n
                                   ELSE bufferCounter + 1 - n + windowSize

AverageWindow ==
    filter = "MOV_AVERAGE" =>
        /\ ~Filled => bufferCounter = scanCounter
        /\ \A n \in 1 .. Len(recent) : Newest(n) = cells[CellOf(n)]

WeightedWindow ==
    filter = "MOV_AVERAGE_WEIGHTED" => \A n \in 1 .. Len(recent) : Newest(n) = cells[n]

\* A value that came n times in a row is in the middle, or fills n cells from
\* the end of the window at which it lies.
Reached(v, n) ==
    \/ cells[Middle] = v
    \/ cells[Middle] > v /\ cells[n] =< v
    \/ cells[Middle] < v /\ cells[windowSize + 1 - n] >= v

\* Unless zero was measured, each frame of the warm-up removes a zero from the
\* cells, as long as one is in the middle.
MedianWindow ==
    filter = "MEDIAN" =>
        /\ \A i \in 1 .. windowSize : cells[i] \in measured \cup {0}
        /\ 0 \notin measured /\ cells[Middle] = 0 =>
             \A i \in 1 .. windowSize : i + scanCounter > windowSize => cells[i] > 0
        /\ \A v \in Values, n \in 1 .. Len(recent) :
             (\A i \in 1 .. n : Newest(i) = v) => Reached(v, n)

FiltersInv ==
    /\ FiltersTypeOK
    /\ SentFromWindow
    /\ AverageWindow /\ WeightedWindow /\ MedianWindow
=============================================================================
