---------------------------- MODULE Scan_proofs ----------------------------
(***************************************************************************)
(* What a scan measures and what it sends: every value is taken at its     *)
(* point of the matrix, for every length of the chain, every number of     *)
(* lines and every configuration (Sampling), and every frame holds what    *)
(* its filter promises, for every size of the window (Filters).            *)
(***************************************************************************)
EXTENDS Sampling, Filters, FiniteSetTheorems, SequenceTheorems,
        WellFoundedInduction, TLAPS

-----------------------------------------------------------------------------
(* Sampling.                                                               *)

\* The chain connects line c to A and all others to B.
Drives(c) == [a |-> {c}, b |-> DriveLines \ {c}]

\* The inductive invariant: m_activeChnlA is the line that is driven as long as
\* the columns have lines, and m_channel the address of the ADG732, if it names
\* one and has been written since power came.
SamplingInv ==
    /\ SamplingTypeOK
    /\ chain = Zeros \/ \E c \in DriveLines : chain = Drives(c)
    /\ place \in {"row", "convert"} /\ matrix.shiftX + col < MAX_CHNL =>
         chain = Drives(matrix.shiftX + col) /\ activeChnlA = matrix.shiftX + col
    /\ channel < SCAN_LINES => latch \in {channel, Unknown}
    /\ place = "convert" /\ row < SCAN_LINES => channel = row

LEMMA ChainLength == MAX_CHNL \in Nat \ {0}
BY SamplingAssumption DEF MAX_CHNL

LEMMA LineNumbers ==
    /\ \A c \in Nat : c < MAX_CHNL <=> c \in DriveLines
    /\ \A c \in DriveLines : c \in Nat /\ c < MAX_CHNL
BY ChainLength DEF DriveLines

LEMMA MatrixNumbers ==
    ASSUME NEW m \in Matrices
    PROVE  /\ m.x \in Nat /\ m.y \in Nat /\ m.shiftX \in Nat /\ m.shiftY \in Nat
           /\ m.y < 2 * INT8_LIMIT
BY SamplingAssumption

\* On the prepared buffer switchChnlA leaves one line on A, on whatever chip.
LEMMA SelectedAlone ==
    ASSUME NEW c \in DriveLines
    PROVE  Selected(setAllToB, c) = Drives(c)
<1>1. c \in ChipOf(c) /\ ChipOf(c) \subseteq DriveLines
  BY DEF ChipOf
<1>2. ({} \ ChipOf(c)) \cup {c} = {c}
  OBVIOUS
<1>3. (DriveLines \ ChipOf(c)) \cup (ChipOf(c) \ {c}) = DriveLines \ {c}
  BY <1>1
<1> QED
  BY <1>2, <1>3 DEF Selected, setAllToB, Drives

LEMMA ContentsKinds ==
    /\ Zeros \in Contents /\ setAllToB \in Contents
    /\ \A c \in DriveLines : Drives(c) \in Contents
BY DEF Zeros, setAllToB, Drives, Contents

\* What switchChnlA does to the chain.
LEMMA Switched ==
    ASSUME NEW c \in Nat, SamplingInv, switchChnlA(setAllToB, c)
    PROVE  /\ pData' \in Contents /\ chain' \in Contents
           /\ activeChnlA' \in 0 .. MAX_CHNL
           /\ chain' = chain \/ \E d \in DriveLines : chain' = Drives(d)
           /\ c < MAX_CHNL => chain' = Drives(c) /\ activeChnlA' = c
<1>1. CASE c >= MAX_CHNL
  BY <1>1, ContentsKinds, ChainLength DEF switchChnlA, SamplingInv, SamplingTypeOK
<1>2. CASE c < MAX_CHNL
  <2>1. c \in DriveLines
    BY <1>2, LineNumbers
  <2>2. activeChnlA' = c /\ chain' = Drives(c) /\ pData' = chain
    BY <1>2, <2>1, SelectedAlone, ChainLength DEF switchChnlA, setData
  <2> QED
    BY <1>2, <2>1, <2>2, ContentsKinds, ChainLength DEF SamplingInv, SamplingTypeOK
<1> QED
  BY <1>1, <1>2, ChainLength

LEMMA SamplingInvInit == SamplingInit => SamplingInv
<1> SUFFICES ASSUME SamplingInit PROVE SamplingInv
  OBVIOUS
<1>1. SamplingTypeOK
  BY ContentsKinds, SamplingAssumption DEF SamplingInit, SamplingTypeOK, Bytes
<1> QED
  BY <1>1 DEF SamplingInit, SamplingInv

LEMMA SamplingInvNext == SamplingInv /\ [SamplingNext]_samplingVars => SamplingInv'
<1> SUFFICES ASSUME SamplingInv, [SamplingNext]_samplingVars PROVE SamplingInv'
  OBVIOUS
<1> USE DEF SamplingInv
<1>0. /\ matrix \in Matrices /\ col \in Nat /\ row \in Nat /\ activeChnlA \in 0 .. MAX_CHNL
      /\ channel \in Bytes
  BY DEF SamplingTypeOK
<1>1. CASE StartScan
  BY <1>1, ContentsKinds DEF StartScan, setData, SamplingTypeOK
<1>2. CASE FirstColumn
  <2>1. matrix' \in Matrices /\ switchChnlA(setAllToB, matrix'.shiftX)
    BY <1>2 DEF FirstColumn
  <2>2. matrix'.shiftX \in Nat /\ matrix'.shiftY \in Nat
    BY <2>1, MatrixNumbers
  <2>3. /\ pData' \in Contents /\ chain' \in Contents
        /\ activeChnlA' \in 0 .. MAX_CHNL
        /\ chain' = chain \/ \E d \in DriveLines : chain' = Drives(d)
        /\ matrix'.shiftX < MAX_CHNL =>
             chain' = Drives(matrix'.shiftX) /\ activeChnlA' = matrix'.shiftX
    BY <2>1, <2>2, Switched
  <2>4. col' = 0 /\ matrix'.shiftX + col' = matrix'.shiftX
    BY <1>2, <2>2 DEF FirstColumn
  <2>5. SamplingTypeOK'
    BY <1>2, <2>1, <2>2, <2>3 DEF FirstColumn, SamplingTypeOK
  <2> QED
    BY <1>2, <2>3, <2>4, <2>5 DEF FirstColumn
<1>3. CASE SelectRow
  <2>1. row < matrix.y /\ matrix.y < 2 * INT8_LIMIT /\ matrix.y \in Nat
    BY <1>0, <1>3, MatrixNumbers DEF SelectRow
  <2>2. row \in Bytes
    BY <1>0, <2>1, SamplingAssumption DEF Bytes
  <2>3. row % SCAN_LINES \in Addresses /\ (row < SCAN_LINES => row % SCAN_LINES = row)
    BY <1>0, SamplingAssumption DEF Addresses
  <2>4. SamplingTypeOK'
    BY <1>3, <2>2, <2>3 DEF SelectRow, SamplingTypeOK, driveVars
  <2>5. CASE Addressed(row) /\ channel' = row /\ latch' = row % SCAN_LINES
    BY <1>3, <2>3, <2>4, <2>5 DEF SelectRow, driveVars
  <2>6. CASE ~Addressed(row) /\ UNCHANGED <<channel, latch>>
    BY <1>3, <2>4, <2>6 DEF SelectRow, driveVars, Addressed
  <2> QED
    BY <1>3, <2>5, <2>6 DEF SelectRow
<1>4. CASE Convert
  BY <1>0, <1>4 DEF Convert, SamplingTypeOK, driveVars
<1>5. CASE NextColumn
  <2> DEFINE next == IF activeChnlA + 1 >= MAX_CHNL THEN 0 ELSE activeChnlA + 1
  <2>1. next \in Nat /\ switchChnlA(setAllToB, next)
    BY <1>0, <1>5, ChainLength DEF NextColumn, nextChnlA
  <2>2. /\ pData' \in Contents /\ chain' \in Contents
        /\ activeChnlA' \in 0 .. MAX_CHNL
        /\ chain' = chain \/ \E d \in DriveLines : chain' = Drives(d)
        /\ next < MAX_CHNL => chain' = Drives(next) /\ activeChnlA' = next
    <3> HIDE DEF next
    <3> QED
      BY <2>1, Switched
  <2>3. matrix' = matrix /\ col' = col + 1 /\ matrix.shiftX \in Nat /\ matrix.shiftY \in Nat
    BY <1>0, <1>5, MatrixNumbers DEF NextColumn
  <2>4. SamplingTypeOK'
    BY <1>0, <1>5, <2>2, <2>3 DEF NextColumn, SamplingTypeOK
  <2>5. ASSUME matrix'.shiftX + col' < MAX_CHNL
        PROVE  chain' = Drives(matrix'.shiftX + col') /\ activeChnlA' = matrix'.shiftX + col'
    <3>1. matrix.shiftX + col + 1 < MAX_CHNL
      BY <2>3, <2>5, <1>0
    <3>2. activeChnlA = matrix.shiftX + col
      BY <1>0, <1>5, <2>3, <3>1, ChainLength DEF NextColumn
    <3>3. next = matrix.shiftX + col + 1
      BY <1>0, <2>3, <3>1, <3>2, ChainLength
    <3>4. matrix'.shiftX + col' = next
      BY <1>0, <2>3, <3>3
    <3> QED
      BY <2>2, <2>5, <3>4
  <2>6. place' \in {"row", "frame"} /\ UNCHANGED <<channel, latch>>
    BY <1>5 DEF NextColumn
  <2> QED
    BY <2>2, <2>4, <2>5, <2>6
<1>6. CASE EndScan
  BY <1>6 DEF EndScan, SamplingTypeOK, driveVars
<1>7. CASE UNCHANGED samplingVars
  BY <1>7 DEF samplingVars, driveVars, SamplingTypeOK
<1> QED
  BY <1>1, <1>2, <1>3, <1>4, <1>5, <1>6, <1>7 DEF SamplingNext

LEMMA SamplingInductive == SamplingSpec => []SamplingInv
BY SamplingInvInit, SamplingInvNext, PTL DEF SamplingSpec

\* Type correctness of the variables of the sampling path (scan, doSample,
\* MAX14661, Mux::channel).
THEOREM SamplingTypes == SamplingSpec => []SamplingTypeOK
<1>1. SamplingInv => SamplingTypeOK
  BY DEF SamplingInv
<1> QED
  BY <1>1, SamplingInductive, PTL

\* One drive line at most is on A while a value is taken, for chains of every
\* length and matrices of every size and shift.
THEOREM SamplingDrivesOneLine == SamplingSpec => []OneLineDriven
<1>1. SamplingInv => OneLineDriven
  BY DEF SamplingInv, OneLineDriven, Drives
<1> QED
  BY <1>1, SamplingInductive, PTL

\* Every value that the matrix has is taken at its point.
THEOREM SamplingAtRightPoint == SamplingSpec => []RightPoint
<1>1. SamplingInv => RightPoint
  BY DEF SamplingInv, RightPoint, Drives
<1> QED
  BY <1>1, SamplingInductive, PTL

-----------------------------------------------------------------------------
(* Induction.  A theorem that takes the statement to be proved as an       *)
(* operator cannot be used here, but one about sets can: the statement is  *)
(* turned into the set of the numbers for which it holds.                  *)

LEMMA LeastNat ==
    ASSUME NEW T, T \subseteq Nat, T # {}
    PROVE  \E x \in T : \A y \in T : x =< y
<1>1. PICK x \in T : \A y \in T : <<y, x>> \notin OpToRel(<, Nat)
  BY NatLessThanWellFounded, WFMin
<1>2. \A y \in T : ~(y < x)
  BY <1>1 DEF OpToRel
<1> QED
  <2> HIDE <1>1
  <2> QED
    BY <1>2

LEMMA NatSet ==
    ASSUME NEW S, 0 \in S, \A n \in Nat : n \in S => n + 1 \in S
    PROVE  Nat \subseteq S
<1> SUFFICES ASSUME Nat \ S # {}  PROVE FALSE
  OBVIOUS
<1>2. PICK x \in Nat \ S : \A y \in Nat \ S : x =< y
  <2>1. Nat \ S \subseteq Nat
    OBVIOUS
  <2> QED
    BY <2>1, LeastNat
<1>3. x # 0 /\ x - 1 \in Nat /\ x = (x - 1) + 1
  BY <1>2
<1>5. x - 1 \in S
  BY <1>2, <1>3
<1> QED
  BY <1>2, <1>3, <1>5

\* f holds the sums of the beginnings of s.
Sums(f, s, n) ==
    /\ f \in [0 .. n -> Nat] /\ f[0] = 0
    /\ \A i \in 1 .. n : f[i] = f[i - 1] + s[i]

LEMMA SumsExist ==
    ASSUME NEW s \in Seq(Nat)
    PROVE  \E f : Sums(f, s, Len(s))
<1> DEFINE S == {n \in Nat : n =< Len(s) => \E f : Sums(f, s, n)}
<1>1. 0 \in S
  <2>1. Sums([i \in 0 .. 0 |-> 0], s, 0)
    BY DEF Sums
  <2> QED
    BY <2>1
<1>2. ASSUME NEW n \in Nat, n \in S  PROVE n + 1 \in S
  <2>1. SUFFICES ASSUME n + 1 =< Len(s)  PROVE \E f : Sums(f, s, n + 1)
    OBVIOUS
  <2>2. Len(s) \in Nat
    OBVIOUS
  <2>3. PICK f : Sums(f, s, n)
    BY <1>2, <2>1, <2>2
  <2> DEFINE g == [i \in 0 .. n + 1 |-> IF i = n + 1 THEN f[n] + s[n + 1] ELSE f[i]]
  <2>4. s[n + 1] \in Nat
    BY <2>1, <2>2
  <2>5. f \in [0 .. n -> Nat] /\ f[0] = 0 /\ \A i \in 1 .. n : f[i] = f[i - 1] + s[i]
    BY <2>3 DEF Sums
  <2>6. g \in [0 .. n + 1 -> Nat] /\ g[0] = 0
    BY <2>4, <2>5
  <2>7. \A i \in 1 .. n + 1 : g[i] = g[i - 1] + s[i]
    BY <2>5
  <2>8. Sums(g, s, n + 1)
    BY <2>6, <2>7 DEF Sums
  <2> QED
    BY <2>8
<1> HIDE DEF S
<1>3. Nat \subseteq S
  BY <1>1, <1>2, NatSet
<1> QED
  <2>1. Len(s) \in S /\ Len(s) \in Nat
    BY <1>3
  <2> QED
    BY <2>1 DEF S

LEMMA TotalSums ==
    ASSUME NEW s \in Seq(Nat)
    PROVE  \E f : Sums(f, s, Len(s)) /\ Total(s) = f[Len(s)]
<1> DEFINE Step(f) == [i \in 0 .. Len(s) |-> IF i = 0 THEN 0 ELSE f[i - 1] + s[i]]
<1> DEFINE sum[i \in 0 .. Len(s)] == IF i = 0 THEN 0 ELSE sum[i - 1] + s[i]
<1>0. Len(s) \in Nat
  OBVIOUS
<1>1. PICK f : Sums(f, s, Len(s))
  BY SumsExist
<1>2. f = Step(f)
  <2>1. f \in [0 .. Len(s) -> Nat] /\ f[0] = 0 /\ \A i \in 1 .. Len(s) : f[i] = f[i - 1] + s[i]
    BY <1>1 DEF Sums
  <2>2. \A i \in 0 .. Len(s) : f[i] = Step(f)[i]
    BY <2>1, <1>0
  <2> QED
    BY <2>1, <2>2
<1>3. sum = CHOOSE g : g = Step(g)
  OBVIOUS
<1>4. sum = Step(sum)
  <2> HIDE DEF sum, Step
  <2> QED
    BY <1>2, <1>3
<1>5. Total(s) = sum[Len(s)]
  BY DEF Total
<1> HIDE DEF sum
<1>6. \A i \in 0 .. Len(s) : sum[i] = IF i = 0 THEN 0 ELSE sum[i - 1] + s[i]
  BY <1>4
<1>7. sum[0] = 0 /\ \A i \in 1 .. Len(s) : sum[i] = sum[i - 1] + s[i]
  BY <1>6, <1>0
<1>8. DOMAIN sum = 0 .. Len(s)
  BY <1>4
<1>9. \A i \in 0 .. Len(s) : sum[i] = f[i]
  <2> DEFINE S == {i \in Nat : i =< Len(s) => sum[i] = f[i]}
  <2>1. f[0] = 0 /\ \A i \in 1 .. Len(s) : f[i] = f[i - 1] + s[i]
    BY <1>1 DEF Sums
  <2>2. 0 \in S
    BY <1>7, <2>1
  <2>3. ASSUME NEW n \in Nat, n \in S  PROVE n + 1 \in S
    BY <1>0, <1>7, <2>1, <2>3
  <2> HIDE DEF S
  <2>4. Nat \subseteq S
    BY <2>2, <2>3, NatSet
  <2> QED
    BY <1>0, <2>4 DEF S
<1> QED
  BY <1>0, <1>1, <1>5, <1>9

\* Sequences that begin alike have the same sums as far as they do.
LEMMA SumsAgree ==
    ASSUME NEW s \in Seq(Nat), NEW t \in Seq(Nat), NEW f, NEW g, NEW n \in Nat, NEW m \in Nat, n =< m,
           Sums(f, s, n), Sums(g, t, m), \A i \in 1 .. n : s[i] = t[i]
    PROVE  \A i \in 0 .. n : f[i] = g[i]
<1> DEFINE S == {i \in Nat : i =< n => f[i] = g[i]}
<1>1. f[0] = 0 /\ \A i \in 1 .. n : f[i] = f[i - 1] + s[i]
  BY DEF Sums
<1>2. g[0] = 0 /\ \A i \in 1 .. n : g[i] = g[i - 1] + t[i]
  BY DEF Sums
<1>3. 0 \in S
  BY <1>1, <1>2
<1>4. ASSUME NEW i \in Nat, i \in S  PROVE i + 1 \in S
  BY <1>1, <1>2, <1>4
<1> HIDE DEF S
<1>5. Nat \subseteq S
  BY <1>3, <1>4, NatSet
<1> QED
  BY <1>5 DEF S

LEMMA TotalNat == ASSUME NEW s \in Seq(Nat)  PROVE Total(s) \in Nat
<1>1. PICK f : Sums(f, s, Len(s)) /\ Total(s) = f[Len(s)]
  BY TotalSums
<1> QED
  BY <1>1 DEF Sums

LEMMA TotalOne == ASSUME NEW x \in Nat  PROVE Total(<<x>>) = x
<1> DEFINE s == <<x>>
<1>0. s \in Seq(Nat) /\ Len(s) = 1 /\ s[1] = x
  OBVIOUS
<1> HIDE DEF s
<1>1. PICK f : Sums(f, s, Len(s)) /\ Total(s) = f[Len(s)]
  BY <1>0, TotalSums
<1>2. f[0] = 0 /\ f[1] = f[0] + x
  BY <1>0, <1>1 DEF Sums
<1> QED
  BY <1>0, <1>1, <1>2 DEF s

LEMMA TotalConcat ==
    ASSUME NEW a \in Seq(Nat), NEW b \in Seq(Nat)
    PROVE  Total(a \o b) = Total(a) + Total(b)
<1>1. a \o b \in Seq(Nat) /\ Len(a \o b) = Len(a) + Len(b) /\ Len(a) \in Nat /\ Len(b) \in Nat
  OBVIOUS
<1>2. /\ \A i \in 1 .. Len(a) : (a \o b)[i] = a[i]
      /\ \A i \in 1 .. Len(b) : (a \o b)[Len(a) + i] = b[i]
  <2>1. \A i \in 1 .. Len(a) + Len(b) :
          (a \o b)[i] = IF i =< Len(a) THEN a[i] ELSE b[i - Len(a)]
    BY ConcatProperties
  <2>2. \A i \in 1 .. Len(a) : i \in 1 .. Len(a) + Len(b) /\ i =< Len(a)
    BY <1>1
  <2>3. \A i \in 1 .. Len(b) : /\ Len(a) + i \in 1 .. Len(a) + Len(b)
                               /\ ~(Len(a) + i =< Len(a)) /\ (Len(a) + i) - Len(a) = i
    BY <1>1
  <2> QED
    BY <2>1, <2>2, <2>3
<1>3. PICK f : Sums(f, a, Len(a)) /\ Total(a) = f[Len(a)]
  BY TotalSums
<1>4. PICK g : Sums(g, b, Len(b)) /\ Total(b) = g[Len(b)]
  BY TotalSums
<1>5. PICK h : Sums(h, a \o b, Len(a) + Len(b)) /\ Total(a \o b) = h[Len(a) + Len(b)]
  BY <1>1, TotalSums
<1>6. h[Len(a)] = f[Len(a)] /\ f[Len(a)] \in Nat
  <2>1. \A i \in 0 .. Len(a) : f[i] = h[i]
    <3>1. Len(a) =< Len(a) + Len(b) /\ Len(a) + Len(b) \in Nat
      BY <1>1
    <3>2. \A i \in 1 .. Len(a) : a[i] = (a \o b)[i]
      BY <1>2
    <3>3. Len(a) \in Nat
      BY <1>1
    <3> DEFINE t == a \o b
               m == Len(a) + Len(b)
               l == Len(a)
    <3>4. Sums(f, a, l) /\ Sums(h, t, m) /\ \A i \in 1 .. l : a[i] = t[i]
      BY <1>3, <1>5, <3>2
    <3>5. l \in Nat /\ m \in Nat /\ l =< m /\ t \in Seq(Nat)
      BY <1>1, <3>1, <3>3
    <3> HIDE DEF t, m, l
    <3>6. \A i \in 0 .. l : f[i] = h[i]
      BY <3>4, <3>5, SumsAgree
    <3> QED
      BY <3>6 DEF l
  <2> QED
    BY <1>1, <1>3, <2>1 DEF Sums
<1>7. g[0] = 0 /\ \A i \in 1 .. Len(b) : g[i] = g[i - 1] + b[i] /\ g[i - 1] \in Nat
  <2>1. g \in [0 .. Len(b) -> Nat] /\ g[0] = 0 /\ \A i \in 1 .. Len(b) : g[i] = g[i - 1] + b[i]
    BY <1>4 DEF Sums
  <2>2. \A i \in 1 .. Len(b) : i - 1 \in 0 .. Len(b)
    BY <1>1
  <2> QED
    BY <2>1, <2>2
<1> DEFINE S == {i \in Nat : i =< Len(b) => h[Len(a) + i] = f[Len(a)] + g[i]}
<1>8. \A i \in 1 .. Len(b) : h[Len(a) + i] = h[Len(a) + (i - 1)] + b[i]
  <2>1. \A i \in 1 .. Len(a) + Len(b) : h[i] = h[i - 1] + (a \o b)[i]
    BY <1>5 DEF Sums
  <2>2. \A i \in 1 .. Len(b) : /\ Len(a) + i \in 1 .. Len(a) + Len(b)
                               /\ (Len(a) + i) - 1 = Len(a) + (i - 1)
    BY <1>1
  <2> QED
    BY <1>2, <2>1, <2>2
<1>9. \A i \in 1 .. Len(b) : b[i] \in Nat
  OBVIOUS
<1>10. 0 \in S
  <2>1. Len(a) + 0 = Len(a)
    BY <1>1
  <2> QED
    BY <1>6, <1>7, <2>1
<1>11. ASSUME NEW i \in Nat, i \in S  PROVE i + 1 \in S
  <2>1. SUFFICES ASSUME i + 1 =< Len(b)
                 PROVE  h[Len(a) + (i + 1)] = f[Len(a)] + g[i + 1]
    OBVIOUS
  <2>2. i + 1 \in 1 .. Len(b) /\ (i + 1) - 1 = i /\ i =< Len(b)
    BY <1>1, <2>1
  <2>3. h[Len(a) + (i + 1)] = h[Len(a) + i] + b[i + 1]
    BY <1>8, <2>2
  <2>4. g[i + 1] = g[i] + b[i + 1] /\ g[i] \in Nat
    BY <1>7, <2>2
  <2>5. h[Len(a) + i] = f[Len(a)] + g[i]
    BY <1>11, <2>2
  <2> QED
    BY <1>6, <1>9, <2>2, <2>3, <2>4, <2>5
<1> HIDE DEF S
<1>12. Nat \subseteq S
  BY <1>10, <1>11, NatSet
<1> QED
  BY <1>1, <1>3, <1>4, <1>5, <1>12 DEF S

\* A sequence and its reversal have the same sum.
LEMMA TotalReversed ==
    ASSUME NEW s \in Seq(Nat), NEW t \in Seq(Nat), Len(s) = Len(t),
           \A i \in 1 .. Len(s) : t[i] = s[Len(s) + 1 - i]
    PROVE  Total(s) = Total(t)
<1> DEFINE Reverses(u, v, n) == /\ Len(u) = n /\ Len(v) = n
                                /\ \A i \in 1 .. n : v[i] = u[n + 1 - i]
           S == {n \in Nat : \A u, v \in Seq(Nat) : Reverses(u, v, n) => Total(u) = Total(v)}
<1>1. 0 \in S
  <2>1. \A u, v \in Seq(Nat) : Len(u) = 0 /\ Len(v) = 0 => u = v
    BY EmptySeq
  <2> QED
    BY <2>1
<1>2. ASSUME NEW n \in Nat, n \in S  PROVE n + 1 \in S
  <2>1. SUFFICES ASSUME NEW u \in Seq(Nat), NEW v \in Seq(Nat), Reverses(u, v, n + 1)
                 PROVE  Total(u) = Total(v)
    OBVIOUS
  <2> DEFINE u1 == SubSeq(u, 1, n)
             v1 == SubSeq(v, 2, n + 1)
  <2>2. /\ Len(u) = n + 1 /\ Len(v) = n + 1
        /\ \A i \in 1 .. n + 1 : v[i] = u[(n + 1) + 1 - i]
    BY <2>1
  <2>3. \A i \in 1 .. n + 1 : u[i] \in Nat /\ v[i] \in Nat
    BY <2>2
  <2>4. u1 \in Seq(Nat) /\ Len(u1) = n /\ \A i \in 1 .. n : u1[i] = u[i]
    BY <2>2
  <2>5. v1 \in Seq(Nat) /\ Len(v1) = n /\ \A i \in 1 .. n : v1[i] = v[i + 1]
    BY <2>2
  <2>6. Total(u1) = Total(v1)
    <3>1. \A i \in 1 .. n : v1[i] = u1[n + 1 - i]
      <4>1. \A i \in 1 .. n : /\ i + 1 \in 1 .. n + 1 /\ n + 1 - i \in 1 .. n
                              /\ (n + 1) + 1 - (i + 1) = n + 1 - i
        OBVIOUS
      <4> HIDE DEF u1, v1
      <4> QED
        BY <2>2, <2>4, <2>5, <4>1
    <3> QED
      BY <1>2, <2>4, <2>5, <3>1
  <2>7. u = u1 \o <<u[n + 1]>> /\ v = <<v[1]>> \o v1
    BY <2>2, <2>3
  <2>8. v[1] = u[n + 1] /\ u[n + 1] \in Nat /\ <<u[n + 1]>> \in Seq(Nat)
    <3>1. 1 \in 1 .. n + 1 /\ n + 1 \in 1 .. n + 1 /\ (n + 1) + 1 - 1 = n + 1
      OBVIOUS
    <3>2. v[1] = u[(n + 1) + 1 - 1]
      BY <2>2, <3>1
    <3>3. v[1] = u[n + 1]
      BY <3>1, <3>2
    <3>4. u[n + 1] \in Nat
      BY <2>3, <3>1
    <3>5. <<u[n + 1]>> \in Seq(Nat)
      BY <3>4
    <3> QED
      BY <3>3, <3>4, <3>5
  <2>9. Total(u) = Total(u1) + u[n + 1]
    BY <2>4, <2>7, <2>8, TotalConcat, TotalOne
  <2>10. Total(v) = u[n + 1] + Total(v1)
    <3> DEFINE x == <<u[n + 1]>>
    <3>1. v = x \o v1 /\ x \in Seq(Nat) /\ v1 \in Seq(Nat)
      BY <2>5, <2>7, <2>8
    <3>2. Total(x) = u[n + 1]
      BY <2>8, TotalOne
    <3> HIDE DEF x, v1
    <3> QED
      BY <3>1, <3>2, TotalConcat
  <2>11. Total(u1) \in Nat /\ Total(v1) \in Nat
    BY <2>4, <2>5, TotalNat
  <2> QED
    BY <2>6, <2>8, <2>9, <2>10, <2>11
<1>3. Nat \subseteq S
  <2> HIDE DEF S
  <2> QED
    BY <1>1, <1>2, NatSet
<1>4. Reverses(s, t, Len(s)) /\ Len(s) \in Nat
  OBVIOUS
<1> QED
  BY <1>3, <1>4

\* n times the same, and one to n times the same.
LEMMA TotalSteady ==
    ASSUME NEW s \in Seq(Nat), NEW c \in Nat, \A i \in 1 .. Len(s) : s[i] = c
    PROVE  Total(s) = Len(s) * c
<1>1. PICK f : Sums(f, s, Len(s)) /\ Total(s) = f[Len(s)]
  BY TotalSums
<1>2. f[0] = 0 /\ \A i \in 1 .. Len(s) : f[i] = f[i - 1] + c
  BY <1>1 DEF Sums
<1>3. Len(s) \in Nat
  OBVIOUS
<1> DEFINE S == {n \in Nat : n =< Len(s) => f[n] = n * c}
<1>4. 0 \in S
  BY <1>2
<1>5. ASSUME NEW n \in Nat, n \in S  PROVE n + 1 \in S
  <2>1. SUFFICES ASSUME n + 1 =< Len(s)  PROVE f[n + 1] = (n + 1) * c
    OBVIOUS
  <2>2. n + 1 \in 1 .. Len(s) /\ (n + 1) - 1 = n /\ n =< Len(s)
    BY <1>3, <2>1
  <2>3. f[n + 1] = n * c + c
    BY <1>2, <1>5, <2>2
  <2>4. (n + 1) * c = n * c + c
    OBVIOUS
  <2> QED
    BY <2>3, <2>4
<1>6. Nat \subseteq S
  <2> HIDE DEF S
  <2> QED
    BY <1>4, <1>5, NatSet
<1> QED
  BY <1>1, <1>3, <1>6

LEMMA TotalRamp ==
    ASSUME NEW s \in Seq(Nat), NEW c \in Nat, \A i \in 1 .. Len(s) : s[i] = i * c
    PROVE  2 * Total(s) = c * (Len(s) * (Len(s) + 1))
<1>1. PICK f : Sums(f, s, Len(s)) /\ Total(s) = f[Len(s)]
  BY TotalSums
<1>2. /\ f[0] = 0 /\ \A i \in 0 .. Len(s) : f[i] \in Nat
      /\ \A i \in 1 .. Len(s) : f[i] = f[i - 1] + i * c
  BY <1>1 DEF Sums
<1>3. Len(s) \in Nat
  OBVIOUS
<1> DEFINE S == {n \in Nat : n =< Len(s) => 2 * f[n] = c * (n * (n + 1))}
<1>4. 0 \in S
  BY <1>2
<1>5. ASSUME NEW n \in Nat, n \in S  PROVE n + 1 \in S
  <2>1. SUFFICES ASSUME n + 1 =< Len(s)
                 PROVE  2 * f[n + 1] = c * ((n + 1) * ((n + 1) + 1))
    OBVIOUS
  <2>2. n + 1 \in 1 .. Len(s) /\ (n + 1) - 1 = n /\ n =< Len(s) /\ n \in 0 .. Len(s)
    BY <1>3, <2>1
  <2>3. f[n + 1] = f[n] + (n + 1) * c /\ f[n] \in Nat
    BY <1>2, <2>2
  <2>4. 2 * f[n] = c * (n * (n + 1))
    BY <1>5, <2>2
  <2>5. c * ((n + 1) * ((n + 1) + 1)) = c * (n * (n + 1)) + 2 * ((n + 1) * c)
    <3>1. (n + 1) * ((n + 1) + 1) = n * (n + 1) + 2 * (n + 1)
      OBVIOUS
    <3>2. \A x, y \in Nat : c * (x + y) = c * x + c * y
      OBVIOUS
    <3>3. n * (n + 1) \in Nat /\ 2 * (n + 1) \in Nat
      OBVIOUS
    <3>4. c * (2 * (n + 1)) = 2 * ((n + 1) * c)
      OBVIOUS
    <3> QED
      BY <3>1, <3>2, <3>3, <3>4
  <2>6. (n + 1) * c \in Nat
    OBVIOUS
  <2> DEFINE d == (n + 1) * c
             e == c * (n * (n + 1))
  <2>7. 2 * f[n + 1] = 2 * f[n] + 2 * d
    <3> HIDE DEF d
    <3> QED
      BY <2>3, <2>6 DEF d
  <2> QED
    BY <2>4, <2>5, <2>7
<1>6. Nat \subseteq S
  <2> HIDE DEF S
  <2> QED
    BY <1>4, <1>5, NatSet
<1> QED
  BY <1>1, <1>3, <1>6
-----------------------------------------------------------------------------
(* std::sort.                                                              *)

LEMMA Counts ==
    ASSUME NEW n \in Nat, NEW A, A \subseteq 1 .. n
    PROVE  /\ IsFiniteSet(A) /\ Cardinality(A) \in Nat /\ Cardinality(A) =< n
           /\ \A B : B \subseteq A => Cardinality(B) =< Cardinality(A)
<1>1. IsFiniteSet(1 .. n) /\ Cardinality(1 .. n) = n
  BY FS_Interval
<1>2. IsFiniteSet(A) /\ Cardinality(A) =< n
  BY <1>1, FS_Subset
<1> QED
  BY <1>2, FS_Subset, FS_CardinalityType

\* There is a value that has fewer than i smaller ones and at least i that are
\* not larger: the least of those that at least i do not exceed.
LEMMA RankExists ==
    ASSUME NEW s \in Seq(Nat), NEW i \in 1 .. Len(s)
    PROVE  \E v \in {s[j] : j \in 1 .. Len(s)} :
             Cardinality(Smaller(s, v)) < i /\ i =< Cardinality(NotLarger(s, v))
<1> DEFINE n == Len(s)
           V == {s[j] : j \in 1 .. n}
           T == {v \in Nat : i =< Cardinality(NotLarger(s, v))}
<1>1. n \in Nat /\ V \subseteq Nat /\ \A j \in 1 .. n : s[j] \in Nat
  OBVIOUS
<1>2. \A v : /\ NotLarger(s, v) \subseteq 1 .. n /\ Smaller(s, v) \subseteq 1 .. n
             /\ Cardinality(NotLarger(s, v)) \in Nat /\ Cardinality(Smaller(s, v)) \in Nat
  <2>1. \A v : NotLarger(s, v) \subseteq 1 .. n /\ Smaller(s, v) \subseteq 1 .. n
    BY DEF NotLarger, Smaller
  <2> HIDE DEF n
  <2> QED
    BY <1>1, <2>1, Counts
<1>3. T # {}
  <2> DEFINE S == {k \in Nat : k =< n => \E b \in Nat : \A j \in 1 .. k : s[j] =< b}
  <2>1. PICK b \in Nat : \A j \in 1 .. n : s[j] =< b
    <3>1. 0 \in S
      OBVIOUS
    <3>2. ASSUME NEW k \in Nat, k \in S  PROVE k + 1 \in S
      <4>1. SUFFICES ASSUME k + 1 =< n
                     PROVE  \E b \in Nat : \A j \in 1 .. k + 1 : s[j] =< b
        OBVIOUS
      <4>2. k =< n /\ s[k + 1] \in Nat /\ \A j \in 1 .. k : s[j] \in Nat
        BY <1>1, <4>1
      <4>3. PICK b \in Nat : \A j \in 1 .. k : s[j] =< b
        BY <3>2, <4>2
      <4>4. b + s[k + 1] \in Nat /\ s[k + 1] =< b + s[k + 1]
        BY <4>2
      <4>5. \A j \in 1 .. k : s[j] =< b + s[k + 1]
        BY <4>2, <4>3
      <4>6. \A j \in 1 .. k + 1 : s[j] =< b + s[k + 1]
        BY <4>4, <4>5
      <4> QED
        BY <4>4, <4>6
    <3>3. Nat \subseteq S
      <4> HIDE DEF S
      <4> QED
        BY <3>1, <3>2, NatSet
    <3>4. n \in S /\ n =< n
      <4> HIDE DEF S
      <4> QED
        BY <1>1, <3>3
    <3> HIDE DEF n
    <3> QED
      BY <3>4
  <2>2. NotLarger(s, b) = 1 .. n
    BY <2>1 DEF NotLarger
  <2>3. Cardinality(1 .. n) = n
    <3> HIDE DEF n
    <3> QED
      BY <1>1, FS_Interval
  <2> QED
    BY <1>1, <2>1, <2>2, <2>3
<1>4. PICK v \in T : \A u \in T : v =< u
  <2>1. T \subseteq Nat
    OBVIOUS
  <2> HIDE DEF T
  <2> QED
    BY <1>3, <2>1, LeastNat
<1>5. \A u \in Nat : u < v => Cardinality(NotLarger(s, u)) < i
  <2>1. \A u \in Nat : u < v => u \notin T
    BY <1>4
  <2> QED
    BY <1>1, <1>2, <2>1
<1>6. Cardinality(Smaller(s, v)) < i
  <2>1. CASE v = 0
    <3>1. Smaller(s, v) = {}
      BY <1>1, <2>1 DEF Smaller
    <3> QED
      BY <3>1, FS_EmptySet
  <2>2. CASE v # 0
    <3>1. v - 1 \in Nat /\ v - 1 < v
      BY <1>4, <2>2
    <3>2. Smaller(s, v) = NotLarger(s, v - 1)
      BY <1>1, <1>4, <2>2 DEF Smaller, NotLarger
    <3> QED
      BY <1>5, <3>1, <3>2
  <2> QED
    BY <2>1, <2>2
<1>7. v \in V
  <2>1. ASSUME v \notin V  PROVE FALSE
    <3>1. NotLarger(s, v) = Smaller(s, v)
      BY <1>1, <1>4, <2>1 DEF Smaller, NotLarger
    <3>2. Cardinality(Smaller(s, v)) \in Nat /\ i =< Cardinality(Smaller(s, v))
      BY <1>2, <1>4, <3>1
    <3> QED
      BY <1>1, <1>6, <3>2
  <2> QED
    BY <2>1
<1> QED
  BY <1>4, <1>6, <1>7

LEMMA SortedAt ==
    ASSUME NEW s \in Seq(Nat)
    PROVE  /\ DOMAIN Sorted(s) = 1 .. Len(s)
           /\ \A i \in 1 .. Len(s) :
                /\ Sorted(s)[i] \in {s[j] : j \in 1 .. Len(s)}
                /\ Cardinality(Smaller(s, Sorted(s)[i])) < i
                /\ i =< Cardinality(NotLarger(s, Sorted(s)[i]))
<1>1. ASSUME NEW i \in 1 .. Len(s)
      PROVE  /\ Sorted(s)[i] \in {s[j] : j \in 1 .. Len(s)}
             /\ Cardinality(Smaller(s, Sorted(s)[i])) < i
             /\ i =< Cardinality(NotLarger(s, Sorted(s)[i]))
  <2> DEFINE V == {s[j] : j \in 1 .. Len(s)}
             P(v) == Cardinality(Smaller(s, v)) < i /\ i =< Cardinality(NotLarger(s, v))
  <2>1. Sorted(s)[i] = CHOOSE v \in V : P(v)
    BY DEF Sorted
  <2>2. \E v \in V : P(v)
    BY RankExists
  <2> HIDE DEF V, P
  <2>3. Sorted(s)[i] \in V /\ P(Sorted(s)[i])
    BY <2>1, <2>2
  <2> QED
    BY <2>3 DEF V, P
<1> QED
  BY <1>1 DEF Sorted

\* i values that do not exceed v put the i-th smallest there, and fewer than i
\* below v keep it away.
LEMMA SortedAtMost ==
    ASSUME NEW s \in Seq(Nat), NEW i \in 1 .. Len(s), NEW v \in Nat,
           NEW D \in SUBSET (1 .. Len(s)), \A j \in D : s[j] =< v, Cardinality(D) >= i
    PROVE  Sorted(s)[i] =< v
<1> DEFINE n == Len(s)
           w == Sorted(s)[i]
<1>1. n \in Nat /\ \A j \in 1 .. n : s[j] \in Nat
  OBVIOUS
<1>2. w \in {s[j] : j \in 1 .. n} /\ Cardinality(Smaller(s, w)) < i
  BY SortedAt
<1>3. w \in Nat
  <2> HIDE DEF w
  <2> QED
    BY <1>1, <1>2
<1>4. ASSUME v < w  PROVE FALSE
  <2> HIDE DEF w
  <2>1. D \subseteq Smaller(s, w) /\ Smaller(s, w) \subseteq 1 .. n
    BY <1>1, <1>3, <1>4 DEF Smaller
  <2> HIDE DEF n
  <2>2. /\ Cardinality(D) =< Cardinality(Smaller(s, w))
        /\ Cardinality(Smaller(s, w)) \in Nat /\ Cardinality(D) \in Nat
    <3>1. D \subseteq 1 .. n
      BY <2>1
    <3> QED
      BY <1>1, <2>1, <3>1, Counts
  <2> QED
    BY <1>1, <1>2, <2>2
<1> QED
  BY <1>3, <1>4

LEMMA SortedAtLeast ==
    ASSUME NEW s \in Seq(Nat), NEW i \in 1 .. Len(s), NEW v \in Nat,
           NEW D \in SUBSET (1 .. Len(s)), \A j \in (1 .. Len(s)) \ D : v =< s[j],
           Cardinality(D) < i
    PROVE  v =< Sorted(s)[i]
<1> DEFINE n == Len(s)
           w == Sorted(s)[i]
<1>1. n \in Nat /\ \A j \in 1 .. n : s[j] \in Nat
  OBVIOUS
<1>2. w \in {s[j] : j \in 1 .. n} /\ i =< Cardinality(NotLarger(s, w))
  BY SortedAt
<1>3. w \in Nat
  <2> HIDE DEF w
  <2> QED
    BY <1>1, <1>2
<1>4. ASSUME w < v  PROVE FALSE
  <2> HIDE DEF w
  <2>1. NotLarger(s, w) \subseteq D /\ D \subseteq 1 .. n
    BY <1>1, <1>3, <1>4 DEF NotLarger
  <2> HIDE DEF n
  <2>2. /\ Cardinality(NotLarger(s, w)) =< Cardinality(D)
        /\ Cardinality(NotLarger(s, w)) \in Nat /\ Cardinality(D) \in Nat
    <3>1. NotLarger(s, w) \subseteq 1 .. n
      BY <2>1
    <3> QED
      BY <1>1, <2>1, <3>1, Counts
  <2> QED
    BY <1>1, <1>2, <2>2
<1> QED
  BY <1>3, <1>4

\* The sorted sequence is one: it has values of the original and ascends.
LEMMA SortedAscends ==
    ASSUME NEW s \in Seq(Nat)
    PROVE  \A i, j \in 1 .. Len(s) : i < j => Sorted(s)[i] =< Sorted(s)[j]
<1> SUFFICES ASSUME NEW i \in 1 .. Len(s), NEW j \in 1 .. Len(s), i < j
             PROVE  Sorted(s)[i] =< Sorted(s)[j]
  OBVIOUS
<1> DEFINE v == Sorted(s)[j]
           D == NotLarger(s, v)
<1>1. D \in SUBSET (1 .. Len(s)) /\ \A k \in D : s[k] =< v
  BY DEF NotLarger
<1>2. Len(s) \in Nat
  OBVIOUS
<1>3. Cardinality(D) \in Nat
  <2> HIDE DEF D
  <2> QED
    BY <1>1, <1>2, Counts
<1>4. v \in {s[k] : k \in 1 .. Len(s)} /\ j =< Cardinality(D)
  BY SortedAt
<1> HIDE DEF v, D
<1>5. v \in Nat
  BY <1>4
<1>6. Cardinality(D) >= i
  BY <1>2, <1>3, <1>4
<1>7. Sorted(s)[i] =< v
  BY <1>1, <1>5, <1>6, SortedAtMost
<1> QED
  BY <1>7 DEF v

LEMMA FunctionIsSeq ==
    ASSUME NEW V, V \subseteq Nat, NEW n \in Nat, NEW s \in [1 .. n -> V]
    PROVE  s \in Seq(Nat) /\ s \in Seq(V) /\ Len(s) = n
<1>1. s \in [1 .. n -> Nat]
  OBVIOUS
<1>2. s \in Seq(Nat) /\ s \in Seq(V)
  BY <1>1, SeqDef
<1>3. Len(s) \in Nat /\ 1 .. Len(s) = 1 .. n
  BY <1>2, LenProperties
<1>4. \A l \in Nat : 1 .. l = 1 .. n => l = n
  <2> SUFFICES ASSUME NEW l \in Nat, 1 .. l = 1 .. n  PROVE l = n
    OBVIOUS
  <2>1. (l \in 1 .. n \/ l = 0) /\ (n \in 1 .. l \/ n = 0)
    OBVIOUS
  <2>2. l = 0 => n = 0
    <3>1. n \in 1 .. n \/ n = 0
      OBVIOUS
    <3> QED
      BY <3>1
  <2> QED
    BY <2>1, <2>2
<1> QED
  BY <1>2, <1>3, <1>4

LEMMA SortedIn ==
    ASSUME NEW V, V \subseteq Nat, NEW n \in Nat, NEW s \in [1 .. n -> V]
    PROVE  /\ s \in Seq(Nat) /\ Len(s) = n
           /\ Sorted(s) \in [1 .. n -> V] /\ Ascending(Sorted(s))
<1>1. s \in Seq(Nat) /\ Len(s) = n
  BY FunctionIsSeq
<1>2. DOMAIN Sorted(s) = 1 .. n /\ \A i \in 1 .. n : Sorted(s)[i] \in {s[j] : j \in 1 .. n}
  BY <1>1, SortedAt
<1>3. \A i \in 1 .. n : Sorted(s)[i] \in V
  BY <1>2
<1>4. Sorted(s) = [i \in 1 .. n |-> Sorted(s)[i]]
  BY <1>1 DEF Sorted
<1> DEFINE t == Sorted(s)
<1>5. \A i, j \in 1 .. n : i < j => t[i] =< t[j]
  BY <1>1, SortedAscends
<1> HIDE DEF t
<1>6. t \in [1 .. n -> V]
  BY <1>3, <1>4 DEF t
<1>7. Len(t) = n
  BY <1>6
<1>8. Ascending(t)
  BY <1>5, <1>7 DEF Ascending
<1> QED
  BY <1>1, <1>6, <1>8 DEF t

-----------------------------------------------------------------------------
(* The window of the median.                                               *)

LEMMA WindowFacts ==
    ASSUME FiltersTypeOK
    PROVE  /\ windowSize \in Nat /\ windowSize # 0 /\ windowSize \in WindowSizes
           /\ Middle \in Nat /\ Middle \in 1 .. windowSize
           /\ 1 \in 1 .. windowSize /\ windowSize \in 1 .. windowSize
           /\ cells \in [1 .. windowSize -> Values] /\ Values \subseteq Nat
           /\ \A i \in 1 .. windowSize : cells[i] \in Values /\ cells[i] \in Nat
           /\ filter = "MEDIAN" =>
                \A i, j \in 1 .. windowSize : i =< j => cells[i] =< cells[j]
<1>1. windowSize \in Nat /\ windowSize # 0 /\ windowSize \in WindowSizes
  BY FiltersAssumption DEF FiltersTypeOK
<1>2. cells \in [1 .. windowSize -> Values] /\ Values \subseteq Nat
  BY FiltersAssumption DEF FiltersTypeOK
<1>3. Middle \in Nat /\ Middle \in 1 .. windowSize
  BY <1>1 DEF Middle
<1>4. \A i \in 1 .. windowSize : cells[i] \in Values /\ cells[i] \in Nat
  BY <1>2
<1>5. ASSUME filter = "MEDIAN", NEW i \in 1 .. windowSize, NEW j \in 1 .. windowSize, i =< j
      PROVE  cells[i] =< cells[j]
  <2>1. Len(cells) = windowSize
    BY <1>1, <1>2, FunctionIsSeq
  <2>2. i < j => cells[i] =< cells[j]
    BY <1>5, <2>1 DEF FiltersTypeOK, Ascending
  <2>3. i < j \/ i = j
    BY <1>1, <1>5
  <2> QED
    BY <1>4, <2>2, <2>3
<1> QED
  BY <1>1, <1>2, <1>3, <1>4, <1>5

\* The window before it is sorted.
LEMMA Replaced ==
    ASSUME FiltersTypeOK, NEW v \in Values, NEW k \in 1 .. windowSize
    PROVE  LET s == [cells EXCEPT ![k] = v]
           IN  /\ s \in [1 .. windowSize -> Values] /\ s \in Seq(Nat) /\ Len(s) = windowSize
               /\ \A j \in 1 .. windowSize : s[j] = IF j = k THEN v ELSE cells[j]
<1> DEFINE s == [cells EXCEPT ![k] = v]
<1>1. s \in [1 .. windowSize -> Values]
      /\ \A j \in 1 .. windowSize : s[j] = IF j = k THEN v ELSE cells[j]
  BY WindowFacts
<1> HIDE DEF s
<1>2. s \in Seq(Nat) /\ Len(s) = windowSize
  BY <1>1, WindowFacts, FunctionIsSeq
<1> QED
  BY <1>1, <1>2 DEF s

LEMMA Interval ==
    ASSUME NEW a \in {1, 2}, NEW b \in Nat
    PROVE  Cardinality(a .. b) = IF b < a THEN 0 ELSE b + 1 - a
<1>1. a \in Int /\ b \in Int
  OBVIOUS
<1>2. Cardinality(a .. b) = IF a > b THEN 0 ELSE b - a + 1
  BY <1>1, FS_Interval
<1> QED
  BY <1>2

\* A value below the middle does not bring it below this value.
LEMMA MedianBelow ==
    ASSUME FiltersTypeOK, filter = "MEDIAN", NEW v \in Values, v < cells[Middle]
    PROVE  LET t == Sorted([cells EXCEPT ![windowSize] = v])
           IN  v =< t[Middle] /\ t[1] =< v
<1> DEFINE s == [cells EXCEPT ![windowSize] = v]
           D == 1 .. (Middle - 1)
<1>1. /\ s \in Seq(Nat) /\ Len(s) = windowSize
      /\ \A j \in 1 .. windowSize : s[j] = IF j = windowSize THEN v ELSE cells[j]
  BY WindowFacts, Replaced
<1> HIDE DEF s
<1>2. /\ windowSize \in Nat /\ Middle \in 1 .. windowSize /\ v \in Nat
      /\ 1 \in 1 .. windowSize /\ windowSize \in 1 .. windowSize
  BY WindowFacts
<1>3. D \in SUBSET (1 .. windowSize) /\ Cardinality(D) < Middle
  <2>1. Middle - 1 \in Nat
    BY <1>2
  <2>2. Cardinality(1 .. (Middle - 1)) = IF Middle - 1 < 1 THEN 0 ELSE (Middle - 1) + 1 - 1
    BY <2>1, Interval
  <2> QED
    BY <1>2, <2>2
<1>4. \A j \in (1 .. windowSize) \ D : v =< s[j]
  <2>1. \A j \in (1 .. windowSize) \ D : Middle =< j
    BY <1>2
  <2>2. \A j \in 1 .. windowSize : Middle =< j => v =< cells[j]
    <3>1. \A j \in 1 .. windowSize : Middle =< j => cells[Middle] =< cells[j]
      BY WindowFacts
    <3>2. \A j \in 1 .. windowSize : cells[j] \in Nat
      BY WindowFacts
    <3> QED
      BY <1>2, <3>1, <3>2
  <2> QED
    BY <1>1, <1>2, <2>1, <2>2
<1> HIDE DEF D
<1>5. v =< Sorted(s)[Middle]
  BY <1>1, <1>2, <1>3, <1>4, SortedAtLeast
<1>6. Sorted(s)[1] =< v
  <2> DEFINE E == {windowSize}
  <2>1. E \in SUBSET (1 .. windowSize) /\ \A j \in E : s[j] =< v
    BY <1>1, <1>2
  <2>2. Cardinality(E) >= 1
    <3>1. Cardinality({windowSize}) = 1
      BY FS_Singleton
    <3> QED
      BY <3>1
  <2> HIDE DEF E
  <2> QED
    BY <1>1, <1>2, <2>1, <2>2, SortedAtMost
<1> QED
  BY <1>5, <1>6 DEF s

\* A value above the middle does not bring it above this value.
LEMMA MedianAbove ==
    ASSUME FiltersTypeOK, filter = "MEDIAN", NEW v \in Values, v > cells[Middle]
    PROVE  LET t == Sorted([cells EXCEPT ![1] = v])
           IN  cells[Middle] =< t[Middle] /\ t[Middle] =< v /\ v =< t[windowSize]
<1> DEFINE s == [cells EXCEPT ![1] = v]
<1>1. /\ s \in Seq(Nat) /\ Len(s) = windowSize
      /\ \A j \in 1 .. windowSize : s[j] = IF j = 1 THEN v ELSE cells[j]
  BY WindowFacts, Replaced
<1> HIDE DEF s
<1>2. /\ windowSize \in Nat /\ Middle \in 1 .. windowSize /\ v \in Nat /\ Middle \in Nat
      /\ 1 \in 1 .. windowSize /\ windowSize \in 1 .. windowSize
  BY WindowFacts
<1>3. \A j \in 1 .. windowSize : cells[j] \in Nat
  BY WindowFacts
<1>4. Sorted(s)[Middle] =< v
  <2> DEFINE D == 1 .. Middle
  <2>1. D \in SUBSET (1 .. windowSize) /\ \A j \in D : j \in 1 .. windowSize /\ j =< Middle
    BY <1>2
  <2>2. Cardinality(D) >= Middle
    BY <1>2, Interval
  <2>3. \A j \in D : s[j] =< v
    <3>1. \A j \in D : cells[j] =< cells[Middle]
      BY <1>2, <2>1, WindowFacts
    <3> QED
      BY <1>1, <1>2, <1>3, <2>1, <3>1
  <2> HIDE DEF D
  <2> QED
    BY <1>1, <1>2, <2>1, <2>2, <2>3, SortedAtMost
<1>5. cells[Middle] =< Sorted(s)[Middle]
  <2> DEFINE D == 1 .. (Middle - 1)
  <2>1. D \in SUBSET (1 .. windowSize) /\ Cardinality(D) < Middle
    <3>1. Middle - 1 \in Nat
      BY <1>2
    <3>2. Cardinality(1 .. (Middle - 1)) = IF Middle - 1 < 1 THEN 0 ELSE (Middle - 1) + 1 - 1
      BY <3>1, Interval
    <3> QED
      BY <1>2, <3>2
  <2>2. \A j \in (1 .. windowSize) \ D : cells[Middle] =< s[j]
    <3>1. \A j \in (1 .. windowSize) \ D : Middle =< j
      BY <1>2
    <3>2. \A j \in 1 .. windowSize : Middle =< j => cells[Middle] =< cells[j]
      BY <1>2, WindowFacts
    <3>3. cells[Middle] \in Nat
      BY <1>2, <1>3
    <3> QED
      BY <1>1, <1>2, <3>1, <3>2, <3>3
  <2>3. cells[Middle] \in Nat
    BY <1>2, <1>3
  <2> HIDE DEF D
  <2> QED
    BY <1>1, <1>2, <2>1, <2>2, <2>3, SortedAtLeast
<1>6. v =< Sorted(s)[windowSize]
  <2> DEFINE D == 2 .. windowSize
  <2>1. D \in SUBSET (1 .. windowSize) /\ Cardinality(D) < windowSize
    BY <1>2, Interval
  <2>2. \A j \in (1 .. windowSize) \ D : v =< s[j]
    <3>1. \A j \in (1 .. windowSize) \ D : j = 1
      BY <1>2
    <3> QED
      BY <1>1, <1>2, <3>1
  <2> HIDE DEF D
  <2> QED
    BY <1>1, <1>2, <2>1, <2>2, SortedAtLeast
<1> QED
  BY <1>4, <1>5, <1>6 DEF s

\* A value that came n - 1 times in a row, if at all, and comes once more.
LEMMA MedianReaches ==
    ASSUME FiltersTypeOK, NEW v \in Values, InsertMedian(v), windowSize' = windowSize,
           NEW n \in 1 .. windowSize, n = 1 \/ Reached(v, n - 1)
    PROVE  Reached(v, n)'
<1>1. /\ windowSize \in Nat /\ Middle \in 1 .. windowSize /\ v \in Nat /\ Middle \in Nat
      /\ n \in Nat /\ 1 \in 1 .. windowSize /\ windowSize \in 1 .. windowSize
      /\ filter = "MEDIAN"
  BY WindowFacts DEF InsertMedian
<1>2. \A j \in 1 .. windowSize : cells[j] \in Nat
  BY WindowFacts
<1>3. \A i, j \in 1 .. windowSize : i =< j => cells[i] =< cells[j]
  BY <1>1, WindowFacts
<1>4. cells' \in [1 .. windowSize -> Values] /\ \A j \in 1 .. windowSize : cells'[j] \in Nat
  <2>1. ASSUME NEW k \in 1 .. windowSize
        PROVE  Sorted([cells EXCEPT ![k] = v]) \in [1 .. windowSize -> Values]
    BY <1>1, WindowFacts, Replaced, SortedIn
  <2>2. cells' \in [1 .. windowSize -> Values]
    BY <1>1, <2>1, WindowFacts DEF InsertMedian
  <2> QED
    BY <2>2, WindowFacts
<1>5. Reached(v, n)' <=> (\/ cells'[Middle] = v
                         \/ (cells'[Middle] > v /\ cells'[n] =< v)
                         \/ (cells'[Middle] < v /\ cells'[windowSize + 1 - n] >= v))
  BY DEF Reached, Middle
<1>6. CASE v = cells[Middle]
  <2>1. cells' = cells
    BY <1>1, <1>2, <1>6 DEF InsertMedian
  <2> QED
    BY <1>5, <1>6, <2>1
<1>7. CASE v < cells[Middle]
  <2> DEFINE s == [cells EXCEPT ![windowSize] = v]
  <2>1. cells' = Sorted(s)
    BY <1>1, <1>2, <1>7 DEF InsertMedian
  <2>2. v =< Sorted(s)[Middle] /\ Sorted(s)[1] =< v
    BY <1>1, <1>7, MedianBelow
  <2>3. /\ s \in Seq(Nat) /\ Len(s) = windowSize
        /\ \A j \in 1 .. windowSize : s[j] = IF j = windowSize THEN v ELSE cells[j]
    BY <1>1, Replaced
  <2> HIDE DEF s
  <2>4. cells'[n] =< v
    <3>1. CASE n = 1
      BY <2>1, <2>2, <3>1
    <3>2. CASE n # 1
      <4>1. n - 1 \in 1 .. windowSize /\ n - 1 \in Nat
        BY <1>1, <3>2
      <4>2. cells[n - 1] =< v
        BY <1>1, <1>2, <1>7, <3>2, <4>1 DEF Reached
      <4>3. n - 1 < Middle
        BY <1>1, <1>2, <1>3, <1>7, <4>1, <4>2
      <4> DEFINE D == (1 .. (n - 1)) \cup {windowSize}
      <4>4. D \in SUBSET (1 .. windowSize)
        BY <1>1, <4>1
      <4>5. Cardinality(D) >= n
        <5>1. IsFiniteSet(1 .. (n - 1)) /\ Cardinality(1 .. (n - 1)) = n - 1
          <6>1. Cardinality(1 .. (n - 1)) = n - 1
            BY <1>1, <4>1, Interval
          <6>2. 1 \in Int /\ n - 1 \in Int
            BY <4>1
          <6> QED
            BY <6>1, <6>2, FS_Interval
        <5>2. windowSize \notin 1 .. (n - 1)
          BY <1>1, <4>3
        <5>3. Cardinality((1 .. (n - 1)) \cup {windowSize}) = Cardinality(1 .. (n - 1)) + 1
          BY <5>1, <5>2, FS_AddElement
        <5> QED
          BY <1>1, <5>1, <5>3
      <4>6. \A j \in D : s[j] =< v
        <5>1. \A j \in 1 .. (n - 1) : j \in 1 .. windowSize /\ cells[j] =< cells[n - 1]
          BY <1>1, <1>3, <4>1
        <5>2. \A j \in 1 .. (n - 1) : cells[j] =< v
          BY <1>1, <1>2, <4>1, <4>2, <5>1
        <5> QED
          BY <1>1, <2>3, <5>1, <5>2
      <4> HIDE DEF D
      <4>7. Sorted(s)[n] =< v
        BY <1>1, <2>3, <4>4, <4>5, <4>6, SortedAtMost
      <4> QED
        BY <2>1, <4>7
    <3> QED
      BY <3>1, <3>2
  <2>5. cells'[Middle] >= v
    BY <1>1, <1>4, <2>1, <2>2
  <2> QED
    BY <1>1, <1>4, <1>5, <2>4, <2>5
<1>8. CASE v > cells[Middle]
  <2> DEFINE s == [cells EXCEPT ![1] = v]
  <2>1. cells' = Sorted(s)
    BY <1>1, <1>2, <1>8 DEF InsertMedian
  <2>2. Sorted(s)[Middle] =< v /\ v =< Sorted(s)[windowSize]
    BY <1>1, <1>8, MedianAbove
  <2>3. /\ s \in Seq(Nat) /\ Len(s) = windowSize
        /\ \A j \in 1 .. windowSize : s[j] = IF j = 1 THEN v ELSE cells[j]
    BY <1>1, Replaced
  <2> HIDE DEF s
  <2> DEFINE m == windowSize + 1 - n
  <2>4. m \in 1 .. windowSize /\ m \in Nat
    BY <1>1
  <2>5. v =< cells'[m]
    <3>1. CASE n = 1
      <4>1. m = windowSize
        BY <1>1, <3>1
      <4> QED
        BY <2>1, <2>2, <4>1
    <3>2. CASE n # 1
      <4>1. m + 1 \in 1 .. windowSize /\ windowSize + 1 - (n - 1) = m + 1
        BY <1>1, <3>2
      <4>2. cells[m + 1] >= v
        BY <1>1, <1>2, <1>8, <3>2, <4>1 DEF Reached
      <4> DEFINE D == 2 .. m
      <4>3. D \in SUBSET (1 .. windowSize)
        BY <1>1, <2>4
      <4>4. Cardinality(D) < m
        <5> HIDE DEF m
        <5> QED
          BY <2>4, Interval
      <4>5. \A j \in (1 .. windowSize) \ D : v =< s[j]
        <5> HIDE DEF m
        <5>1. \A j \in (1 .. windowSize) \ D : j = 1 \/ m + 1 =< j
          BY <1>1, <2>4
        <5>2. \A j \in 1 .. windowSize : m + 1 =< j => cells[m + 1] =< cells[j]
          BY <1>3, <4>1
        <5>3. \A j \in 1 .. windowSize : m + 1 =< j => v =< cells[j]
          BY <1>1, <1>2, <4>1, <4>2, <5>2
        <5> QED
          BY <1>1, <2>3, <5>1, <5>3
      <4> HIDE DEF D, m
      <4>6. v =< Sorted(s)[m]
        BY <1>1, <2>3, <2>4, <4>3, <4>4, <4>5, SortedAtLeast
      <4> QED
        BY <2>1, <4>6
    <3> QED
      BY <3>1, <3>2
  <2>6. cells'[Middle] =< v
    BY <1>1, <1>4, <2>1, <2>2
  <2>7. cells'[m] >= v
    BY <1>1, <1>4, <2>4, <2>5
  <2> QED
    BY <1>1, <1>4, <1>5, <2>6, <2>7
<1> QED
  BY <1>1, <1>2, <1>6, <1>7, <1>8

\* A positive value does not bring a zero to the middle, and if there is one in
\* the middle, it takes the place of a zero.
LEMMA MedianZeros ==
    ASSUME FiltersTypeOK, NEW v \in Values, InsertMedian(v), v > 0
    PROVE  /\ cells[Middle] > 0 => cells'[Middle] > 0
           /\ \A k \in Nat :
                /\ cells[Middle] = 0 /\ k =< windowSize
                /\ \A i \in 1 .. windowSize : i > k => cells[i] > 0
                => \A i \in 1 .. windowSize : i >= k => cells'[i] > 0
<1>1. /\ windowSize \in Nat /\ Middle \in 1 .. windowSize /\ v \in Nat /\ Middle \in Nat
      /\ 1 \in 1 .. windowSize /\ windowSize \in 1 .. windowSize
      /\ filter = "MEDIAN"
  BY WindowFacts DEF InsertMedian
<1>2. \A j \in 1 .. windowSize : cells[j] \in Nat
  BY WindowFacts
<1>3. \A k \in 1 .. windowSize :
        \A i \in 1 .. windowSize : Sorted([cells EXCEPT ![k] = v])[i] \in Nat
  <2> SUFFICES ASSUME NEW k \in 1 .. windowSize, NEW i \in 1 .. windowSize
               PROVE  Sorted([cells EXCEPT ![k] = v])[i] \in Nat
    OBVIOUS
  <2>1. Sorted([cells EXCEPT ![k] = v]) \in [1 .. windowSize -> Values]
    BY <1>1, WindowFacts, Replaced, SortedIn
  <2> QED
    BY <2>1, WindowFacts
<1>4. ASSUME cells[Middle] > 0  PROVE cells'[Middle] > 0
  <2>1. CASE v < cells[Middle]
    <3>1. cells' = Sorted([cells EXCEPT ![windowSize] = v])
      BY <1>1, <1>2, <2>1 DEF InsertMedian
    <3>2. v =< cells'[Middle] /\ cells'[Middle] \in Nat
      BY <1>1, <1>3, <2>1, <3>1, MedianBelow
    <3> QED
      BY <1>1, <3>2
  <2>2. CASE v > cells[Middle]
    <3>1. cells' = Sorted([cells EXCEPT ![1] = v])
      BY <1>1, <1>2, <2>2 DEF InsertMedian
    <3>2. cells[Middle] =< cells'[Middle] /\ cells'[Middle] \in Nat
      BY <1>1, <1>3, <2>2, <3>1, MedianAbove
    <3> QED
      BY <1>1, <1>2, <1>4, <3>2
  <2>3. CASE v = cells[Middle]
    BY <1>1, <1>2, <1>4, <2>3 DEF InsertMedian
  <2> QED
    BY <1>1, <1>2, <2>1, <2>2, <2>3
<1>5. ASSUME NEW k \in Nat, cells[Middle] = 0, k =< windowSize,
             \A i \in 1 .. windowSize : i > k => cells[i] > 0,
             NEW i \in 1 .. windowSize, i >= k
      PROVE  cells'[i] > 0
  <2> DEFINE s == [cells EXCEPT ![1] = v]
             D == 2 .. k
  <2>1. cells' = Sorted(s)
    BY <1>1, <1>2, <1>5 DEF InsertMedian
  <2>2. /\ s \in Seq(Nat) /\ Len(s) = windowSize
        /\ \A j \in 1 .. windowSize : s[j] = IF j = 1 THEN v ELSE cells[j]
    BY <1>1, Replaced
  <2>3. cells'[i] \in Nat
    BY <1>1, <1>3, <1>5, <2>1
  <2> HIDE DEF s
  <2>4. D \in SUBSET (1 .. windowSize)
    BY <1>1, <1>5
  <2>5. Cardinality(D) < i
    <3>1. Cardinality(2 .. k) = IF k < 2 THEN 0 ELSE k + 1 - 2
      BY <1>5, Interval
    <3> QED
      BY <1>1, <1>5, <3>1
  <2>6. \A j \in (1 .. windowSize) \ D : 1 =< s[j]
    <3>1. \A j \in (1 .. windowSize) \ D : j = 1 \/ j > k
      BY <1>1, <1>5
    <3>2. \A j \in 1 .. windowSize : j > k => cells[j] >= 1
      BY <1>2, <1>5
    <3>3. v >= 1
      BY <1>1
    <3> QED
      BY <2>2, <3>1, <3>2, <3>3
  <2> HIDE DEF D
  <2>7. 1 =< Sorted(s)[i]
    BY <1>5, <2>2, <2>4, <2>5, <2>6, SortedAtLeast
  <2> QED
    BY <2>1, <2>3, <2>7
<1> QED
  BY <1>4, <1>5

-----------------------------------------------------------------------------
(* The windows of the averages.                                            *)

\* The oldest value stored is behind m_bufferCounter, or was when the window was
\* turned; the cells hold the values measured, in two pieces.
LEMMA AverageTotal ==
    ASSUME FiltersTypeOK, AverageWindow, filter = "MOV_AVERAGE", Len(recent) = windowSize
    PROVE  Total(cells) = Total(recent)
<1> DEFINE w == windowSize
           b == bufferCounter
           older == SubSeq(cells, b + 1, w)
           newer == SubSeq(cells, 1, b)
<1>1. w \in Nat /\ w # 0 /\ b \in Nat /\ b < w
  BY WindowFacts DEF FiltersTypeOK
<1>2. cells \in Seq(Nat) /\ Len(cells) = w /\ \A i \in 1 .. w : cells[i] \in Nat
  BY WindowFacts, FunctionIsSeq
<1>3. recent \in Seq(Nat) /\ Len(recent) = w
  BY FiltersAssumption, SeqMonotonic DEF FiltersTypeOK
<1>4. \A n \in 1 .. w : recent[w + 1 - n] = cells[IF n =< b THEN b + 1 - n ELSE b + 1 - n + w]
  BY DEF AverageWindow, Newest, CellOf
<1>5. \A i \in 1 .. w : recent[i] = cells[IF i =< w - b THEN b + i ELSE i - (w - b)]
  <2> SUFFICES ASSUME NEW i \in 1 .. w
               PROVE  recent[i] = cells[IF i =< w - b THEN b + i ELSE i - (w - b)]
    OBVIOUS
  <2> DEFINE n == w + 1 - i
  <2>1. n \in 1 .. w /\ w + 1 - n = i
    BY <1>1
  <2>2. recent[i] = cells[IF n =< b THEN b + 1 - n ELSE b + 1 - n + w]
    BY <1>4, <2>1
  <2>3. (IF n =< b THEN b + 1 - n ELSE b + 1 - n + w) = (IF i =< w - b THEN b + i ELSE i - (w - b))
    BY <1>1
  <2> QED
    BY <2>2, <2>3
<1> HIDE DEF w, b
<1>6. older \in Seq(Nat) /\ Len(older) = w - b /\ \A i \in 1 .. w - b : older[i] = cells[b + i]
  BY <1>1, <1>2
<1>7. newer \in Seq(Nat) /\ Len(newer) = b /\ \A i \in 1 .. b : newer[i] = cells[i]
  BY <1>1, <1>2
<1>8. cells = newer \o older
  BY <1>1, <1>2
<1>9. recent = older \o newer
  <2> HIDE DEF older, newer
  <2>0. older \in Seq(Nat) /\ newer \in Seq(Nat) /\ Len(older) + Len(newer) = w
    BY <1>1, <1>6, <1>7
  <2>1. older \o newer \in Seq(Nat) /\ Len(older \o newer) = w
    BY <2>0, ConcatProperties
  <2>2. \A i \in 1 .. w : (older \o newer)[i] = IF i =< w - b THEN older[i] ELSE newer[i - (w - b)]
    BY <1>6, <2>0, ConcatProperties
  <2>3. \A i \in 1 .. w : (older \o newer)[i] = recent[i]
    <3>1. \A i \in 1 .. w : ~(i =< w - b) => i - (w - b) \in 1 .. b
      BY <1>1
    <3>2. \A i \in 1 .. w : i =< w - b => i \in 1 .. (w - b)
      BY <1>1
    <3> QED
      BY <1>5, <1>6, <1>7, <2>2, <3>1, <3>2
  <2> QED
    BY <1>3, <2>1, <2>3, SeqEqual
<1>10. Total(cells) = Total(newer) + Total(older) /\ Total(recent) = Total(older) + Total(newer)
  <2> HIDE DEF older, newer
  <2> QED
    BY <1>6, <1>7, <1>8, <1>9, TotalConcat
<1>11. Total(newer) \in Nat /\ Total(older) \in Nat
  BY <1>6, <1>7, TotalNat
<1> QED
  BY <1>10, <1>11

LEMMA WeightsNat ==
    ASSUME NEW w \in Nat, NEW s, \A i \in 1 .. w : s[i] \in Nat
    PROVE  [i \in 1 .. w |-> s[i] * (w + 1 - i)] \in [1 .. w -> Nat]
<1>1. \A i \in 1 .. w : s[i] \in Nat /\ w + 1 - i \in Nat
  OBVIOUS
<1>2. \A x, y \in Nat : x * y \in Nat
  OBVIOUS
<1>3. \A i \in 1 .. w : s[i] * (w + 1 - i) \in Nat
  BY <1>1, <1>2
<1> QED
  BY <1>3

\* Newest first or oldest first, the weighted sum is the same.
LEMMA WeightedTotal ==
    ASSUME FiltersTypeOK, WeightedWindow, filter = "MOV_AVERAGE_WEIGHTED",
           Len(recent) = windowSize
    PROVE  /\ Total([i \in 1 .. windowSize |-> cells[i] * (windowSize + 1 - i)])
                = Total([i \in 1 .. windowSize |-> i * recent[i]])
           /\ Total([i \in 1 .. windowSize |-> i * recent[i]]) \in Nat
<1> DEFINE w == windowSize
           s == [i \in 1 .. w |-> cells[i] * (w + 1 - i)]
           t == [i \in 1 .. w |-> i * recent[i]]
<1>1. w \in Nat /\ \A i \in 1 .. w : cells[i] \in Nat
  BY WindowFacts
<1>2. \A i \in 1 .. w : recent[i] \in Nat
  <2>1. recent \in Seq(Nat)
    BY FiltersAssumption, SeqMonotonic DEF FiltersTypeOK
  <2> QED
    BY <2>1, ElementOfSeq
<1>3. \A n \in 1 .. w : recent[w + 1 - n] = cells[n]
  BY DEF WeightedWindow, Newest
<1> HIDE DEF w
<1>4. s \in [1 .. w -> Nat]
  BY <1>1, WeightsNat DEF s
<1>5. t \in [1 .. w -> Nat]
  <2>1. \A i \in 1 .. w : recent[i] \in Nat /\ i \in Nat
    BY <1>1, <1>2
  <2>2. \A x, y \in Nat : x * y \in Nat
    OBVIOUS
  <2>3. \A i \in 1 .. w : i * recent[i] \in Nat
    BY <2>1, <2>2
  <2> QED
    BY <2>3
<1>6. \A i \in 1 .. w : t[i] = s[w + 1 - i]
  <2> SUFFICES ASSUME NEW i \in 1 .. w  PROVE t[i] = s[w + 1 - i]
    OBVIOUS
  <2>1. w + 1 - i \in 1 .. w /\ w + 1 - (w + 1 - i) = i /\ i \in Nat
    BY <1>1
  <2>2. cells[w + 1 - i] = recent[i]
    BY <1>3, <2>1
  <2>3. s[w + 1 - i] = cells[w + 1 - i] * (w + 1 - (w + 1 - i))
    BY <2>1
  <2>4. s[w + 1 - i] = recent[i] * i
    BY <2>1, <2>2, <2>3
  <2>5. \A x, y \in Nat : x * y = y * x
    OBVIOUS
  <2> QED
    BY <1>2, <2>1, <2>4, <2>5
<1> HIDE DEF s, t
<1>7. s \in Seq(Nat) /\ t \in Seq(Nat) /\ Len(s) = w /\ Len(t) = w
  BY <1>1, <1>4, <1>5, FunctionIsSeq
<1>8. Total(s) = Total(t) /\ Total(t) \in Nat
  BY <1>6, <1>7, TotalReversed, TotalNat
<1> QED
  BY <1>8 DEF s, t, w

\* m_indexSumm is the sum of the weights.
LEMMA IndexSumIs ==
    ASSUME windowSize \in Nat, windowSize # 0
    PROVE  IndexSum \in Nat /\ IndexSum # 0 /\ 2 * IndexSum = windowSize * (windowSize + 1)
<1> DEFINE w == windowSize
           t == [i \in 1 .. w |-> i * 1]
<1>1. t \in [1 .. w -> Nat] /\ \A i \in 1 .. w : t[i] = i * 1
  OBVIOUS
<1> HIDE DEF t
<1>2. t \in Seq(Nat) /\ Len(t) = w
  BY <1>1, FunctionIsSeq
<1>3. 2 * Total(t) = 1 * (w * (w + 1)) /\ Total(t) \in Nat
  BY <1>1, <1>2, TotalRamp, TotalNat
<1>4. w * (w + 1) \in Nat /\ w * (w + 1) # 0
  BY SMT
<1> DEFINE p == w * (w + 1)
<1>5. IndexSum = p \div 2
  BY DEF IndexSum
<1> HIDE DEF p
<1>6. p \in Nat /\ p # 0 /\ 2 * Total(t) = p
  BY <1>3, <1>4 DEF p
<1>7. p \div 2 = Total(t) /\ Total(t) # 0
  BY <1>3, <1>6
<1> QED
  BY <1>3, <1>5, <1>6, <1>7 DEF p

\* An average of equal values is this value.
LEMMA SteadyAverages ==
    ASSUME windowSize \in Nat, windowSize # 0, NEW s \in Seq(Nat), Len(s) = windowSize,
           NEW c \in Nat, \A i \in 1 .. windowSize : s[i] = c
    PROVE  /\ Total(s) \div windowSize = c
           /\ \A r \in Rounded(Total([i \in 1 .. windowSize |-> i * s[i]]), IndexSum) : r = c
<1> DEFINE w == windowSize
           t == [i \in 1 .. w |-> i * s[i]]
<1>1. Total(s) \div w = c
  <2>1. Total(s) = w * c
    BY TotalSteady
  <2>2. (w * c) \div w = c
    <3> DEFINE q == (w * c) \div w
    <3> QED
      BY SMT
  <2> QED
    BY <2>1, <2>2
<1>2. Total(t) = c * IndexSum
  <2>1. t \in [1 .. w -> Nat] /\ \A i \in 1 .. w : t[i] = i * c
    OBVIOUS
  <2> HIDE DEF t
  <2>2. t \in Seq(Nat) /\ Len(t) = w
    BY <2>1, FunctionIsSeq
  <2>3. 2 * Total(t) = c * (w * (w + 1)) /\ Total(t) \in Nat
    BY <2>1, <2>2, TotalRamp, TotalNat
  <2>4. IndexSum \in Nat /\ 2 * IndexSum = w * (w + 1)
    BY IndexSumIs
  <2>5. c * (2 * IndexSum) = 2 * (c * IndexSum) /\ c * IndexSum \in Nat
    BY <2>4
  <2> DEFINE p == w * (w + 1)
  <2>6. 2 * Total(t) = 2 * (c * IndexSum)
    BY <2>3, <2>4, <2>5
  <2> QED
    BY <2>3, <2>5, <2>6
<1>3. ASSUME NEW d \in Nat, d # 0, NEW r \in Rounded(c * d, d)  PROVE r = c
  <2>1. r \in Nat /\ 2 * r * d =< 2 * (c * d) + d /\ 2 * (c * d) - d =< 2 * r * d
    <3>1. c * d \in Nat
      BY <1>3
    <3> QED
      BY <1>3, <3>1 DEF Rounded
  <2>2. r \in Nat /\ c * d \in Nat /\ r * d \in Nat /\ 2 * r * d = 2 * (r * d)
    BY <1>3, <2>1
  <2>3. ASSUME r > c  PROVE FALSE
    <3>1. PICK k \in Nat : r = c + 1 + k
      <4>1. r - c - 1 \in Nat /\ r = c + 1 + (r - c - 1)
        BY <2>1, <2>3
      <4> QED
        BY <4>1
    <3>2. r * d = c * d + d + k * d /\ k * d \in Nat
      BY <1>3, <3>1
    <3> QED
      BY <1>3, <2>1, <2>2, <3>2
  <2>4. ASSUME r < c  PROVE FALSE
    <3>1. PICK k \in Nat : c = r + 1 + k
      <4>1. c - r - 1 \in Nat /\ c = r + 1 + (c - r - 1)
        BY <2>1, <2>4
      <4> QED
        BY <4>1
    <3>2. c * d = r * d + d + k * d /\ k * d \in Nat
      BY <1>3, <2>1, <3>1
    <3> QED
      BY <1>3, <2>1, <2>2, <3>2
  <2> QED
    BY <2>1, <2>3, <2>4
<1>4. IndexSum \in Nat /\ IndexSum # 0
  BY IndexSumIs
<1> QED
  BY <1>1, <1>2, <1>3, <1>4

\* The averages of any window, and its middle, are natural numbers.
LEMMA FilteredNat ==
    ASSUME FiltersTypeOK, NEW c \in [1 .. windowSize -> Values]
    PROVE  Filtered(c) \subseteq Nat
<1>1. windowSize \in Nat /\ windowSize # 0 /\ Values \subseteq Nat /\ Middle \in 1 .. windowSize
  BY WindowFacts
<1>2. c \in Seq(Nat) /\ \A i \in 1 .. windowSize : c[i] \in Nat
  BY <1>1, FunctionIsSeq
<1>3. CASE filter = "MOV_AVERAGE"
  <2>1. Total(c) \in Nat
    BY <1>2, TotalNat
  <2>2. Filtered(c) = {Total(c) \div windowSize}
    BY <1>3 DEF Filtered
  <2>3. \A x \in Nat : x \div windowSize \in Nat
    BY <1>1
  <2> QED
    BY <2>1, <2>2, <2>3
<1>4. CASE filter = "MOV_AVERAGE_WEIGHTED"
  <2> DEFINE t == [i \in 1 .. windowSize |-> c[i] * (windowSize + 1 - i)]
  <2>1. Filtered(c) = Rounded(Total(t), IndexSum)
    BY <1>4 DEF Filtered
  <2>2. t \in [1 .. windowSize -> Nat]
    BY <1>1, <1>2, WeightsNat
  <2> HIDE DEF t
  <2>3. t \in Seq(Nat)
    BY <1>1, <2>2, FunctionIsSeq
  <2>4. Total(t) \in Nat
    BY <2>3, TotalNat
  <2> QED
    BY <2>1, <2>4 DEF Rounded
<1>5. CASE filter = "MEDIAN"
  <2>1. Filtered(c) = {c[Middle]}
    BY <1>5 DEF Filtered
  <2> QED
    BY <1>1, <1>2, <2>1
<1> QED
  BY <1>3, <1>4, <1>5 DEF FiltersTypeOK

-----------------------------------------------------------------------------
(* The invariant.                                                          *)

LEMMA InsertTypes ==
    ASSUME FiltersTypeOK, NEW v \in Values,
           InsertAverage(v) \/ InsertWeighted(v) \/ InsertMedian(v)
    PROVE  /\ cells' \in [1 .. windowSize -> Values]
           /\ filter = "MEDIAN" => Ascending(cells')
           /\ bufferCounter' \in 0 .. (windowSize - 1)
<1>1. /\ windowSize \in Nat /\ windowSize # 0 /\ Middle \in 1 .. windowSize
      /\ cells \in [1 .. windowSize -> Values] /\ Values \subseteq Nat
      /\ bufferCounter \in 0 .. (windowSize - 1)
      /\ 1 \in 1 .. windowSize /\ windowSize \in 1 .. windowSize
  BY WindowFacts DEF FiltersTypeOK
<1>2. CASE InsertAverage(v)
  BY <1>1, <1>2 DEF InsertAverage
<1>3. CASE InsertWeighted(v)
  <2>1. filter = "MOV_AVERAGE_WEIGHTED" /\ bufferCounter' = bufferCounter
    BY <1>3 DEF InsertWeighted
  <2> DEFINE rest == SubSeq(cells, 1, windowSize - 1)
  <2>2. cells \in Seq(Values) /\ Len(cells) = windowSize
    BY <1>1, FunctionIsSeq
  <2>3. rest \in Seq(Values) /\ Len(rest) = windowSize - 1
    BY <1>1, <2>2
  <2>4. <<v>> \in Seq(Values) /\ Len(<<v>>) = 1
    OBVIOUS
  <2>5. cells' = <<v>> \o rest
    BY <1>3 DEF InsertWeighted
  <2> HIDE DEF rest
  <2>6. cells' \in Seq(Values) /\ Len(cells') = windowSize
    BY <1>1, <2>3, <2>4, <2>5
  <2>7. cells' \in [1 .. windowSize -> Values]
    BY <2>6, LenProperties
  <2> QED
    BY <1>1, <2>1, <2>7
<1>4. CASE InsertMedian(v)
  <2>1. ASSUME NEW k \in 1 .. windowSize
        PROVE  /\ Sorted([cells EXCEPT ![k] = v]) \in [1 .. windowSize -> Values]
               /\ Ascending(Sorted([cells EXCEPT ![k] = v]))
    BY <1>1, Replaced, SortedIn
  <2>2. cells' \in [1 .. windowSize -> Values] /\ Ascending(cells')
    BY <1>1, <1>4, <2>1 DEF InsertMedian, FiltersTypeOK
  <2>3. bufferCounter' = bufferCounter
    BY <1>4 DEF InsertMedian
  <2> QED
    BY <1>1, <2>2, <2>3
<1> QED
  BY <1>2, <1>3, <1>4

\* The values measured, from the newest on.
LEMMA SlideOK ==
    ASSUME FiltersTypeOK, NEW v \in Values, recent' = Slide(v)
    PROVE  /\ recent' \in Seq(Values) /\ Len(recent') =< windowSize
           /\ Len(recent') = IF Len(recent) < windowSize THEN Len(recent) + 1 ELSE windowSize
           /\ \A n \in 1 .. Len(recent') :
                recent'[Len(recent') + 1 - n] =
                    IF n = 1 THEN v ELSE recent[Len(recent) + 1 - (n - 1)]
           /\ \A n \in 1 .. Len(recent') : n # 1 => n - 1 \in 1 .. Len(recent)
<1>1. /\ recent \in Seq(Values) /\ Len(recent) \in Nat /\ Len(recent) =< windowSize
      /\ windowSize \in Nat /\ windowSize # 0
  BY WindowFacts DEF FiltersTypeOK
<1> DEFINE l == Len(recent)
           longer == Append(recent, v)
<1>2. /\ longer \in Seq(Values) /\ Len(longer) = l + 1 /\ longer # <<>>
      /\ \A i \in 1 .. l + 1 : longer[i] = IF i = l + 1 THEN v ELSE recent[i]
  BY <1>1
<1>3. recent' = IF Len(longer) > windowSize THEN Tail(longer) ELSE longer
  BY DEF Slide
<1> HIDE DEF longer
<1>4. CASE l < windowSize
  <2>1. recent' = longer /\ Len(recent') = l + 1
    BY <1>1, <1>2, <1>3, <1>4
  <2>2. \A n \in 1 .. l + 1 : /\ (l + 1) + 1 - n \in 1 .. l + 1
                              /\ (l + 1) + 1 - n = l + 1 <=> n = 1
                              /\ (l + 1) + 1 - n = l + 1 - (n - 1)
                              /\ n # 1 => n - 1 \in 1 .. l
    BY <1>1
  <2>3. \A n \in 1 .. l + 1 : longer[(l + 1) + 1 - n] = IF n = 1 THEN v ELSE recent[l + 1 - (n - 1)]
    BY <1>2, <2>2
  <2> QED
    BY <1>1, <1>2, <1>4, <2>1, <2>2, <2>3
<1>5. CASE l = windowSize
  <2>1. recent' = Tail(longer)
    BY <1>1, <1>2, <1>3, <1>5
  <2>2. /\ recent' \in Seq(Values) /\ Len(recent') = l
        /\ \A i \in 1 .. l : recent'[i] = longer[i + 1]
    BY <1>1, <1>2, <2>1, HeadTailProperties
  <2>3. \A n \in 1 .. l :
          /\ l + 1 - n \in 1 .. l /\ (l + 1 - n) + 1 \in 1 .. l + 1
          /\ ((l + 1 - n) + 1 = l + 1) <=> (n = 1)
          /\ (l + 1 - n) + 1 = l + 1 - (n - 1)
          /\ n # 1 => n - 1 \in 1 .. l
    BY <1>1
  <2>4. \A n \in 1 .. l : recent'[l + 1 - n] = IF n = 1 THEN v ELSE recent[l + 1 - (n - 1)]
    <3> SUFFICES ASSUME NEW n \in 1 .. l
                 PROVE  recent'[l + 1 - n] = IF n = 1 THEN v ELSE recent[l + 1 - (n - 1)]
      OBVIOUS
    <3> DEFINE i == l + 1 - n
    <3>1. /\ i \in 1 .. l /\ i + 1 \in 1 .. l + 1
          /\ (i + 1 = l + 1) <=> (n = 1)
          /\ i + 1 = l + 1 - (n - 1)
      BY <2>3
    <3> HIDE DEF i, l
    <3>2. recent'[i] = longer[i + 1]
      BY <2>2, <3>1
    <3>3. longer[i + 1] = IF n = 1 THEN v ELSE recent[i + 1]
      BY <1>2, <3>1
    <3> QED
      BY <3>1, <3>2, <3>3 DEF i
  <2> QED
    BY <1>1, <1>5, <2>2, <2>3, <2>4
<1> QED
  BY <1>1, <1>4, <1>5

LEMMA FiltersInvInit == FiltersInit => FiltersInv
<1> SUFFICES ASSUME FiltersInit  PROVE FiltersInv
  OBVIOUS
<1>1. /\ windowSize \in Nat /\ windowSize # 0 /\ windowSize \in WindowSizes
      /\ 0 \in Values /\ Values \subseteq Nat
  BY FiltersAssumption DEF FiltersInit
<1>2. cells \in [1 .. windowSize -> Values]
  BY <1>1 DEF FiltersInit
<1>3. filter = "MEDIAN" => \A i \in 1 .. windowSize : cells[i] = 0
  BY DEF FiltersInit
<1>4. Len(cells) = windowSize
  BY <1>1, <1>2, FunctionIsSeq
<1>5. filter = "MEDIAN" => Ascending(cells)
  BY <1>3, <1>4 DEF Ascending
<1>6. scanCounter = 0 /\ bufferCounter = 0 /\ sent = {} /\ recent = <<>> /\ measured = {}
  BY DEF FiltersInit
<1>7. recent \in Seq(Values) /\ Len(recent) = 0
  BY <1>6
<1>8. FiltersTypeOK
  BY <1>1, <1>2, <1>5, <1>6, <1>7 DEF FiltersTypeOK, FiltersInit
<1>9. SentFromWindow
  BY <1>6, <1>7 DEF SentFromWindow
<1>10. AverageWindow /\ WeightedWindow
  BY <1>6, <1>7 DEF AverageWindow, WeightedWindow
<1>11. MedianWindow
  BY <1>1, <1>3, <1>6, <1>7 DEF MedianWindow
<1> QED
  BY <1>8, <1>9, <1>10, <1>11 DEF FiltersInv

LEMMA FrameKeeps ==
    ASSUME FiltersInv, NEW v \in Values, Frame(v)
    PROVE  FiltersInv'
<1>1. FiltersTypeOK /\ SentFromWindow /\ AverageWindow /\ WeightedWindow /\ MedianWindow
  BY DEF FiltersInv
<1>2. /\ windowSize \in Nat /\ windowSize # 0 /\ Middle \in 1 .. windowSize
      /\ Values \subseteq Nat /\ v \in Nat
      /\ cells \in [1 .. windowSize -> Values]
      /\ scanCounter \in 0 .. windowSize /\ bufferCounter \in 0 .. (windowSize - 1)
      /\ Len(recent) = scanCounter
  BY <1>1, WindowFacts DEF FiltersTypeOK, SentFromWindow
<1>3. /\ filter' = filter /\ windowSize' = windowSize
      /\ recent' = Slide(v) /\ measured' = measured \cup {v}
      /\ InsertAverage(v) \/ InsertWeighted(v) \/ InsertMedian(v)
  BY DEF Frame
<1>4. /\ cells' \in [1 .. windowSize -> Values]
      /\ filter = "MEDIAN" => Ascending(cells')
      /\ bufferCounter' \in 0 .. (windowSize - 1)
  BY <1>1, <1>3, InsertTypes
<1>5. /\ recent' \in Seq(Values) /\ Len(recent') =< windowSize
      /\ Len(recent') = IF Len(recent) < windowSize THEN Len(recent) + 1 ELSE windowSize
  BY <1>1, <1>3, SlideOK
<1>6. /\ \A n \in 1 .. Len(recent') :
           Newest(n)' = IF n = 1 THEN v ELSE Newest(n - 1)
      /\ \A n \in 1 .. Len(recent') : n # 1 => n - 1 \in 1 .. Len(recent)
  BY <1>1, <1>3, SlideOK DEF Newest
<1>7. Filtered(cells)' = Filtered(cells')
  BY <1>3 DEF Filtered, Middle, IndexSum
<1>8. \/ /\ Filled /\ scanCounter' = scanCounter /\ \E r \in Filtered(cells') : sent' = {r}
      \/ /\ ~Filled /\ scanCounter' = scanCounter + 1 /\ sent' = sent
  BY DEF Frame
<1>9. /\ Len(recent') = scanCounter' /\ scanCounter' \in 0 .. windowSize
      /\ ~Filled => sent = {}
      /\ Filled => scanCounter = windowSize
  BY <1>1, <1>2, <1>5, <1>8 DEF Filled, SentFromWindow
<1>10. sent' = {} \/ (Filled' /\ sent' \subseteq Filtered(cells'))
  <2>1. CASE Filled
    <3>1. scanCounter' >= windowSize'
      BY <1>2, <1>3, <1>8, <2>1 DEF Filled
    <3> QED
      BY <1>8, <2>1, <3>1 DEF Filled
  <2>2. CASE ~Filled
    BY <1>8, <1>9, <2>2
  <2> QED
    BY <2>1, <2>2
<1>11. sent' \subseteq Nat
  BY <1>1, <1>4, <1>10, FilteredNat
<1>12. FiltersTypeOK'
  <2>1. measured' \subseteq Values
    BY <1>1, <1>3 DEF FiltersTypeOK
  <2>2. (filter = "MEDIAN" => Ascending(cells))'
    BY <1>3, <1>4 DEF Ascending
  <2>3. filter' \in {"MOV_AVERAGE", "MOV_AVERAGE_WEIGHTED", "MEDIAN"} /\ windowSize' \in WindowSizes
    BY <1>1, <1>3 DEF FiltersTypeOK
  <2> QED
    BY <1>3, <1>4, <1>5, <1>9, <1>11, <2>1, <2>2, <2>3 DEF FiltersTypeOK
<1>13. SentFromWindow'
  BY <1>7, <1>9, <1>10 DEF SentFromWindow
<1>14. AverageWindow'
  <2>1. CASE filter # "MOV_AVERAGE"
    BY <1>3, <2>1 DEF AverageWindow
  <2>2. CASE filter = "MOV_AVERAGE"
    <3>1. InsertAverage(v)
      BY <1>3, <2>2 DEF InsertWeighted, InsertMedian
    <3>2. /\ ~Filled => bufferCounter = scanCounter
          /\ \A n \in 1 .. Len(recent) : Newest(n) = cells[CellOf(n)]
      BY <1>1, <2>2 DEF AverageWindow
    <3>3. /\ cells'[bufferCounter + 1] = v
          /\ \A i \in 1 .. windowSize : i # bufferCounter + 1 => cells'[i] = cells[i]
          /\ bufferCounter' = IF bufferCounter + 1 >= windowSize THEN 0 ELSE bufferCounter + 1
      BY <1>2, <3>1 DEF InsertAverage
    <3>4. ~Filled' => bufferCounter' = scanCounter'
      BY <1>2, <1>3, <1>8, <1>9, <3>2, <3>3 DEF Filled
    <3>5. ASSUME NEW n \in 1 .. Len(recent')
          PROVE  Newest(n)' = cells'[CellOf(n)']
      <4>1. n \in 1 .. windowSize
        BY <1>2, <1>5
      <4>2. CASE n = 1
        <5>1. CellOf(n)' = bufferCounter + 1
          BY <1>2, <1>3, <3>3, <4>2 DEF CellOf
        <5> QED
          BY <1>6, <3>3, <4>2, <5>1
      <4>3. CASE n # 1
        <5>1. Newest(n)' = cells[CellOf(n - 1)]
          BY <1>6, <3>2, <4>3
        <5>2. /\ CellOf(n)' = CellOf(n - 1)
              /\ CellOf(n - 1) \in 1 .. windowSize
              /\ CellOf(n - 1) # bufferCounter + 1
          BY <1>2, <1>3, <3>3, <4>1, <4>3 DEF CellOf
        <5> QED
          BY <3>3, <5>1, <5>2
      <4> QED
        BY <4>2, <4>3
    <3> QED
      BY <3>4, <3>5 DEF AverageWindow
  <2> QED
    BY <2>1, <2>2
<1>15. WeightedWindow'
  <2>1. CASE filter # "MOV_AVERAGE_WEIGHTED"
    BY <1>3, <2>1 DEF WeightedWindow
  <2>2. CASE filter = "MOV_AVERAGE_WEIGHTED"
    <3>1. cells' = <<v>> \o SubSeq(cells, 1, windowSize - 1)
      BY <1>3, <2>2 DEF InsertWeighted, InsertAverage, InsertMedian
    <3>2. \A n \in 1 .. Len(recent) : Newest(n) = cells[n]
      BY <1>1, <2>2 DEF WeightedWindow
    <3>3. cells \in Seq(Values) /\ Len(cells) = windowSize
      BY <1>2, FunctionIsSeq
    <3>4. \A n \in 1 .. windowSize : cells'[n] = IF n = 1 THEN v ELSE cells[n - 1]
      <4> DEFINE rest == SubSeq(cells, 1, windowSize - 1)
      <4>1. /\ rest \in Seq(Values) /\ Len(rest) = windowSize - 1
            /\ \A i \in 1 .. windowSize - 1 : rest[i] = cells[i]
        BY <1>2, <3>3
      <4>2. <<v>> \in Seq(Values) /\ Len(<<v>>) = 1 /\ <<v>>[1] = v
        OBVIOUS
      <4> HIDE DEF rest
      <4>3. \A n \in 1 .. 1 + (windowSize - 1) :
              (<<v>> \o rest)[n] = IF n =< 1 THEN <<v>>[n] ELSE rest[n - 1]
        BY <4>1, <4>2, ConcatProperties
      <4>4. cells' = <<v>> \o rest
        BY <3>1 DEF rest
      <4>5. \A n \in 1 .. windowSize : /\ n \in 1 .. 1 + (windowSize - 1)
                                       /\ n # 1 => n - 1 \in 1 .. windowSize - 1 /\ ~(n =< 1)
        BY <1>2
      <4> QED
        BY <4>1, <4>2, <4>3, <4>4, <4>5
    <3>5. \A n \in 1 .. Len(recent') : n \in 1 .. windowSize
      BY <1>2, <1>5
    <3> QED
      BY <1>6, <3>2, <3>4, <3>5 DEF WeightedWindow
  <2> QED
    BY <2>1, <2>2
<1>16. MedianWindow'
  <2>1. CASE filter # "MEDIAN"
    BY <1>3, <2>1 DEF MedianWindow
  <2>2. CASE filter = "MEDIAN"
    <3>1. InsertMedian(v)
      BY <1>3, <2>2 DEF InsertWeighted, InsertAverage
    <3>2. /\ \A i \in 1 .. windowSize : cells[i] \in measured \cup {0}
          /\ 0 \notin measured /\ cells[Middle] = 0 =>
               \A i \in 1 .. windowSize : i + scanCounter > windowSize => cells[i] > 0
          /\ \A u \in Values, n \in 1 .. Len(recent) :
               (\A i \in 1 .. n : Newest(i) = u) => Reached(u, n)
      BY <1>1, <2>2 DEF MedianWindow
    <3>3. Middle' = Middle
      BY <1>3 DEF Middle
    <3>4. \A i \in 1 .. windowSize : cells'[i] \in measured' \cup {0}
      <4> DEFINE V == measured \cup {v, 0}
      <4>1. V \subseteq Nat
        BY <1>1, <1>2 DEF FiltersTypeOK
      <4>2. ASSUME NEW k \in 1 .. windowSize
            PROVE  Sorted([cells EXCEPT ![k] = v]) \in [1 .. windowSize -> V]
        <5>1. [cells EXCEPT ![k] = v] \in [1 .. windowSize -> V]
          BY <1>2, <3>2
        <5> HIDE DEF V
        <5> QED
          BY <1>2, <4>1, <5>1, SortedIn
      <4>3. cells \in [1 .. windowSize -> V]
        BY <1>2, <3>2
      <4>4. 1 \in 1 .. windowSize /\ windowSize \in 1 .. windowSize
        BY <1>2
      <4>5. cells' \in [1 .. windowSize -> V]
        BY <3>1, <4>2, <4>3, <4>4 DEF InsertMedian
      <4> QED
        BY <1>3, <4>5
    <3>5. ASSUME 0 \notin measured', cells'[Middle] = 0
          PROVE  \A i \in 1 .. windowSize : i + scanCounter' > windowSize => cells'[i] > 0
      <4>1. v > 0 /\ 0 \notin measured
        BY <1>2, <1>3, <3>5
      <4>2. cells[Middle] = 0
        <5>1. cells[Middle] \in Nat
          BY <1>2
        <5>2. cells[Middle] > 0 => cells'[Middle] > 0
          BY <1>1, <3>1, <4>1, MedianZeros
        <5> QED
          BY <3>5, <5>1, <5>2
      <4>3. \A i \in 1 .. windowSize : i + scanCounter > windowSize => cells[i] > 0
        BY <3>2, <4>1, <4>2
      <4>4. ~Filled
        BY <1>2, <1>9, <4>2, <4>3
      <4> DEFINE k == windowSize - scanCounter
      <4>5. k \in Nat /\ k =< windowSize
        BY <1>2
      <4>6. \A i \in 1 .. windowSize : i > k => cells[i] > 0
        BY <1>2, <4>3
      <4>7. \A i \in 1 .. windowSize : i + scanCounter' > windowSize => i >= k
        BY <1>2, <1>8, <4>4
      <4> HIDE DEF k
      <4>8. \A i \in 1 .. windowSize : i >= k => cells'[i] > 0
        BY <1>1, <3>1, <4>1, <4>2, <4>5, <4>6, MedianZeros
      <4> QED
        BY <4>7, <4>8
    <3>6. ASSUME NEW u \in Values, NEW n \in 1 .. Len(recent'),
                 \A i \in 1 .. n : Newest(i)' = u
          PROVE  Reached(u, n)'
      <4>1. n \in 1 .. windowSize /\ 1 \in 1 .. n /\ 1 \in 1 .. Len(recent')
        BY <1>2, <1>5
      <4>2. u = v
        BY <1>6, <3>6, <4>1
      <4>3. n = 1 \/ Reached(v, n - 1)
        <5>1. SUFFICES ASSUME n # 1  PROVE Reached(v, n - 1)
          OBVIOUS
        <5>2. n - 1 \in 1 .. Len(recent)
          BY <1>6, <5>1
        <5>3. \A i \in 1 .. n - 1 : Newest(i) = v
          <6> SUFFICES ASSUME NEW i \in 1 .. n - 1  PROVE Newest(i) = v
            OBVIOUS
          <6>1. i + 1 \in 1 .. n /\ i + 1 # 1 /\ (i + 1) - 1 = i /\ i + 1 \in 1 .. Len(recent')
            BY <1>2, <1>5, <4>1
          <6> DEFINE j == i + 1
          <6>2. j \in 1 .. n /\ j # 1 /\ j - 1 = i /\ j \in 1 .. Len(recent')
            BY <6>1
          <6> HIDE DEF j
          <6>3. Newest(j)' = u
            BY <3>6, <6>2
          <6>4. Newest(j)' = Newest(j - 1)
            BY <1>6, <6>2
          <6> QED
            BY <4>2, <6>2, <6>3, <6>4
        <5> QED
          BY <3>2, <5>2, <5>3
      <4> QED
        BY <1>1, <1>3, <3>1, <4>1, <4>2, <4>3, MedianReaches
    <3> QED
      BY <1>3, <3>3, <3>4, <3>5, <3>6 DEF MedianWindow
  <2> QED
    BY <2>1, <2>2
<1> QED
  BY <1>12, <1>13, <1>14, <1>15, <1>16 DEF FiltersInv

LEMMA FiltersInvAlways == FiltersSpec => []FiltersInv
<1>1. FiltersInv /\ [FiltersNext]_filterVars => FiltersInv'
  <2> SUFFICES ASSUME FiltersInv, [FiltersNext]_filterVars  PROVE FiltersInv'
    OBVIOUS
  <2>1. CASE FiltersNext
    BY <2>1, FrameKeeps DEF FiltersNext
  <2>2. CASE UNCHANGED filterVars
    BY <2>2 DEF filterVars, FiltersInv, FiltersTypeOK, Ascending, SentFromWindow, Filled, Filtered,
                Middle, IndexSum, AverageWindow, WeightedWindow, MedianWindow, Newest, CellOf, Reached
  <2> QED
    BY <2>1, <2>2
<1> QED
  BY <1>1, FiltersInvInit, PTL DEF FiltersSpec

\* The windows keep their shape: cells and counters within their bounds, and the
\* median's window always in order when it is read.
THEOREM FiltersTypes == FiltersSpec => []FiltersTypeOK
<1>1. FiltersInv => FiltersTypeOK
  BY DEF FiltersInv
<1> QED
  BY <1>1, FiltersInvAlways, PTL

\* In every frame sent the window is full.
LEMMA SentFull ==
    ASSUME FiltersInv, NEW r \in sent
    PROVE  /\ r \in Filtered(cells) /\ Len(recent) = windowSize
           /\ windowSize \in Nat /\ windowSize # 0
           /\ recent \in Seq(Nat) /\ \A i \in 1 .. windowSize : recent[i] \in Values
<1>1. windowSize \in Nat /\ windowSize # 0 /\ Values \subseteq Nat
  BY WindowFacts DEF FiltersInv
<1>2. /\ r \in Filtered(cells) /\ Filled /\ Len(recent) = scanCounter
      /\ scanCounter \in 0 .. windowSize /\ recent \in Seq(Values)
  BY DEF FiltersInv, SentFromWindow, FiltersTypeOK
<1>3. Len(recent) = windowSize
  BY <1>1, <1>2 DEF Filled
<1>4. recent \in Seq(Nat) /\ \A i \in 1 .. windowSize : recent[i] \in Values
  BY <1>1, <1>2, <1>3, SeqMonotonic, ElementOfSeq
<1> QED
  BY <1>1, <1>2, <1>3, <1>4

LEMMA AveragesSent == FiltersInv => SentIsAverage
<1> SUFFICES ASSUME FiltersInv, NEW r \in sent
             PROVE  /\ filter = "MOV_AVERAGE" => r = Total(recent) \div windowSize
                    /\ filter = "MOV_AVERAGE_WEIGHTED" =>
                         r \in Rounded(Total([i \in 1 .. windowSize |-> i * recent[i]]), IndexSum)
  BY DEF SentIsAverage
<1>1. r \in Filtered(cells) /\ Len(recent) = windowSize
  BY SentFull
<1>2. ASSUME filter = "MOV_AVERAGE"  PROVE r = Total(recent) \div windowSize
  <2>1. Total(cells) = Total(recent)
    BY <1>1, <1>2, AverageTotal DEF FiltersInv
  <2>2. Filtered(cells) = {Total(cells) \div windowSize}
    BY <1>2 DEF Filtered
  <2> QED
    BY <1>1, <2>1, <2>2
<1>3. ASSUME filter = "MOV_AVERAGE_WEIGHTED"
      PROVE  r \in Rounded(Total([i \in 1 .. windowSize |-> i * recent[i]]), IndexSum)
  <2>1. Total([i \in 1 .. windowSize |-> cells[i] * (windowSize + 1 - i)])
          = Total([i \in 1 .. windowSize |-> i * recent[i]])
    BY <1>1, <1>3, WeightedTotal DEF FiltersInv
  <2>2. Filtered(cells)
          = Rounded(Total([i \in 1 .. windowSize |-> cells[i] * (windowSize + 1 - i)]), IndexSum)
    BY <1>3 DEF Filtered
  <2> QED
    BY <1>1, <2>1, <2>2
<1> QED
  BY <1>2, <1>3

\* The averages send the average of the last measurements and of nothing else,
\* for every size of the window and whatever memory held before the scan.
THEOREM FiltersSendAverage == FiltersSpec => []SentIsAverage
BY AveragesSent, FiltersInvAlways, PTL

LEMMA SteadySent == FiltersInv => SteadyIsSent
<1> SUFFICES ASSUME FiltersInv, NEW r \in sent, \A i \in 1 .. Len(recent) : recent[i] = recent[1]
             PROVE  r = recent[1]
  BY DEF SteadyIsSent
<1> DEFINE c == recent[1]
<1>1. /\ r \in Filtered(cells) /\ Len(recent) = windowSize
      /\ windowSize \in Nat /\ windowSize # 0
      /\ recent \in Seq(Nat) /\ \A i \in 1 .. windowSize : recent[i] \in Values
  BY SentFull
<1>2. c \in Values /\ c \in Nat /\ \A i \in 1 .. windowSize : recent[i] = c
  BY <1>1, FiltersAssumption
<1> HIDE DEF c
<1>3. /\ Total(recent) \div windowSize = c
      /\ \A x \in Rounded(Total([i \in 1 .. windowSize |-> i * recent[i]]), IndexSum) : x = c
  BY <1>1, <1>2, SteadyAverages
<1>4. CASE filter = "MOV_AVERAGE" \/ filter = "MOV_AVERAGE_WEIGHTED"
  <2>1. /\ filter = "MOV_AVERAGE" => r = Total(recent) \div windowSize
        /\ filter = "MOV_AVERAGE_WEIGHTED" =>
             r \in Rounded(Total([i \in 1 .. windowSize |-> i * recent[i]]), IndexSum)
    BY AveragesSent DEF SentIsAverage
  <2> QED
    BY <1>3, <1>4, <2>1 DEF c
<1>5. CASE filter = "MEDIAN"
  <2>1. r = cells[Middle]
    BY <1>1, <1>5 DEF Filtered
  <2>2. FiltersTypeOK /\ MedianWindow
    BY DEF FiltersInv
  <2>3. \A i \in 1 .. windowSize : Newest(i) = c
    <3>1. \A i \in 1 .. windowSize : windowSize + 1 - i \in 1 .. windowSize
      BY <1>1
    <3> QED
      BY <1>1, <1>2, <3>1 DEF Newest
  <2>4. windowSize \in 1 .. Len(recent)
    BY <1>1
  <2>5. Reached(c, windowSize)
    BY <1>2, <1>5, <2>2, <2>3, <2>4 DEF MedianWindow
  <2>6. /\ \A i \in 1 .. windowSize : cells[i] \in Nat
        /\ \A i, j \in 1 .. windowSize : i =< j => cells[i] =< cells[j]
        /\ Middle \in 1 .. windowSize /\ 1 \in 1 .. windowSize /\ windowSize \in 1 .. windowSize
    BY <1>5, <2>2, WindowFacts
  <2>7. cells[Middle] =< cells[windowSize] /\ cells[1] =< cells[Middle]
    BY <1>1, <2>6
  <2>8. windowSize + 1 - windowSize = 1
    BY <1>1
  <2>9. ~(cells[Middle] > c /\ cells[windowSize] =< c)
    BY <1>2, <2>6, <2>7
  <2>10. ~(cells[Middle] < c /\ cells[1] >= c)
    BY <1>2, <2>6, <2>7
  <2>11. cells[Middle] = c
    BY <2>5, <2>8, <2>9, <2>10 DEF Reached
  <2> QED
    BY <2>1, <2>11 DEF c
<1> QED
  BY <1>4, <1>5 DEF FiltersInv, FiltersTypeOK

\* A point that measured the same for a window is sent with this value by each
\* filter, also by the median, whose window does not forget by age.
THEOREM FiltersSendSteady == FiltersSpec => []SteadyIsSent
BY SteadySent, FiltersInvAlways, PTL

LEMMA MedianMeasured == FiltersInv => MedianWasMeasured
<1> SUFFICES ASSUME FiltersInv, filter = "MEDIAN", NEW r \in sent  PROVE r \in measured
  BY DEF MedianWasMeasured
<1>1. /\ r \in Filtered(cells) /\ Len(recent) = windowSize
      /\ windowSize \in Nat /\ windowSize # 0
  BY SentFull
<1>2. r = cells[Middle]
  BY <1>1 DEF Filtered
<1>3. FiltersTypeOK /\ MedianWindow /\ scanCounter = windowSize
  BY <1>1 DEF FiltersInv, SentFromWindow
<1>4. Middle \in 1 .. windowSize /\ Middle \in Nat
  BY <1>3, WindowFacts
<1>5. cells[Middle] \in measured \cup {0}
  BY <1>3, <1>4 DEF MedianWindow
<1>6. ASSUME 0 \notin measured, cells[Middle] = 0  PROVE FALSE
  <2>1. Middle + scanCounter > windowSize
    BY <1>1, <1>3, <1>4
  <2>2. cells[Middle] > 0
    BY <1>3, <1>4, <1>6, <2>1 DEF MedianWindow
  <2> QED
    BY <1>6, <2>2
<1> QED
  BY <1>2, <1>5, <1>6

\* The median never sends a zero of its empty window, but only values measured.
THEOREM FiltersSendMeasured == FiltersSpec => []MedianWasMeasured
BY MedianMeasured, FiltersInvAlways, PTL
=============================================================================
