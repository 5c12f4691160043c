-------------------------- MODULE JsonTable_proofs ---------------------------
(***************************************************************************)
(* The client's conversion table: which values it may hold, that no        *)
(* conversion leaves the memory of its frames, and that no pixel is lost,  *)
(* for files, matrices and orders of answers of any size.                  *)
(***************************************************************************)
EXTENDS JsonTable, FiniteSetTheorems, FunctionTheorems, SequenceTheorems, TLAPS

-----------------------------------------------------------------------------
(* Positions: a pixel (x, y) of a matrix of X by Y lines is at x * Y + y.  *)

LEMMA PositionInside ==
    ASSUME NEW X \in Nat, NEW Y \in Nat, NEW x \in Nat, NEW y \in Nat, x < X, y < Y
    PROVE  x * Y + y \in Nat /\ x * Y + y < X * Y
<1>1. (x + 1) * Y = x * Y + Y /\ x * Y \in Nat /\ X * Y \in Nat
  OBVIOUS
<1>2. (x + 1) * Y =< X * Y
  <2>1. PICK k \in Nat : X = (x + 1) + k
    <3>1. X - (x + 1) \in Nat /\ X = (x + 1) + (X - (x + 1))
      OBVIOUS
    <3> QED
      BY <3>1
  <2>2. X * Y = (x + 1) * Y + k * Y /\ k * Y \in Nat
    BY <2>1
  <2> QED
    BY <2>2
<1> QED
  BY <1>1, <1>2

\* Different pixels are at different positions.
LEMMA PositionUnique ==
    ASSUME NEW Y \in Nat, NEW x1 \in Nat, NEW y1 \in Nat, NEW x2 \in Nat, NEW y2 \in Nat,
           y1 < Y, y2 < Y, x1 * Y + y1 = x2 * Y + y2
    PROVE  x1 = x2 /\ y1 = y2
<1>1. ~(x1 < x2)
  <2>1. ASSUME x1 < x2  PROVE  FALSE
    <3>1. x1 * Y + y1 < x2 * Y
      BY <2>1, PositionInside
    <3>2. x1 * Y \in Nat /\ x2 * Y \in Nat
      OBVIOUS
    <3> QED
      BY <3>1, <3>2
  <2> QED
    BY <2>1
<1>2. ~(x2 < x1)
  <2>1. ASSUME x2 < x1  PROVE  FALSE
    <3>1. x2 * Y + y2 < x1 * Y
      BY <2>1, PositionInside
    <3>2. x1 * Y \in Nat /\ x2 * Y \in Nat
      OBVIOUS
    <3> QED
      BY <3>1, <3>2
  <2> QED
    BY <2>1
<1>3. x1 = x2
  BY <1>1, <1>2
<1>4. x1 * Y \in Nat
  OBVIOUS
<1> QED
  BY <1>3, <1>4

\* A larger matrix has no fewer pixels.
LEMMA ProductGrows ==
    ASSUME NEW a \in Nat, NEW b \in Nat, NEW c \in Nat, NEW d \in Nat, a =< c, b =< d
    PROVE  a * b =< c * d
<1>1. PICK k \in Nat : c = a + k
  <2>1. c - a \in Nat /\ c = a + (c - a)
    OBVIOUS
  <2> QED
    BY <2>1
<1>2. PICK l \in Nat : d = b + l
  <2>1. d - b \in Nat /\ d = b + (d - b)
    OBVIOUS
  <2> QED
    BY <2>1
<1>3. c * d = a * d + k * d /\ k * d \in Nat /\ a * d \in Nat
  BY <1>1
<1>4. a * d = a * b + a * l /\ a * l \in Nat /\ a * b \in Nat
  BY <1>2
<1> QED
  BY <1>3, <1>4

-----------------------------------------------------------------------------
(* The conversion table.                                                   *)

\* A file with sizes has as many entries as its matrix has pixels, with
\* coordinates that a byte holds.
LEMMA EntriesTyped ==
    ASSUME NEW file \in Files, Sized(file)
    PROVE  /\ file.x \in Nat /\ file.y \in Nat /\ file.x * file.y \in Nat
           /\ Entries(file) \in Seq(Links)
           /\ Len(Entries(file)) = file.x * file.y
<1>1. file.x \in Nat /\ file.y \in Nat
  BY JsonAssumption DEF Sized
<1>2. file.pcm \in Seq([x : Nat, y : Nat]) /\ Len(file.pcm) >= file.x * file.y
  BY JsonAssumption DEF Sized
<1>3. file.x * file.y \in Nat
  BY <1>1
<1> DEFINE n == file.x * file.y
<1>4. \A i \in 1 .. n : file.pcm[i].x \in Nat /\ file.pcm[i].y \in Nat
  <2>1. \A i \in 1 .. n : file.pcm[i] \in [x : Nat, y : Nat]
    <3>1. n \in Nat /\ Len(file.pcm) >= n
      BY <1>2, <1>3
    <3> HIDE DEF n
    <3>2. \A i \in 1 .. n : i \in 1 .. Len(file.pcm)
      BY <3>1, <1>2, LenProperties
    <3> QED
      BY <1>2, <3>2, ElementOfSeq
  <2> QED
    BY <2>1
<1>5. \A k \in Nat : k % UINT8 \in 0 .. UINT8 - 1
  BY JsonAssumption
<1>6. \A i \in 1 .. n : [x |-> file.pcm[i].x % UINT8, y |-> file.pcm[i].y % UINT8] \in Links
  BY <1>4, <1>5 DEF Links
<1>7. Entries(file) = [i \in 1 .. n |-> [x |-> file.pcm[i].x % UINT8, y |-> file.pcm[i].y % UINT8]]
  BY DEF Entries
<1> HIDE DEF n
<1>8. n \in Nat
  BY <1>3 DEF n
<1>9. Entries(file) \in Seq(Links) /\ Len(Entries(file)) = n
  BY <1>6, <1>7, <1>8
<1> QED
  BY <1>1, <1>3, <1>9 DEF n

\* A set with a smallest member has the one that Start chooses.
LEMMA SmallestChosen ==
    ASSUME NEW T, NEW least \in T, \A c \in T : least =< c,
           NEW first, first = (CHOOSE w \in T : \A c \in T : w =< c)
    PROVE  first \in T /\ \A c \in T : first =< c
OBVIOUS

\* Coordinates that span n lines are the n that begin with the smallest.
LEMMA SpansFromStart ==
    ASSUME NEW s \in SUBSET Nat, NEW n \in Nat, NEW most \in Nat, Spans(s, n, most)
    PROVE  /\ Start(s, most) \in Nat
           /\ \A c \in s : Start(s, most) =< c /\ c < Start(s, most) + n
<1>1. PICK first \in s \cup {most}, last \in s \cup {0} :
        /\ \A c \in s \cup {most} : first =< c
        /\ \A c \in s : c =< last
        /\ last + 1 = first + n
  BY DEF Spans
<1>2. /\ Start(s, most) \in s \cup {most}
      /\ \A c \in s \cup {most} : Start(s, most) =< c
  <2> DEFINE T == s \cup {most}
  <2>1. first \in T /\ \A c \in T : first =< c
    BY <1>1
  <2>2. Start(s, most) = (CHOOSE w \in T : \A c \in T : w =< c)
    BY DEF Start
  <2> HIDE DEF T
  <2>3. Start(s, most) \in T /\ \A c \in T : Start(s, most) =< c
    BY <2>1, <2>2, SmallestChosen
  <2> QED
    BY <2>3, Zenon DEF T
<1>3. first \in Nat /\ last \in Nat /\ Start(s, most) \in Nat
  <2>1. s \cup {most} \subseteq Nat /\ s \cup {0} \subseteq Nat
    OBVIOUS
  <2>2. Start(s, most) \in s \cup {most}
    BY <1>2
  <2> QED
    BY <2>1, <2>2
<1>4. Start(s, most) = first
  BY <1>1, <1>2, <1>3
<1> QED
  BY <1>1, <1>3, <1>4

\* Where the table begins.
XStart == Start(Columns(table), MAX_X)
YStart == Start(Rows(table), MAX_Y)

LEMMA OriginTyped ==
    ASSUME JsonTypeOK, TableFitsScan, present
    PROVE  /\ XStart \in Nat /\ YStart \in Nat
           /\ Origin \in Nat /\ Origin = XStart * jsonY + YStart
           /\ \A c \in Columns(table) : c \in Nat /\ XStart =< c /\ c < XStart + jsonX
           /\ \A c \in Rows(table) : c \in Nat /\ YStart =< c /\ c < YStart + jsonY
<1>1. jsonX \in Nat /\ jsonY \in Nat /\ table \in Seq(Links)
  BY DEF JsonTypeOK
<1>2. Links \subseteq [x : Nat, y : Nat]
  BY JsonAssumption DEF Links
<1>3. Columns(table) \in SUBSET Nat /\ Rows(table) \in SUBSET Nat
  <2>1. \A k \in DOMAIN table : table[k] \in Links
    BY <1>1
  <2> QED
    BY <1>2, <2>1 DEF Columns, Rows
<1>4. Spans(Columns(table), jsonX, MAX_X) /\ Spans(Rows(table), jsonY, MAX_Y)
  BY DEF TableFitsScan, Fits
<1>5. /\ XStart \in Nat /\ YStart \in Nat
      /\ \A c \in Columns(table) : XStart =< c /\ c < XStart + jsonX
      /\ \A c \in Rows(table) : YStart =< c /\ c < YStart + jsonY
  BY <1>1, <1>3, <1>4, SpansFromStart, JsonAssumption DEF XStart, YStart
<1>6. Origin = XStart * jsonY + YStart
  BY DEF Origin, XStart, YStart
<1>7. XStart * jsonY \in Nat
  BY <1>1, <1>5
<1> QED
  BY <1>3, <1>5, <1>6, <1>7

\* Each pixel that jsonConvert writes is taken from the table's stretch.
LEMMA SourceInStretch ==
    ASSUME JsonTypeOK, TableFitsScan, present, NEW i \in Pixels
    PROVE  /\ i + 1 \in DOMAIN table
           /\ table[i + 1].x - XStart \in Nat /\ table[i + 1].x - XStart < jsonX
           /\ table[i + 1].y - YStart \in Nat /\ table[i + 1].y - YStart < jsonY
           /\ Source(i) = Origin + ((table[i + 1].x - XStart) * jsonY
                                      + (table[i + 1].y - YStart))
           /\ Source(i) \in Nat /\ Source(i) - Origin \in 0 .. jsonX * jsonY - 1
<1>1. jsonX \in Nat /\ jsonY \in Nat /\ table \in Seq(Links) /\ Len(table) = jsonX * jsonY
  BY DEF JsonTypeOK
<1>2. jsonX * jsonY \in Nat
  BY <1>1
<1>3. i + 1 \in 1 .. Len(table) /\ DOMAIN table = 1 .. Len(table)
  BY <1>1, <1>2 DEF Pixels
<1>4. table[i + 1].x \in Columns(table) /\ table[i + 1].y \in Rows(table)
  BY <1>3 DEF Columns, Rows
<1> DEFINE x == table[i + 1].x
           y == table[i + 1].y
<1>5. /\ XStart \in Nat /\ YStart \in Nat /\ Origin \in Nat
      /\ Origin = XStart * jsonY + YStart
      /\ x \in Nat /\ XStart =< x /\ x < XStart + jsonX
      /\ y \in Nat /\ YStart =< y /\ y < YStart + jsonY
  BY <1>4, OriginTyped
<1>6. Source(i) = x * jsonY + y
  BY DEF Source
<1> HIDE DEF x, y
<1>7. PICK a \in Nat : a = x - XStart /\ x = XStart + a /\ a < jsonX
  <2>1. x - XStart \in Nat /\ x = XStart + (x - XStart) /\ x - XStart < jsonX
    BY <1>1, <1>5
  <2> QED
    BY <2>1
<1>8. PICK b \in Nat : b = y - YStart /\ y = YStart + b /\ b < jsonY
  <2>1. y - YStart \in Nat /\ y = YStart + (y - YStart) /\ y - YStart < jsonY
    BY <1>1, <1>5
  <2> QED
    BY <2>1
<1>9. a * jsonY + b \in Nat /\ a * jsonY + b < jsonX * jsonY
  BY <1>1, <1>7, <1>8, PositionInside
<1>10. Source(i) = Origin + (a * jsonY + b)
  <2>1. x * jsonY = XStart * jsonY + a * jsonY
    BY <1>1, <1>5, <1>7
  <2>2. XStart * jsonY \in Nat /\ a * jsonY \in Nat
    BY <1>1, <1>5, <1>7
  <2> QED
    BY <1>5, <1>6, <1>8, <2>1, <2>2
<1>11. Source(i) \in Nat /\ Source(i) - Origin \in 0 .. jsonX * jsonY - 1
  <2> DEFINE d == a * jsonY + b
             N == jsonX * jsonY
  <2>1. d \in Nat /\ N \in Nat /\ d < N /\ Source(i) = Origin + d
    BY <1>2, <1>9, <1>10
  <2> HIDE DEF d, N
  <2>2. Source(i) \in Nat /\ Source(i) - Origin = d /\ d \in 0 .. N - 1
    BY <1>5, <2>1
  <2> QED
    BY <2>2 DEF N
<1>12. x - XStart = a /\ y - YStart = b
  BY <1>7, <1>8
<1> QED
  BY <1>3, <1>7, <1>8, <1>10, <1>11, <1>12 DEF x, y

\* The sizes that the client takes from a start answer are positive and, if it
\* has a table, not smaller than the table's in either direction.
LEMMA ScannedOK ==
    ASSUME JsonTypeOK, NEW s \in BoardSizes
    PROVE  /\ Scanned(s).x \in Nat /\ Scanned(s).y \in Nat
           /\ present => jsonX =< Scanned(s).x /\ jsonY =< Scanned(s).y
<1>1. s.x \in Nat /\ s.y \in Nat /\ jsonX \in Nat /\ jsonY \in Nat
  BY JsonAssumption DEF JsonTypeOK
<1>2. CASE present /\ (jsonX > s.x \/ jsonY > s.y)
  BY <1>1, <1>2 DEF Scanned
<1>3. CASE ~(present /\ (jsonX > s.x \/ jsonY > s.y))
  BY <1>1, <1>3 DEF Scanned
<1> QED
  BY <1>2, <1>3

\* A frame that the client accepts has room for the whole table.
LEMMA FrameHoldsTable ==
    ASSUME JsonTypeOK, TableFitsScan, present, NEW s \in BoardSizes, s.x * s.y = scanX * scanY
    PROVE  s.x * s.y \in Nat /\ jsonX * jsonY =< s.x * s.y
<1>1. s.x \in Nat \ {0} /\ s.y \in Nat \ {0}
  BY JsonAssumption
<1>2. s.x * s.y \in Nat /\ s.x * s.y # 0
  BY <1>1
<1>3. ~(scanX = 0 /\ scanY = 0)
  BY <1>2
<1>4. jsonX =< scanX /\ jsonY =< scanY
  BY <1>3 DEF TableFitsScan
<1> QED
  BY <1>2, <1>4, ProductGrows DEF JsonTypeOK

\* What is shown of a frame of n pixels has n pixels.
LEMMA ConvertedSize ==
    ASSUME NEW n \in Nat
    PROVE  /\ DOMAIN Converted(n) = 0 .. n - 1
           /\ Cardinality(DOMAIN Converted(n)) = n
<1>1. DOMAIN Converted(n) = 0 .. n - 1
  BY DEF Converted
<1>2. 0 \in Int /\ n - 1 \in Int
  OBVIOUS
<1>3. Cardinality(0 .. n - 1) = IF 0 > n - 1 THEN 0 ELSE (n - 1) - 0 + 1
  BY ONLY <1>2, FS_Interval
<1> QED
  BY <1>1, <1>3

LEMMA JsonInvInit == JsonInit => JsonInv
<1> SUFFICES ASSUME JsonInit  PROVE  JsonInv
  OBVIOUS
<1> USE DEF JsonInit
<1>1. JsonTypeOK
  <2>1. table \in Seq(Links)
    OBVIOUS
  <2>2. loaded \in BOOLEAN /\ present \in BOOLEAN /\ inside \in BOOLEAN
    OBVIOUS
  <2>3. jsonX \in Nat /\ jsonY \in Nat /\ scanX \in Nat /\ scanY \in Nat
    OBVIOUS
  <2> QED
    BY <2>1, <2>2, <2>3 DEF JsonTypeOK
<1>2. NothingBeforeLoad /\ TableFitsScan /\ ShownByTable /\ ConvertsInside
  BY DEF NothingBeforeLoad, TableFitsScan, ShownByTable, ConvertsInside
<1> QED
  BY <1>1, <1>2 DEF JsonInv

\* loadJson: only now there is a table, and nothing was shown before it.
LEMMA LoadOK ==
    ASSUME JsonInv, loadJson
    PROVE  JsonInv'
<1>1. PICK file \in Files :
        /\ Sized(file)
        /\ table' = Entries(file) /\ jsonX' = file.x /\ jsonY' = file.y
        /\ present' = Fits(Entries(file), file.x, file.y)
  BY DEF loadJson
<1>2. loaded' = TRUE /\ UNCHANGED <<scanX, scanY, shown, inside>>
  BY DEF loadJson
<1>3. scanX = 0 /\ scanY = 0 /\ shown = <<>> /\ inside = TRUE
  BY DEF loadJson, JsonInv, NothingBeforeLoad, JsonTypeOK
<1>4. JsonTypeOK'
  <2>1. /\ jsonX' \in Nat /\ jsonY' \in Nat /\ table' \in Seq(Links)
        /\ Len(table') = jsonX' * jsonY' /\ jsonX' =< MAX_X /\ jsonY' =< MAX_Y
    BY <1>1, EntriesTyped DEF Sized
  <2>2. present' \in BOOLEAN
    BY <1>1 DEF Fits, Spans
  <2> QED
    BY <1>2, <1>3, <2>1, <2>2 DEF JsonTypeOK
<1>5. NothingBeforeLoad'
  BY <1>2 DEF NothingBeforeLoad
<1>6. TableFitsScan'
  BY <1>1, <1>2, <1>3 DEF TableFitsScan
<1>7. ShownByTable' /\ ConvertsInside'
  BY <1>2, <1>3 DEF ShownByTable, ConvertsInside
<1> QED
  BY <1>4, <1>5, <1>6, <1>7 DEF JsonInv

LEMMA TakeSizesOK ==
    ASSUME JsonInv, TakeSizes
    PROVE  JsonInv'
<1>1. PICK s \in BoardSizes : scanX' = Scanned(s).x /\ scanY' = Scanned(s).y
  BY DEF TakeSizes
<1>2. loaded /\ UNCHANGED <<loaded, table, jsonX, jsonY, present, shown, inside>>
  BY DEF TakeSizes
<1>3. /\ scanX' \in Nat /\ scanY' \in Nat
      /\ present => jsonX =< scanX' /\ jsonY =< scanY'
  BY <1>1, ScannedOK DEF JsonInv
<1>4. JsonTypeOK'
  BY <1>2, <1>3 DEF JsonInv, JsonTypeOK
<1>5. NothingBeforeLoad'
  BY <1>2 DEF NothingBeforeLoad
<1>6. TableFitsScan'
  BY <1>2, <1>3 DEF JsonInv, TableFitsScan
<1>7. ShownByTable'
  BY <1>2 DEF JsonInv, ShownByTable, Converted, Pixels, Source
<1>8. ConvertsInside'
  BY <1>2 DEF JsonInv, ConvertsInside, Origin, Columns, Rows
<1> QED
  BY <1>4, <1>5, <1>6, <1>7, <1>8 DEF JsonInv

\* jsonConvert: every pixel written is one of the frame, and so is the one it is
\* taken from, unless the frame ends before the table's stretch.
LEMMA ConvertOK ==
    ASSUME JsonInv, ConvertFrame
    PROVE  JsonInv'
<1>1. PICK s \in BoardSizes : s.x * s.y = scanX * scanY /\ jsonConvert(s.x * s.y)
  BY DEF ConvertFrame
<1>2. loaded /\ UNCHANGED <<loaded, table, jsonX, jsonY, present, scanX, scanY>>
  BY DEF ConvertFrame
<1> DEFINE n == s.x * s.y
<1>3. n \in Nat
  BY JsonAssumption
<1>4. inside' \in BOOLEAN
  BY <1>1 DEF jsonConvert, JsonInv, JsonTypeOK
<1>5. JsonTypeOK'
  BY <1>2, <1>4 DEF JsonInv, JsonTypeOK
<1>6. NothingBeforeLoad'
  BY <1>2 DEF NothingBeforeLoad
<1>7. TableFitsScan'
  BY <1>2 DEF JsonInv, TableFitsScan
<1>8. ShownByTable'
  <2> SUFFICES ASSUME present
               PROVE  /\ shown' = Converted(n) /\ jsonX * jsonY =< n
                      /\ Cardinality(DOMAIN shown') = n
    BY <1>2, <1>3 DEF ShownByTable, Converted, Pixels, Source
  <2>1. shown' = Converted(n)
    BY <1>1 DEF jsonConvert
  <2>2. Cardinality(DOMAIN shown') = n
    <3> HIDE DEF n
    <3> QED
      BY <1>3, <2>1, ConvertedSize
  <2> QED
    BY <1>1, <2>1, <2>2, FrameHoldsTable DEF JsonInv
<1>9. ConvertsInside'
  <2>1. Origin' = Origin /\ jsonX' = jsonX /\ jsonY' = jsonY /\ present' = present
    BY <1>2 DEF Origin, Columns, Rows
  <2>2. SUFFICES ASSUME present,
                        Cardinality(DOMAIN shown') >= Origin + jsonX * jsonY \/ Origin = 0
                 PROVE  inside'
    BY <2>1 DEF ConvertsInside
  <2>3. n >= Origin + jsonX * jsonY
    <3>1. shown' = Converted(n)
      BY <1>1, <2>2 DEF jsonConvert
    <3>2. Cardinality(DOMAIN shown') = n
      BY <1>3, <3>1, ConvertedSize
    <3>3. jsonX * jsonY \in Nat /\ jsonX * jsonY =< n
      BY <1>1, <2>2, FrameHoldsTable DEF JsonInv, JsonTypeOK
    <3> QED
      BY <1>3, <2>2, <3>2, <3>3
  <2>4. \A i \in Pixels : i < n /\ Source(i) < n
    <3> SUFFICES ASSUME NEW i \in Pixels  PROVE  i < n /\ Source(i) < n
      OBVIOUS
    <3> DEFINE N == jsonX * jsonY
    <3>1. Source(i) \in Nat /\ Source(i) - Origin \in 0 .. N - 1 /\ Origin \in Nat
      BY <2>2, SourceInStretch, OriginTyped DEF JsonInv
    <3>2. N \in Nat /\ i \in 0 .. N - 1
      BY DEF JsonInv, JsonTypeOK, Pixels
    <3> HIDE DEF n, N
    <3>3. n >= Origin + N
      BY <2>3 DEF N
    <3> QED
      BY <1>3, <3>1, <3>2, <3>3
  <2> QED
    BY <1>1, <2>2, <2>4 DEF jsonConvert
<1> QED
  BY <1>5, <1>6, <1>7, <1>8, <1>9 DEF JsonInv

LEMMA JsonInvNext ==
    ASSUME JsonInv, [JsonNext]_jsonVars
    PROVE  JsonInv'
<1>1. CASE UNCHANGED jsonVars
  BY <1>1
     DEF JsonInv, JsonTypeOK, NothingBeforeLoad, TableFitsScan, ShownByTable, Converted,
         Pixels, Source, ConvertsInside, Origin, Columns, Rows, jsonVars
<1> QED
  BY <1>1, LoadOK, TakeSizesOK, ConvertOK DEF JsonNext

LEMMA JsonInvAlways == JsonSpec => []JsonInv
BY JsonInvInit, JsonInvNext, PTL DEF JsonSpec

\* The table's entries are bytes, and a table in use has one for each pixel of a
\* matrix that the client takes.
THEOREM JsonTypes == JsonSpec => []JsonTypeOK
<1>1. JsonInv => JsonTypeOK
  BY DEF JsonInv
<1> QED
  BY <1>1, JsonInvAlways, PTL

\* jsonConvert leaves the memory of its frames only when the frame ends before the
\* table's stretch does, and never with a table that counts from zero, for every
\* file, every board and every order of answers.
THEOREM JsonConvertsInside == JsonSpec => []ConvertsInside
<1>1. JsonInv => ConvertsInside
  BY DEF JsonInv
<1> QED
  BY <1>1, JsonInvAlways, PTL

\* A map from the first n numbers to themselves that takes no value twice takes
\* each value.
LEMMA InjectiveIsOnto ==
    ASSUME NEW n \in Nat, NEW f \in [0 .. n - 1 -> 0 .. n - 1],
           \A i, j \in 0 .. n - 1 : f[i] = f[j] => i = j
    PROVE  {f[i] : i \in 0 .. n - 1} = 0 .. n - 1
<1> DEFINE S == 0 .. n - 1
<1>1. IsFiniteSet(S)
  <2>1. 0 \in Int /\ n - 1 \in Int
    OBVIOUS
  <2> QED
    BY <2>1, FS_Interval
<1> HIDE DEF S
<1>2. f \in Injection(S, S)
  <2>1. f \in [S -> S] /\ \A i, j \in S : f[i] = f[j] => i = j
    BY DEF S
  <2> QED
    BY <2>1, Fun_IsInj
<1>3. f \in Surjection(S, S)
  BY <1>1, <1>2, FS_Injection
<1>4. \A t \in S : \E s \in S : f[s] = t
  BY <1>3, Fun_SurjectionProperties
<1>5. f \in [S -> S]
  BY DEF S
<1>6. {f[i] : i \in S} = S
  <2>1. ASSUME NEW t \in S  PROVE  t \in {f[i] : i \in S}
    <3>1. PICK s \in S : f[s] = t
      BY <1>4
    <3> QED
      BY <3>1
  <2>2. {f[i] : i \in S} \subseteq S
    BY <1>5
  <2> QED
    BY <2>1, <2>2
<1> QED
  BY <1>6 DEF S

\* What a table without repetitions names is its stretch.
LEMMA SourcesAreStretch ==
    ASSUME JsonInv, present, \A i, j \in DOMAIN table : table[i] = table[j] => i = j
    PROVE  {Source(i) : i \in Pixels} = Stretch
<1> DEFINE N == jsonX * jsonY
           f == [i \in 0 .. N - 1 |-> Source(i) - Origin]
<1>1. N \in Nat /\ Origin \in Nat /\ Pixels = 0 .. N - 1 /\ jsonY \in Nat
  BY OriginTyped DEF JsonInv, JsonTypeOK, Pixels
<1>2. \A i \in Pixels :
        /\ i + 1 \in DOMAIN table
        /\ table[i + 1].x - XStart \in Nat /\ table[i + 1].x - XStart < jsonX
        /\ table[i + 1].y - YStart \in Nat /\ table[i + 1].y - YStart < jsonY
        /\ Source(i) = Origin + ((table[i + 1].x - XStart) * jsonY
                                   + (table[i + 1].y - YStart))
        /\ Source(i) \in Nat /\ Source(i) - Origin \in 0 .. N - 1
  BY SourceInStretch DEF JsonInv
<1>3. \A i \in DOMAIN table : table[i] \in Links
  BY DEF JsonInv, JsonTypeOK
<1>4. XStart \in Nat /\ YStart \in Nat /\ Links \subseteq [x : Nat, y : Nat]
  BY OriginTyped, JsonAssumption DEF JsonInv, Links
<1>5. \A i, j \in Pixels : Source(i) = Source(j) => i = j
  <2> SUFFICES ASSUME NEW i \in Pixels, NEW j \in Pixels, Source(i) = Source(j)
               PROVE  i = j
    OBVIOUS
  <2> DEFINE x1 == table[i + 1].x - XStart  y1 == table[i + 1].y - YStart
             x2 == table[j + 1].x - XStart  y2 == table[j + 1].y - YStart
  <2>1. /\ x1 \in Nat /\ y1 \in Nat /\ x2 \in Nat /\ y2 \in Nat
        /\ y1 < jsonY /\ y2 < jsonY
        /\ Source(i) = Origin + (x1 * jsonY + y1)
        /\ Source(j) = Origin + (x2 * jsonY + y2)
    BY <1>2
  <2> HIDE DEF x1, y1, x2, y2
  <2>2. x1 * jsonY \in Nat /\ x2 * jsonY \in Nat
    BY <1>1, <2>1
  <2>3. x1 * jsonY + y1 = x2 * jsonY + y2
    <3> DEFINE k == x1 * jsonY + y1
               l == x2 * jsonY + y2
    <3>1. k \in Nat /\ l \in Nat
      BY <2>1, <2>2
    <3>2. Origin + k = Origin + l
      BY <2>1
    <3> HIDE DEF k, l
    <3>3. k = l
      BY <1>1, <3>1, <3>2
    <3> QED
      BY <3>3 DEF k, l
  <2>4. x1 = x2 /\ y1 = y2
    BY <1>1, <2>1, <2>3, PositionUnique
  <2>5. table[i + 1] \in [x : Nat, y : Nat] /\ table[j + 1] \in [x : Nat, y : Nat]
    BY <1>2, <1>3, <1>4
  <2>6. table[i + 1].x = table[j + 1].x /\ table[i + 1].y = table[j + 1].y
    BY <1>4, <2>4, <2>5 DEF x1, y1, x2, y2
  <2>7. table[i + 1] = table[j + 1]
    BY <2>5, <2>6
  <2>8. i + 1 = j + 1
    BY <1>2, <2>7
  <2> QED
    BY <1>1, <2>8
<1> HIDE DEF N
<1>6. f \in [0 .. N - 1 -> 0 .. N - 1]
  BY <1>1, <1>2
<1>7. \A i, j \in 0 .. N - 1 : f[i] = f[j] => i = j
  BY <1>1, <1>2, <1>5
<1>8. {f[i] : i \in 0 .. N - 1} = 0 .. N - 1
  <2> HIDE DEF f
  <2> QED
    BY <1>1, <1>6, <1>7, InjectiveIsOnto
<1>9. Stretch = Origin .. Origin + N - 1
  BY DEF Stretch, N
<1>10. ASSUME NEW p \in Stretch  PROVE p \in {Source(i) : i \in Pixels}
  <2>1. p - Origin \in 0 .. N - 1 /\ p \in Int
    BY <1>1, <1>9
  <2>2. PICK i \in 0 .. N - 1 : f[i] = p - Origin
    BY <1>8, <2>1
  <2>3. Source(i) = p
    BY <1>1, <1>2, <2>1, <2>2
  <2> QED
    BY <1>1, <2>3
<1>11. ASSUME NEW i \in Pixels  PROVE Source(i) \in Stretch
  BY <1>1, <1>2, <1>9
<1> QED
  BY <1>10, <1>11

LEMMA ShowsAll ==
    ASSUME JsonInv
    PROVE  AllPixelsShown
<1> SUFFICES ASSUME present, shown # <<>>,
                    \A i, j \in DOMAIN table : table[i] = table[j] => i = j
             PROVE  {shown[i] : i \in DOMAIN shown} \ {Stray} = Stretch \cap DOMAIN shown
  BY DEF AllPixelsShown
<1>1. PICK n \in Nat : shown = Converted(n) /\ jsonX * jsonY =< n
  BY DEF JsonInv, ShownByTable
<1>2. shown = [i \in 0 .. n - 1 |-> IF i \in Pixels /\ Source(i) < n THEN Source(i) ELSE Stray]
  BY <1>1 DEF Converted
<1>3. {Source(i) : i \in Pixels} = Stretch
  BY SourcesAreStretch
<1>4. \A i \in Pixels : i \in 0 .. n - 1 /\ Source(i) \in Nat
  <2>1. \A i \in Pixels : Source(i) \in Nat
    BY SourceInStretch DEF JsonInv
  <2>2. jsonX * jsonY \in Nat
    BY DEF JsonInv, JsonTypeOK
  <2>3. \A i \in Pixels : i \in 0 .. n - 1
    BY <1>1, <2>2 DEF Pixels
  <2> QED
    BY <2>1, <2>3
<1>5. Stray \notin Nat
  BY JsonAssumption
<1>6. DOMAIN shown = 0 .. n - 1
  BY <1>2
<1>7. ASSUME NEW i \in DOMAIN shown, shown[i] # Stray
      PROVE  shown[i] \in Stretch \cap DOMAIN shown
  <2>1. i \in Pixels /\ Source(i) < n /\ shown[i] = Source(i)
    BY <1>2, <1>6, <1>7
  <2>2. Source(i) \in 0 .. n - 1
    BY <1>4, <2>1
  <2> QED
    BY <1>3, <1>6, <2>1, <2>2
<1>8. ASSUME NEW p \in Stretch, p \in DOMAIN shown
      PROVE  p # Stray /\ \E i \in DOMAIN shown : shown[i] = p
  <2>1. PICK i \in Pixels : p = Source(i)
    BY <1>3
  <2>2. i \in DOMAIN shown /\ Source(i) < n
    BY <1>4, <1>6, <1>8, <2>1
  <2> QED
    BY <1>2, <1>4, <1>5, <2>1, <2>2
<1> QED
  BY <1>7, <1>8

\* With a table that names every point once jsonConvert shows the clients exactly
\* the pixels of the frame that lie in the table's stretch, whatever the sizes of
\* the table and of the matrix and wherever the table's coordinates begin.
THEOREM JsonAllPixelsShown == JsonSpec => []AllPixelsShown
BY ShowsAll, JsonInvAlways, PTL
=============================================================================
