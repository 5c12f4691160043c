------------------------------ MODULE JsonTable ------------------------------
(***************************************************************************)
(* The client's conversion table: loadJson, which reads it from a file,    *)
(* and jsonConvert, which rearranges every frame by it (application.cpp).  *)
(* A pixel of a received frame is represented by its position.             *)
(***************************************************************************)
EXTENDS Naturals, Sequences, FiniteSets

CONSTANTS
    Files,          \* conversion files
    BoardSizes,     \* matrix sizes of the board
    MAX_X, MAX_Y,   \* the largest matrix that the client takes
    UINT8,          \* 256: PixelLink keeps coordinates as uint8_t
    Missing,        \* a size that the file does not give
    Stray           \* what a pixel shows that is not one of the received frame

ASSUME JsonAssumption ==
    /\ MAX_X \in Nat /\ MAX_Y \in Nat /\ UINT8 \in Nat \ {0}
    /\ Missing \notin Nat /\ Stray \notin Nat
    /\ \A f \in Files :
         /\ f.x \in Nat \cup {Missing} /\ f.y \in Nat \cup {Missing}
         /\ f.pcm \in Seq([x : Nat, y : Nat])
         /\ f.x # Missing /\ f.y # Missing => Len(f.pcm) >= f.x * f.y
    /\ BoardSizes \subseteq [x : Nat \ {0}, y : Nat \ {0}]

VARIABLES
    loaded,         \* loadJson has returned 0
    table,          \* m_jsonTable.m_table
    jsonX, jsonY,   \* m_jsonTable.m_xSize, m_ySize
    present,        \* m_jsonPresent
    scanX, scanY,   \* m_scanSettings.m_sizeX, m_sizeY
    shown,          \* the frame pushed last: what each pixel of it shows
    inside          \* the last conversion stayed in the memory of its frames

jsonVars == <<loaded, table, jsonX, jsonY, present, scanX, scanY, shown, inside>>

Links == [x : 0 .. (UINT8 - 1), y : 0 .. (UINT8 - 1)]

JsonTypeOK ==
    /\ loaded \in BOOLEAN /\ present \in BOOLEAN /\ inside \in BOOLEAN
    /\ table \in Seq(Links)
    /\ jsonX \in Nat /\ jsonY \in Nat /\ scanX \in Nat /\ scanY \in Nat
    /\ present => jsonX =< MAX_X /\ jsonY =< MAX_Y /\ Len(table) = jsonX * jsonY

JsonInit ==
    /\ loaded = FALSE /\ present = FALSE /\ inside = TRUE
    /\ table = <<>> /\ jsonX = 0 /\ jsonY = 0 /\ scanX = 0 /\ scanY = 0
    /\ shown = <<>>

-----------------------------------------------------------------------------
(* loadJson.                                                               *)

Sized(file) ==
    /\ file.x # Missing /\ file.y # Missing
    /\ file.x =< MAX_X /\ file.y =< MAX_Y

\* Mutant of Entries: coordinates keep their width.
WideEntries(file) == SubSeq(file.pcm, 1, file.x * file.y)

\* The first x * y entries of PCM; coordinates are cut to a byte.
Entries(file) ==
    [i \in 1 .. (file.x * file.y) |->
        [x |-> file.pcm[i].x % UINT8, y |-> file.pcm[i].y % UINT8]]

\* xEnd - xStart + 1 = n, for the coordinates s of one direction.  The search for
\* the first starts from the largest that the client takes.
Spans(s, n, most) ==
    \E first \in s \cup {most}, last \in s \cup {0} :
        /\ \A c \in s \cup {most} : first =< c
        /\ \A c \in s : c =< last
        /\ last + 1 = first + n

Columns(entries) == {entries[i].x : i \in DOMAIN entries}
Rows(entries)    == {entries[i].y : i \in DOMAIN entries}

Fits(entries, x, y) ==
    Spans(Columns(entries), x, MAX_X) /\ Spans(Rows(entries), y, MAX_Y)

\* A file without sizes, or with too large ones, is tried again for ever; one
\* whose coordinates do not fit its sizes is loaded and not used.
loadJson ==
    /\ ~loaded
    /\ \E file \in Files :
         /\ Sized(file)
         /\ table' = Entries(file) /\ jsonX' = file.x /\ jsonY' = file.y
         /\ present' = Fits(Entries(file), file.x, file.y)
    /\ loaded' = TRUE
    /\ UNCHANGED <<scanX, scanY, shown, inside>>

-----------------------------------------------------------------------------
(* The answers of the board that matter here.                              *)

\* Mutant of Scanned: the sizes of the board are kept.
ScannedByBoard(s) == s

\* The sizes taken from a start answer: those of the table if one is larger.
Scanned(s) ==
    IF present /\ (jsonX > s.x \/ jsonY > s.y) THEN [x |-> jsonX, y |-> jsonY] ELSE s

TakeSizes ==
    /\ loaded
    /\ \E s \in BoardSizes : scanX' = Scanned(s).x /\ scanY' = Scanned(s).y
    /\ UNCHANGED <<loaded, table, jsonX, jsonY, present, shown, inside>>

\* Mutant of Source: the wrong size is the length of a line.
SourceAcross(i) == table[i + 1].x * jsonX + table[i + 1].y

\* The position from which jsonConvert takes the pixel it puts at i.
Source(i) == table[i + 1].x * jsonY + table[i + 1].y

\* The positions that jsonConvert writes.
Pixels == 0 .. (jsonX * jsonY - 1)

\* What a frame of n pixels shows when it is converted.  One larger than the table
\* keeps what Frame::init left in the rest: zeros in a quarter of it, as memset
\* counts bytes, and else whatever memory held.
Converted(n) ==
    [i \in 0 .. (n - 1) |-> IF i \in Pixels /\ Source(i) < n THEN Source(i) ELSE Stray]

jsonConvert(n) ==
    IF present
    THEN /\ shown' = Converted(n)
         /\ inside' = (\A i \in Pixels : i < n /\ Source(i) < n)
    ELSE /\ shown' = [i \in 0 .. (n - 1) |-> i]
         /\ inside' = TRUE

\* frameParser takes a frame that has as many pixels as announced; the board
\* sends no empty one.
ConvertFrame ==
    /\ loaded
    /\ \E s \in BoardSizes :
         /\ s.x * s.y = scanX * scanY
         /\ jsonConvert(s.x * s.y)
    /\ UNCHANGED <<loaded, table, jsonX, jsonY, present, scanX, scanY>>

JsonNext == loadJson \/ TakeSizes \/ ConvertFrame

JsonSpec == JsonInit /\ [][JsonNext]_jsonVars

-----------------------------------------------------------------------------
(* Properties.                                                             *)

\* The smallest coordinate of one direction as loadJson finds it (m_xStart,
\* m_yStart).
Start(s, most) == CHOOSE first \in s \cup {most} : \A c \in s \cup {most} : first =< c

\* The position of the table's first point, in lines of m_ySize.
Origin == Start(Columns(table), MAX_X) * jsonY + Start(Rows(table), MAX_Y)

\* The positions that a table without repetitions names: as many as it has
\* entries, and without a gap.
Stretch == Origin .. (Origin + jsonX * jsonY - 1)

\* A conversion reads outside its frame only if the frame ends before the
\* table's stretch does.  Nothing bounds the coordinates where they are used: for
\* a table that counts from zero the comparison of the extents and the sizes taken
\* from the table see to it, for every frame that is accepted.  The default file
\* counts its columns from 12, and a frame of its own size is too short for it.
ConvertsInside ==
    /\ present /\ Cardinality(DOMAIN shown) >= Origin + jsonX * jsonY => inside
    /\ present /\ Origin = 0 => inside

\* A table that names every point once shows the clients exactly those pixels of
\* the frame that lie in its stretch: all of them if it counts from zero and the
\* board scans as many lines in each direction as the table has.
AllPixelsShown ==
    present /\ shown # <<>> /\ (\A i, j \in DOMAIN table : table[i] = table[j] => i = j)
        => {shown[i] : i \in DOMAIN shown} \ {Stray} = Stretch \cap DOMAIN shown

\* "json file for frame conversion, in case you have none-standart matrix.
\* Default: frame.json" (README): the default file converts frames, without
\* reading what is no part of them.
ConversionStaysInside == inside

-----------------------------------------------------------------------------
(* The inductive invariant of the safety proofs.                           *)

\* Before the file is loaded the board has not been asked for anything.
NothingBeforeLoad ==
    ~loaded => scanX = 0 /\ scanY = 0 /\ shown = <<>> /\ inside /\ ~present

\* A table is used only if its coordinates fit its sizes, and never with a scan
\* of fewer lines in either direction; before a scan is announced there is none.
TableFitsScan ==
    present =>
        /\ Fits(table, jsonX, jsonY)
        /\ (scanX = 0 /\ scanY = 0) \/ (jsonX =< scanX /\ jsonY =< scanY)

\* The frame shown was converted by the table in use and had room for it.
ShownByTable ==
    present /\ shown # <<>> =>
        LET n == Cardinality(DOMAIN shown)
        IN  n \in Nat /\ shown = Converted(n) /\ jsonX * jsonY =< n

JsonInv ==
    /\ JsonTypeOK
    /\ NothingBeforeLoad /\ TableFitsScan /\ ShownByTable
    /\ ConvertsInside
=============================================================================
