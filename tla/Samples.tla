------------------------------ MODULE Samples ------------------------------
(***************************************************************************)
(* From the bytes of a tile in a file to its samples.  Bytes and slices    *)
(* count from 0 as in the code; a sample has two bytes where the code's    *)
(* have four, and a byte has Base values.  What the file means is stated   *)
(* as the TIFF format defines it, and what the code makes of it apart.     *)
(***************************************************************************)
EXTENDS Integers, Sequences, FiniteSets

CONSTANTS
    Base,            \* the number of values of a byte
    Files,           \* file |-> its size, that of its tiles, and its format
    Word(_, _),      \* of a file and a pixel: the sample, as a word
    NativeOrder,     \* the byte order of the machine
    Missing,         \* a tag that is not in the file
    NoSample         \* an error instead of samples

ASSUME BaseAssumption == Base \in Nat \ {0}
ASSUME FilesAssumption ==
    \A f \in DOMAIN Files :
        /\ Files[f].width \in Nat \ {0} /\ Files[f].height \in Nat \ {0}
        /\ Files[f].tileWidth \in Nat \ {0} /\ Files[f].tileLength \in Nat \ {0}

Words == Base * Base

Pixel(x, y) == [x |-> x, y |-> y]
Across(f) == (Files[f].width + Files[f].tileWidth - 1) \div Files[f].tileWidth
Down(f) == (Files[f].height + Files[f].tileLength - 1) \div Files[f].tileLength
TileNums(f) == 0..(Across(f) * Down(f) - 1)
TileSize(f) == Files[f].tileWidth * Files[f].tileLength

\* The pixel at place i of tile n.
PixelAt(f, n, i) ==
    Pixel((n % Across(f)) * Files[f].tileWidth + (i % Files[f].tileWidth),
          (n \div Across(f)) * Files[f].tileLength + (i \div Files[f].tileWidth))

ASSUME WordAssumption ==
    \A f \in DOMAIN Files : \A n \in TileNums(f), i \in 0..(TileSize(f) - 1) :
        Word(f, PixelAt(f, n, i)) \in 0..(Words - 1)

-----------------------------------------------------------------------------
(* Tags: sizes are required, the format has defaults *)

Tag(value, default) == IF value = Missing THEN default ELSE value
bitsPerSample(f) == Tag(Files[f].bitsPerSample, 32)
sampleFormat(f) == Tag(Files[f].sampleFormat, "float")
compression(f) == Tag(Files[f].compression, "none")
predictor(f) == Tag(Files[f].predictor, "none")

\* Not here: floats of a sparse file with the floating-point predictor, of which
\* the code takes the first of no samples.
ASSUME PredictorAssumption ==
    \A f \in DOMAIN Files :
        /\ predictor(f) \in {"none", "horizontal", "floating"}
        /\ Files[f].sparse \in BOOLEAN
        /\ ~(/\ Files[f].sparse /\ compression(f) = "none" /\ predictor(f) = "floating"
             /\ sampleFormat(f) = "float" /\ bitsPerSample(f) = 32)

-----------------------------------------------------------------------------
(* What a writer stores *)

ByteOf(w, b, order) == IF (b = 0) = (order = "big") THEN w \div Base ELSE w % Base

RowStart(f, i) == i - (i % Files[f].tileWidth)
Plain(f, n) == [i \in 0..(TileSize(f) - 1) |-> Word(f, PixelAt(f, n, i))]
Differences(f, n) ==
    [i \in 0..(TileSize(f) - 1) |->
        IF i = RowStart(f, i) THEN Plain(f, n)[i]
        ELSE (Plain(f, n)[i] - Plain(f, n)[i - 1]) % Words]

ToBytes(words, size, order) ==
    [k \in 0..(2 * size - 1) |-> ByteOf(words[k \div 2], k % 2, order)]

\* The floating-point predictor: in each row first the high bytes, then the low
\* ones, and of these bytes the differences.
Planes(f, n) ==
    LET row == 2 * Files[f].tileWidth
        plane == [k \in 0..(2 * TileSize(f) - 1) |->
                     LET x == (k % row) % Files[f].tileWidth
                         b == (k % row) \div Files[f].tileWidth
                     IN ByteOf(Plain(f, n)[(k \div row) * Files[f].tileWidth + x], b, "big")]
    IN [k \in DOMAIN plane |->
           IF k % row = 0 THEN plane[k] ELSE (plane[k] - plane[k - 1]) % Base]

\* The bytes before compression; a sparse file stores none.
Stored(f, n) ==
    IF Files[f].sparse THEN << >>
    ELSE CASE predictor(f) = "none" -> ToBytes(Plain(f, n), TileSize(f), Files[f].byteOrder)
           [] predictor(f) = "horizontal" -> ToBytes(Differences(f, n), TileSize(f), Files[f].byteOrder)
           [] OTHER -> Planes(f, n)

Units == {"metres", "tenths"}
Samples == [unit : Units, word : 0..(Words - 1)]

\* The sample a file has at a pixel: integers count tenths of a metre.
FileSample(f, q) == [unit |-> IF sampleFormat(f) = "int" THEN "tenths" ELSE "metres",
                     word |-> Word(f, q)]

\* The error is none of the bytes, tiles and samples.
ASSUME NoSampleAssumption ==
    /\ \A f \in DOMAIN Files :
          /\ NoSample \notin [0..(2 * TileSize(f) - 1) -> 0..(Base - 1)]
          /\ NoSample \notin [unit : Units, words : [0..(TileSize(f) - 1) -> 0..(Words - 1)]]
    /\ NoSample \notin Samples

-----------------------------------------------------------------------------
(* getTileData: what the code makes of the bytes *)

\* zlib finds no header in no bytes.
fetchAndDecompressTile(f, n) ==
    CASE compression(f) = "none" -> Stored(f, n)
      [] compression(f) = "deflate" /\ ~Files[f].sparse -> Stored(f, n)
      [] OTHER -> NoSample

Length(slice) == Cardinality(DOMAIN slice)

\* decodeFloat32 and decodeInt32.
decode(bytes, order) ==
    [i \in 0..(Length(bytes) \div 2 - 1) |->
        IF order = "big" THEN bytes[2 * i] * Base + bytes[2 * i + 1]
        ELSE bytes[2 * i + 1] * Base + bytes[2 * i]]

\* Rows that are there in full are undone.
InRow(f, data, i) == RowStart(f, i) + Files[f].tileWidth <= Length(data)

\* MUTANT of undoHorizontalPredictionForInt32: the sum goes on into the next row.
undoAcrossRows(f, data) ==
    LET sum[i \in DOMAIN data] == IF i = 0 THEN data[i] ELSE (data[i] + sum[i - 1]) % Words
    IN sum

\* A row's running sum.
undoHorizontalPredictionForInt32(f, data) ==
    LET sum[i \in DOMAIN data] == IF i = RowStart(f, i) \/ ~InRow(f, data, i) THEN data[i]
                                  ELSE (data[i] + sum[i - 1]) % Words
    IN sum

\* Byte by byte, the row's first sample is added to each of the others.
undoHorizontalPredictionForFloat32(f, data) ==
    [i \in DOMAIN data |->
        LET first == data[RowStart(f, i)] IN
        IF i = RowStart(f, i) \/ ~InRow(f, data, i) THEN data[i]
        ELSE ((data[i] \div Base + first \div Base) % Base) * Base + ((data[i] + first) % Base)]

\* libtiff undoes compression and predictor and returns native words; they are
\* then taken for floats in the byte order of the file.
getLZWTileData(f, n) ==
    IF Files[f].sparse THEN NoSample
    ELSE [unit |-> "metres",
          words |-> decode(ToBytes(Plain(f, n), TileSize(f), NativeOrder), Files[f].byteOrder)]

Process(f, bytes) ==
    LET words == decode(bytes, Files[f].byteOrder) IN
    IF bytes = NoSample \/ bitsPerSample(f) # 32 THEN NoSample
    ELSE CASE sampleFormat(f) = "float" ->
                [unit |-> "metres",
                 words |-> CASE predictor(f) = "horizontal" -> undoHorizontalPredictionForInt32(f, words)
                             [] predictor(f) = "floating" -> undoHorizontalPredictionForFloat32(f, words)
                             [] OTHER -> words]
           [] sampleFormat(f) = "int" ->
                [unit |-> "tenths",
                 words |-> IF predictor(f) = "horizontal" THEN undoHorizontalPredictionForInt32(f, words)
                           ELSE words]
           [] OTHER -> NoSample

TileData(f, n) == IF compression(f) = "LZW" THEN getLZWTileData(f, n)
                  ELSE Process(f, fetchAndDecompressTile(f, n))

\* Every tile of every file, decoded.
Tiles == [f \in DOMAIN Files |-> [n \in TileNums(f) |-> TileData(f, n)]]

\* loc, from the tile on.
SampleAt(f, n, i) ==
    IF Tiles[f][n] = NoSample \/ i \notin DOMAIN Tiles[f][n].words THEN NoSample
    ELSE [unit |-> Tiles[f][n].unit, word |-> Tiles[f][n].words[i]]

-----------------------------------------------------------------------------

\* Formats the code reads as something they are not: bytes differenced by the
\* floating-point predictor, and with LZW whatever is no float of 32 bits in the
\* byte order of the machine.
Misread(f) ==
    \/ compression(f) # "LZW" /\ predictor(f) = "floating"
    \/ compression(f) = "LZW" /\ (\/ sampleFormat(f) # "float" \/ bitsPerSample(f) # 32
                                  \/ Files[f].byteOrder # NativeOrder)

\* Formats it reads.
Supported(f) ==
    /\ compression(f) \in {"none", "deflate", "LZW"} /\ ~Files[f].sparse
    /\ bitsPerSample(f) = 32 /\ sampleFormat(f) \in {"float", "int"}
=============================================================================
