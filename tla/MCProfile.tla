----------------------------- MODULE MCProfile ------------------------------
(***************************************************************************)
(* The instance of Profile for TLC.                                        *)
(***************************************************************************)
EXTENDS Handlers, TLC

Size(w, h, tw, tl) == [width |-> w, height |-> h, tileWidth |-> tw, tileLength |-> tl]
Format(order, compr, pred, format, bits, sparse) ==
    [byteOrder |-> order, compression |-> compr, predictor |-> pred,
     sampleFormat |-> format, bitsPerSample |-> bits, sparse |-> sparse]

\* The last tiles of a row and of a column stick out.
f1Data == Size(5, 3, 2, 2) @@ Format("little", "deflate", "horizontal", "float", 32, FALSE)
f2Data == Size(3, 4, 3, 1) @@ Format("big", "none", Missing, "int", Missing, FALSE)

\* One small file of each format, numbered from 3 on, but for sparse ones with
\* the floating-point predictor, of which PredictorAssumption leaves some out.
Pick(values, n) == values[(n % Len(values)) + 1]
NthFormat(n) == Format(Pick(<<"little", "big">>, n),
                       Pick(<<"none", "deflate", "LZW", "jpeg", Missing>>, n \div 2),
                       Pick(<<"none", "horizontal", "floating", Missing>>, n \div 10),
                       Pick(<<"float", "int", "uint", Missing>>, n \div 40),
                       Pick(<<32, 16, Missing>>, n \div 160),
                       n >= 480 /\ Pick(<<1, 2, 3, 4>>, n \div 10) # 3)

f1 == 1
f2 == 2
SomeFiles == [f \in 1..962 |-> CASE f = f1 -> f1Data [] f = f2 -> f2Data
                                 [] OTHER -> Size(3, 2, 2, 2) @@ NthFormat(f - 3)]

\* All samples of a file differ, and those of the two files do.
SomeWord(f, q) == (IF f = f1 THEN 1 ELSE 30) + 7 * q.y + q.x

Rect(x, y, w, h) == [x |-> x, y |-> y, width |-> w, height |-> h]
Source(f, src, dst) == [file |-> f, src |-> src, dst |-> dst]

\* Side by side with one column that no source has, overlapping, coarser and
\* finer than their sources, and with a source that ends before its rectangle,
\* listed after one whose rectangle is empty.
SomeMosaics ==
    {[width |-> 5, height |-> 3,
      sources |-> <<Source(f1, Rect(3, 0, 2, 3), Rect(0, 0, 2, 3)),
                    Source(f2, Rect(1, 1, 2, 3), Rect(3, 0, 2, 3))>>],
     [width |-> 5, height |-> 3,
      sources |-> <<Source(f2, Rect(1, 1, 2, 2), Rect(1, 0, 3, 3)),
                    Source(f1, Rect(0, 0, 5, 3), Rect(0, 0, 5, 2))>>],
     [width |-> 3, height |-> 3,
      sources |-> <<Source(f2, Rect(0, 0, 2, 2), Rect(0, 0, 3, 0)),
                    Source(f1, Rect(4, 1, 3, 3), Rect(0, 0, 3, 3))>>]}

\* The corners, middles of pixels, and two that are outside; paths may also have
\* what is no pair of numbers.
SomePoints == {Point(y, x) : y \in {0, 3, 6}, x \in {0, 5, 10}}
                \cup {Point(-1, 4), Point(2, 11)}
SomePaths == UNION {[1..n -> SomePoints \cup {None}] : n \in 0..3}

\* Of the files of each format only the middles of the pixels.
OfAnyFormat(r) == r.kind = "tiff" /\ r.file \notin {f1, f2}
PathsOf(r) == IF OfAnyFormat(r) THEN {} ELSE SomePaths
PointsOf(r) == IF OfAnyFormat(r) THEN {Point(2 * y, 2 * x) : y \in 0..1, x \in 0..2}
               ELSE {Point(y, x) : y \in -1..7, x \in -1..11}
=============================================================================
