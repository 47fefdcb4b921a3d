------------------------------ MODULE ApiProofs ------------------------------
(***************************************************************************)
(* Proofs about Handlers, and about Profile, Raster and Samples below it:  *)
(* a request is answered with the samples the files have, for every raster *)
(* of every size and format, every point and every path.                   *)
(***************************************************************************)
EXTENDS Handlers, FiniteSetTheorems, WellFoundedInduction, TLAPS

-----------------------------------------------------------------------------
(* Arithmetic *)

\* What division leaves is less than the divisor.
LEMMA DivMod ==
    ASSUME NEW a \in Nat, NEW b \in Nat \ {0}
    PROVE  /\ (a \div b) \in Nat /\ (a % b) \in 0..(b - 1)
           /\ a = b * (a \div b) + (a % b)
  OBVIOUS

\* Quotient and remainder are determined by that.
LEMMA DivUnique ==
    ASSUME NEW a \in Nat, NEW b \in Nat \ {0}, NEW q \in Nat, NEW r \in 0..(b - 1), a = b * q + r
    PROVE  (a \div b) = q /\ (a % b) = r
  OBVIOUS

\* Products keep the order.
LEMMA TimesMono ==
    ASSUME NEW a \in Nat, NEW b \in Nat, NEW c \in Nat, a <= b
    PROVE  c * a <= c * b /\ a * c <= b * c /\ c * a \in Nat
  OBVIOUS

\* Column x and row y of a table w wide and h high.
InTable(w, h, x, y) == w \in Nat \ {0} /\ h \in Nat /\ x \in 0..(w - 1) /\ y \in 0..(h - 1)

\* A place in a table of rows: below its size, if row and column are.
LEMMA TablePlace ==
    ASSUME NEW w, NEW h, NEW x, NEW y, InTable(w, h, x, y)
    PROVE  /\ w * y + x \in 0..(w * h - 1)
           /\ ((w * y + x) \div w) = y /\ ((w * y + x) % w) = x
  <1>0. w \in Nat \ {0} /\ h \in Nat /\ x \in 0..(w - 1) /\ y \in 0..(h - 1)
    BY DEF InTable
  <1>1. w * y \in Nat /\ w * (y + 1) <= w * h
    BY <1>0, TimesMono
  <1>2. w * (y + 1) = w * y + w
    BY <1>0
  <1>3. w * y + x \in 0..(w * h - 1)
    <2>1. w * h \in Nat
      BY <1>0
    <2> QED BY <1>0, <1>1, <1>2, <2>1
  <1> QED
    BY <1>0, <1>1, <1>3, DivUnique

\* And the row and the column of a place.
LEMMA TableRow ==
    ASSUME NEW w \in Nat \ {0}, NEW h \in Nat, NEW k \in 0..(w * h - 1)
    PROVE  /\ (k \div w) \in 0..(h - 1) /\ (k % w) \in 0..(w - 1)
           /\ k = w * (k \div w) + (k % w)
           /\ w * (k \div w) + w <= w * h
  <1> DEFINE q == k \div w
  <1>0. w * h \in Nat /\ k \in Nat /\ k < w * h
    OBVIOUS
  <1>1. /\ q \in Nat /\ (k % w) \in 0..(w - 1) /\ k = w * q + (k % w)
    BY <1>0, DivMod
  <1>2. q < h
    <2>1. ASSUME h <= q PROVE FALSE
      <3>1. w * h <= w * q
        BY <1>1, <2>1, TimesMono
      <3> QED BY <1>0, <1>1, <3>1
    <2> QED BY <2>1, <1>1
  <1>3. w * (q + 1) <= w * h
    BY <1>1, <1>2, TimesMono
  <1>4. w * (q + 1) = w * q + w
    BY <1>1
  <1> QED
    BY <1>1, <1>2, <1>3, <1>4

\* A set of natural numbers has a least.
LEMMA LeastNat ==
    ASSUME NEW S \in SUBSET Nat, S # {}
    PROVE  \E m \in S : \A k \in S : m <= k
  <1>1. PICK R : R = OpToRel(<, Nat)
    OBVIOUS
  <1>2. R = {ss \in Nat \X Nat : ss[1] < ss[2]}
    BY <1>1 DEF OpToRel
  <1>3. IsWellFoundedOn(R, Nat)
    BY <1>1, NatLessThanWellFounded
  <1>4. PICK m \in S : \A k \in S : <<k, m>> \notin R
    BY <1>3, WFMin
  <1>5. ASSUME NEW k \in S PROVE m <= k
    <2>1. <<k, m>> \in Nat \X Nat /\ <<k, m>> \notin R
      BY <1>4
    <2>2. ~(<<k, m>>[1] < <<k, m>>[2])
      BY <2>1, <1>2
    <2> QED BY <2>2
  <1> QED
    BY <1>5

-----------------------------------------------------------------------------
(* Samples: pixels, tiles and the places in them *)

\* As many parts of b as a needs.
LEMMA Parted ==
    ASSUME NEW a \in Nat \ {0}, NEW b \in Nat \ {0},
           NEW c, c = ((a + b - 1) \div b)
    PROVE  c \in Nat \ {0} /\ \A x \in 0..(a - 1) : (x \div b) \in 0..(c - 1)
  <1>1. /\ c \in Nat
        /\ ((a + b - 1) % b) \in 0..(b - 1)
        /\ a + b - 1 = b * c + ((a + b - 1) % b)
    <2>1. a + b - 1 \in Nat
      OBVIOUS
    <2> QED BY <2>1, DivMod
  <1>2. b * c \in Nat /\ a <= b * c
    BY <1>1
  <1>3. ASSUME NEW x \in 0..(a - 1) PROVE (x \div b) \in 0..(c - 1)
    <2>1. x \in Nat /\ x < a
      OBVIOUS
    <2>2. /\ (x \div b) \in Nat /\ (x % b) \in Nat
          /\ x = b * (x \div b) + (x % b)
      BY <2>1, DivMod
    <2>3. ASSUME c <= (x \div b) PROVE FALSE
      <3>1. b * c <= b * (x \div b)
        BY <1>1, <2>2, <2>3, TimesMono
      <3>2. b * (x \div b) \in Nat
        BY <2>2
      <3> QED BY <3>1, <3>2, <2>1, <2>2, <1>2
    <2> QED BY <2>2, <2>3, <1>1
  <1>4. 0 \in 0..(a - 1)
    OBVIOUS
  <1>5. (0 \div b) \in 0..(c - 1)
    BY <1>3, <1>4
  <1> QED
    BY <1>1, <1>3, <1>5

\* The sizes of a file.
LEMMA Sizes ==
    ASSUME NEW f \in DOMAIN Files
    PROVE  /\ Files[f].width \in Nat \ {0} /\ Files[f].height \in Nat \ {0}
           /\ Files[f].tileWidth \in Nat \ {0} /\ Files[f].tileLength \in Nat \ {0}
           /\ Across(f) \in Nat \ {0} /\ Down(f) \in Nat \ {0}
           /\ TileSize(f) \in Nat \ {0}
           /\ \A x \in 0..(Files[f].width - 1) : (x \div Files[f].tileWidth) \in 0..(Across(f) - 1)
           /\ \A y \in 0..(Files[f].height - 1) : (y \div Files[f].tileLength) \in 0..(Down(f) - 1)
  <1>1. /\ Files[f].width \in Nat \ {0} /\ Files[f].height \in Nat \ {0}
        /\ Files[f].tileWidth \in Nat \ {0} /\ Files[f].tileLength \in Nat \ {0}
    BY FilesAssumption
  <1>2. /\ Across(f) \in Nat \ {0}
        /\ \A x \in 0..(Files[f].width - 1) : (x \div Files[f].tileWidth) \in 0..(Across(f) - 1)
    BY <1>1, Parted DEF Across
  <1>3. /\ Down(f) \in Nat \ {0}
        /\ \A y \in 0..(Files[f].height - 1) : (y \div Files[f].tileLength) \in 0..(Down(f) - 1)
    BY <1>1, Parted DEF Down
  <1>4. TileSize(f) \in Nat \ {0}
    BY <1>1 DEF TileSize
  <1> QED
    BY <1>1, <1>2, <1>3, <1>4

\* A pixel of the file is at its index in the tile of its number.
LEMMA TilePlace ==
    ASSUME NEW f \in DOMAIN Files, NEW x \in 0..(Files[f].width - 1), NEW y \in 0..(Files[f].height - 1)
    PROVE  /\ TileNum(f, Pixel(x, y)) \in TileNums(f)
           /\ Index(f, Pixel(x, y)) \in 0..(TileSize(f) - 1)
           /\ PixelAt(f, TileNum(f, Pixel(x, y)), Index(f, Pixel(x, y))) = Pixel(x, y)
  <1> DEFINE w == Files[f].tileWidth
             h == Files[f].tileLength
             n == TileNum(f, Pixel(x, y))
             i == Index(f, Pixel(x, y))
  <1>0. /\ x \in Nat /\ y \in Nat /\ w \in Nat \ {0} /\ h \in Nat \ {0}
        /\ Across(f) \in Nat \ {0} /\ Down(f) \in Nat \ {0}
        /\ (x \div w) \in 0..(Across(f) - 1) /\ (y \div h) \in 0..(Down(f) - 1)
    BY Sizes
  <1>1. n = Across(f) * (y \div h) + (x \div w)
    BY DEF TileNum, Pixel
  <1>2. n \in TileNums(f) /\ (n \div Across(f)) = (y \div h) /\ (n % Across(f)) = (x \div w)
    <2>1. /\ Across(f) * (y \div h) + (x \div w) \in 0..(Across(f) * Down(f) - 1)
          /\ ((Across(f) * (y \div h) + (x \div w)) \div Across(f)) = (y \div h)
          /\ ((Across(f) * (y \div h) + (x \div w)) % Across(f)) = (x \div w)
      <3>1. InTable(Across(f), Down(f), x \div w, y \div h)
        BY <1>0 DEF InTable
      <3> QED BY <3>1, TablePlace
    <2> QED BY <2>1, <1>1 DEF TileNums
  <1>3. /\ (x % w) \in 0..(w - 1) /\ x = w * (x \div w) + (x % w)
        /\ (y % h) \in 0..(h - 1) /\ y = h * (y \div h) + (y % h)
    BY <1>0, DivMod
  <1>4. i = w * (y % h) + (x % w)
    <2>1. Pixel(x, y).x = x /\ Pixel(x, y).y = y
      BY DEF Pixel
    <2>2. i = (y % h) * w + (x % w)
      BY ONLY <2>1 DEF Index
    <2>3. (y % h) \in 0..(h - 1) /\ h \in Nat \ {0} /\ w \in Nat \ {0}
      BY ONLY <1>0, <1>3
    <2>4. \A a \in 0..(h - 1) : \A b \in Nat : a * b = b * a
      OBVIOUS
    <2>5. (y % h) * w = w * (y % h)
      BY ONLY <2>3, <2>4
    <2> QED
      BY ONLY <2>2, <2>5
  <1>5. i \in 0..(TileSize(f) - 1) /\ (i \div w) = (y % h) /\ (i % w) = (x % w)
    <2>1. /\ w * (y % h) + (x % w) \in 0..(w * h - 1)
          /\ ((w * (y % h) + (x % w)) \div w) = (y % h)
          /\ ((w * (y % h) + (x % w)) % w) = (x % w)
      <3>1. InTable(w, h, x % w, y % h)
        BY <1>0, <1>3 DEF InTable
      <3> QED BY <3>1, TablePlace
    <2> QED BY <2>1, <1>4 DEF TileSize
  <1>6. PixelAt(f, n, i) = Pixel((x \div w) * w + (x % w), (y \div h) * h + (y % h))
    BY <1>2, <1>5 DEF PixelAt
  <1>7. (x \div w) * w + (x % w) = x
    <2>1. (x \div w) \in Nat /\ w \in Nat
      BY ONLY <1>0
    <2>2. (x \div w) * w = w * (x \div w)
      BY ONLY <2>1, \A a, b \in Nat : a * b = b * a
    <2> QED
      BY ONLY <1>3, <2>2
  <1>8. (y \div h) * h + (y % h) = y
    <2>1. (y \div h) \in Nat /\ h \in Nat
      BY ONLY <1>0
    <2>2. (y \div h) * h = h * (y \div h)
      BY ONLY <2>1, \A a, b \in Nat : a * b = b * a
    <2> QED
      BY ONLY <1>3, <2>2
  <1> QED
    BY <1>2, <1>5, <1>6, <1>7, <1>8

-----------------------------------------------------------------------------
(* Samples: bytes and words *)

\* How long a slice is.
LEMMA LengthOf ==
    ASSUME NEW n \in Nat, NEW b, DOMAIN b = 0..(n - 1)
    PROVE  Length(b) = n
  <1>1. Cardinality(0..(n - 1)) = IF 0 > n - 1 THEN 0 ELSE (n - 1) - 0 + 1
    BY FS_Interval
  <1> QED
    BY <1>1 DEF Length

\* A word and its two bytes.
LEMMA TwoBytes ==
    /\ Words \in Nat \ {0}
    /\ \A w \in 0..(Words - 1) :
          /\ (w \div Base) \in 0..(Base - 1) /\ (w % Base) \in 0..(Base - 1)
          /\ (w \div Base) * Base + (w % Base) = w
    /\ \A a, b \in 0..(Base - 1) : a * Base + b \in 0..(Words - 1)
  <1>0. Base \in Nat \ {0} /\ Words = Base * Base
    BY BaseAssumption DEF Words
  <1>1. Words \in Nat \ {0}
    BY <1>0
  <1>2. ASSUME NEW w \in 0..(Words - 1)
        PROVE  /\ (w \div Base) \in 0..(Base - 1) /\ (w % Base) \in 0..(Base - 1)
               /\ (w \div Base) * Base + (w % Base) = w
    <2>1. w \in 0..(Base * Base - 1)
      BY <1>0
    <2>2. /\ (w \div Base) \in 0..(Base - 1) /\ (w % Base) \in 0..(Base - 1)
          /\ w = Base * (w \div Base) + (w % Base)
      BY <1>0, <2>1, TableRow
    <2>3. Base * (w \div Base) = (w \div Base) * Base
      BY <1>0, <2>2
    <2> QED BY <2>2, <2>3
  <1>3. ASSUME NEW a \in 0..(Base - 1), NEW b \in 0..(Base - 1)
        PROVE  a * Base + b \in 0..(Words - 1)
    <2>1. InTable(Base, Base, b, a)
      BY <1>0 DEF InTable
    <2>2. Base * a + b \in 0..(Base * Base - 1)
      BY <2>1, TablePlace
    <2>3. Base * a = a * Base
      BY <1>0
    <2> QED BY <1>0, <2>2, <2>3
  <1> QED
    BY <1>1, <1>2, <1>3

\* A writer's bytes are bytes.
LEMMA BytesOfWords ==
    ASSUME NEW size \in Nat, NEW W \in [0..(size - 1) -> 0..(Words - 1)], NEW order
    PROVE  ToBytes(W, size, order) \in [0..(2 * size - 1) -> 0..(Base - 1)]
  <1>1. ASSUME NEW k \in 0..(2 * size - 1)
        PROVE  ByteOf(W[k \div 2], k % 2, order) \in 0..(Base - 1)
    <2>1. (k \div 2) \in 0..(size - 1)
      OBVIOUS
    <2>2. W[k \div 2] \in 0..(Words - 1)
      BY <2>1
    <2> QED BY <2>2, TwoBytes DEF ByteOf
  <1> QED
    BY <1>1 DEF ToBytes

\* What is decoded from bytes are words, one for two.
LEMMA DecodedWords ==
    ASSUME NEW size \in Nat, NEW b \in [0..(2 * size - 1) -> 0..(Base - 1)], NEW order
    PROVE  /\ decode(b, order) \in [0..(size - 1) -> 0..(Words - 1)]
           /\ \A i \in 0..(size - 1) :
                 decode(b, order)[i] = IF order = "big" THEN b[2 * i] * Base + b[2 * i + 1]
                                       ELSE b[2 * i + 1] * Base + b[2 * i]
  <1>1. Length(b) = 2 * size
    <2>1. 2 * size \in Nat
      OBVIOUS
    <2> QED BY <2>1, LengthOf
  <1>2. 0..((Length(b) \div 2) - 1) = 0..(size - 1)
    BY <1>1
  <1>3. decode(b, order) = [i \in 0..(size - 1) |->
                              IF order = "big" THEN b[2 * i] * Base + b[2 * i + 1]
                              ELSE b[2 * i + 1] * Base + b[2 * i]]
    BY <1>2 DEF decode
  <1>4. ASSUME NEW i \in 0..(size - 1)
        PROVE  (IF order = "big" THEN b[2 * i] * Base + b[2 * i + 1]
                ELSE b[2 * i + 1] * Base + b[2 * i]) \in 0..(Words - 1)
    <2>1. b[2 * i] \in 0..(Base - 1) /\ b[2 * i + 1] \in 0..(Base - 1)
      OBVIOUS
    <2> QED BY <2>1, TwoBytes
  <1> QED
    BY <1>3, <1>4

\* Decoding undoes writing.
LEMMA WordsOfBytes ==
    ASSUME NEW size \in Nat, NEW W \in [0..(size - 1) -> 0..(Words - 1)], NEW order
    PROVE  decode(ToBytes(W, size, order), order) = W
  <1> DEFINE b == ToBytes(W, size, order)
             d == decode(b, order)
  <1>1. b \in [0..(2 * size - 1) -> 0..(Base - 1)]
    BY BytesOfWords
  <1>2. /\ d \in [0..(size - 1) -> 0..(Words - 1)]
        /\ \A i \in 0..(size - 1) :
              d[i] = IF order = "big" THEN b[2 * i] * Base + b[2 * i + 1]
                     ELSE b[2 * i + 1] * Base + b[2 * i]
    <2> HIDE DEF b
    <2> QED BY <1>1, DecodedWords
  <1>3. ASSUME NEW i \in 0..(size - 1) PROVE d[i] = W[i]
    <2>1. /\ 2 * i \in 0..(2 * size - 1) /\ 2 * i + 1 \in 0..(2 * size - 1)
          /\ ((2 * i) \div 2) = i /\ ((2 * i + 1) \div 2) = i
          /\ ((2 * i) % 2) = 0 /\ ((2 * i + 1) % 2) = 1
      OBVIOUS
    <2>2. b[2 * i] = ByteOf(W[i], 0, order) /\ b[2 * i + 1] = ByteOf(W[i], 1, order)
      BY <2>1 DEF ToBytes
    <2>3. W[i] \in 0..(Words - 1)
      OBVIOUS
    <2>4. CASE order = "big"
      <3>1. b[2 * i] = (W[i] \div Base) /\ b[2 * i + 1] = (W[i] % Base)
        BY <2>2, <2>4 DEF ByteOf
      <3> QED BY <1>2, <2>3, <2>4, <3>1, TwoBytes
    <2>5. CASE order # "big"
      <3>1. b[2 * i] = (W[i] % Base) /\ b[2 * i + 1] = (W[i] \div Base)
        BY <2>2, <2>5 DEF ByteOf
      <3> QED BY <1>2, <2>3, <2>5, <3>1, TwoBytes
    <2> QED BY <2>4, <2>5
  <1> QED
    BY <1>2, <1>3

-----------------------------------------------------------------------------
(* Samples: the predictors *)

\* In the tile of a file every row is there in full.
LEMMA FullRows ==
    ASSUME NEW f \in DOMAIN Files, NEW data, DOMAIN data = 0..(TileSize(f) - 1),
           NEW i \in 0..(TileSize(f) - 1)
    PROVE  /\ InRow(f, data, i)
           /\ RowStart(f, i) \in 0..(TileSize(f) - 1)
           /\ i # RowStart(f, i) => i - 1 \in 0..(TileSize(f) - 1)
  <1> DEFINE w == Files[f].tileWidth
             h == Files[f].tileLength
  <1>1. w \in Nat \ {0} /\ h \in Nat \ {0} /\ TileSize(f) \in Nat \ {0} /\ TileSize(f) = w * h
    BY Sizes DEF TileSize
  <1>2. i \in 0..(w * h - 1)
    BY <1>1
  <1>3. /\ (i \div w) \in 0..(h - 1) /\ (i % w) \in 0..(w - 1)
        /\ i = w * (i \div w) + (i % w) /\ w * (i \div w) + w <= w * h
    BY <1>1, <1>2, TableRow
  <1>4. RowStart(f, i) = i - (i % w)
    BY DEF RowStart
  <1>5. w * (i \div w) \in Nat
    <2>1. (i \div w) \in Nat /\ w \in Nat
      BY <1>1, <1>3
    <2> QED BY <2>1, TimesMono
  <1>6. RowStart(f, i) = w * (i \div w)
    BY <1>3, <1>4, <1>5
  <1>7. RowStart(f, i) + w <= Length(data)
    BY <1>1, <1>3, <1>6, LengthOf
  <1>8. RowStart(f, i) \in 0..(TileSize(f) - 1) /\ RowStart(f, i) <= i
    <2>0. PICK row, col, size : row = RowStart(f, i) /\ col = i % w /\ size = TileSize(f)
      OBVIOUS
    <2>1. row \in Nat /\ row = i - col /\ col \in Nat /\ i \in 0..(size - 1) /\ size \in Nat
      BY ONLY <1>1, <1>3, <1>4, <1>5, <1>6, <2>0, i \in 0..(TileSize(f) - 1)
    <2>2. row \in 0..(size - 1) /\ row <= i
      BY ONLY <2>1
    <2> QED
      BY ONLY <2>0, <2>2
  <1> QED
    BY <1>7, <1>8, <1>1 DEF InRow

\* The running sum, without the recursion: each word of a row from the one before
\* it, and no other slice is so.
LEMMA RunningSum ==
    ASSUME NEW f \in DOMAIN Files, NEW data \in [0..(TileSize(f) - 1) -> Int],
           NEW sum \in [0..(TileSize(f) - 1) -> 0..(Words - 1)],
           \A i \in 0..(TileSize(f) - 1) :
              sum[i] = IF i = RowStart(f, i) THEN data[i] ELSE (data[i] + sum[i - 1]) % Words
    PROVE  undoHorizontalPredictionForInt32(f, data) = sum
  <1> DEFINE D == 0..(TileSize(f) - 1)
             Undone(s) == s = [i \in D |-> IF i = RowStart(f, i) \/ ~InRow(f, data, i) THEN data[i]
                                           ELSE (data[i] + s[i - 1]) % Words]
             undone == undoHorizontalPredictionForInt32(f, data)
  <1>0. TileSize(f) \in Nat \ {0}
    BY Sizes
  <1>1. \A i \in D : InRow(f, data, i) /\ (i # RowStart(f, i) => i - 1 \in D)
    BY FullRows
  <1>2. Undone(sum)
    BY <1>1
  <1>3. undone = CHOOSE s : Undone(s)
    BY DEF undoHorizontalPredictionForInt32
  <1>4. Undone(undone)
    <2> HIDE DEF Undone, undone
    <2> QED BY <1>2, <1>3
  <1>5. DOMAIN undone = D /\ \A i \in D : undone[i] = IF i = RowStart(f, i) THEN data[i]
                                                      ELSE (data[i] + undone[i - 1]) % Words
    <2> HIDE DEF undone
    <2> QED BY <1>4, <1>1
  <1>6. \A i \in D : undone[i] = sum[i]
    <2> DEFINE Wrong == {i \in D : undone[i] # sum[i]}
    <2>1. SUFFICES ASSUME Wrong # {} PROVE FALSE
      OBVIOUS
    <2>2. Wrong \in SUBSET Nat
      BY <1>0
    <2>3. PICK m \in Wrong : \A k \in Wrong : m <= k
      <3> HIDE DEF Wrong
      <3> QED BY <2>1, <2>2, LeastNat
    <2>4. CASE m = RowStart(f, m)
      BY <2>3, <2>4, <1>5
    <2>5. CASE m # RowStart(f, m)
      <3>1. m \in D /\ m - 1 \in D /\ m \in Nat
        BY <2>2, <2>3, <2>5, <1>1
      <3>2. undone[m - 1] = sum[m - 1]
        BY <2>3, <3>1
      <3> HIDE DEF undone
      <3> QED BY <2>3, <2>5, <3>1, <3>2, <1>5
    <2> QED BY <2>4, <2>5
  <1>7. undone = [i \in D |-> undone[i]] /\ sum = [i \in D |-> sum[i]]
    <2> HIDE DEF undone
    <2> QED BY <1>4
  <1> HIDE DEF undone
  <1> QED
    BY <1>6, <1>7 DEF undone

\* A difference of words, and the word again.
LEMMA ModBack ==
    ASSUME NEW m \in Nat \ {0}, NEW a \in 0..(m - 1), NEW b \in 0..(m - 1)
    PROVE  ((a - b) % m) \in 0..(m - 1) /\ (((a - b) % m) + b) % m = a
  <1>1. CASE a >= b
    <2>1. a - b \in Nat /\ a - b \in 0..(m - 1) /\ a - b = m * 0 + (a - b)
      BY <1>1
    <2>2. ((a - b) % m) = a - b
      BY <2>1, DivUnique
    <2>3. a \in Nat /\ a = m * 0 + a
      OBVIOUS
    <2>4. (a % m) = a
      BY <2>3, DivUnique
    <2>5. (a - b) + b = a
      OBVIOUS
    <2> QED BY <2>1, <2>2, <2>4, <2>5
  <1>2. CASE a < b
    <2>1. ((a - b) % m) \in 0..(m - 1) /\ ((a - b) % m) = a - b + m
      BY <1>2
    <2>2. a + m \in Nat /\ a + m = m * 1 + a
      OBVIOUS
    <2>3. ((a + m) % m) = a
      BY <2>2, DivUnique
    <2>4. (a - b + m) + b = a + m
      OBVIOUS
    <2> QED BY <2>1, <2>3, <2>4
  <1> QED
    BY <1>1, <1>2

\* The samples of a tile as words.
LEMMA PlainType ==
    ASSUME NEW f \in DOMAIN Files, NEW n \in TileNums(f)
    PROVE  /\ Plain(f, n) \in [0..(TileSize(f) - 1) -> 0..(Words - 1)]
           /\ TileSize(f) \in Nat \ {0}
  BY WordAssumption, Sizes DEF Plain

\* Undoing the differences gives the samples.
LEMMA DifferencesUndone ==
    ASSUME NEW f \in DOMAIN Files, NEW n \in TileNums(f)
    PROVE  /\ Differences(f, n) \in [0..(TileSize(f) - 1) -> 0..(Words - 1)]
           /\ undoHorizontalPredictionForInt32(f, Differences(f, n)) = Plain(f, n)
  <1> DEFINE D == 0..(TileSize(f) - 1)
             P == Plain(f, n)
             diff == Differences(f, n)
  <1>0. Words \in Nat \ {0}
    BY TwoBytes
  <1>1. P \in [D -> 0..(Words - 1)]
    BY PlainType
  <1>2. \A i \in D : i # RowStart(f, i) => i - 1 \in D
    <2> DEFINE zero == [i \in D |-> 0]
    <2>1. DOMAIN zero = D
      OBVIOUS
    <2> QED BY <2>1, FullRows
  <1>3. diff = [i \in D |-> IF i = RowStart(f, i) THEN P[i] ELSE (P[i] - P[i - 1]) % Words]
    BY DEF Differences
  <1> HIDE DEF P, diff, D
  <1>4. ASSUME NEW i \in D
        PROVE  /\ diff[i] \in 0..(Words - 1)
               /\ P[i] = IF i = RowStart(f, i) THEN diff[i] ELSE (diff[i] + P[i - 1]) % Words
    <2>1. CASE i = RowStart(f, i)
      BY <2>1, <1>1, <1>3
    <2>2. CASE i # RowStart(f, i)
      <3>1. P[i] \in 0..(Words - 1) /\ P[i - 1] \in 0..(Words - 1)
        BY <2>2, <1>1, <1>2
      <3>2. diff[i] = (P[i] - P[i - 1]) % Words
        BY <2>2, <1>3
      <3>3. ((P[i] - P[i - 1]) % Words) \in 0..(Words - 1)
            /\ (((P[i] - P[i - 1]) % Words) + P[i - 1]) % Words = P[i]
        BY <3>1, <1>0, ModBack
      <3> QED BY <2>2, <3>2, <3>3
    <2> QED BY <2>1, <2>2
  <1>5. diff \in [D -> 0..(Words - 1)]
    BY <1>3, <1>4
  <1>6. diff \in [D -> Int]
    BY <1>0, <1>5
  <1>7. undoHorizontalPredictionForInt32(f, diff) = P
    BY <1>1, <1>4, <1>6, RunningSum DEF D
  <1> QED
    BY <1>5, <1>7 DEF P, diff, D

\* The remainder of an integer.
LEMMA Remainder ==
    ASSUME NEW a \in Int, NEW m \in Nat \ {0}
    PROVE  (a % m) \in 0..(m - 1)
  OBVIOUS

\* Stored bytes are bytes, whatever the predictor.
LEMMA StoredType ==
    ASSUME NEW f \in DOMAIN Files, NEW n \in TileNums(f), ~Files[f].sparse
    PROVE  Stored(f, n) \in [0..(2 * TileSize(f) - 1) -> 0..(Base - 1)]
  <1> DEFINE w == Files[f].tileWidth
             row == 2 * w
             P == Plain(f, n)
             K == 0..(2 * TileSize(f) - 1)
             plane == [k \in K |-> ByteOf(P[(k \div row) * w + ((k % row) % w)], (k % row) \div w, "big")]
  <1>0. /\ w \in Nat \ {0} /\ Files[f].tileLength \in Nat \ {0} /\ TileSize(f) \in Nat \ {0}
        /\ row \in Nat \ {0} /\ 2 * TileSize(f) = row * Files[f].tileLength
        /\ P \in [0..(TileSize(f) - 1) -> 0..(Words - 1)] /\ Base \in Nat \ {0}
    <2>1. /\ w \in Nat \ {0} /\ Files[f].tileLength \in Nat \ {0} /\ TileSize(f) \in Nat \ {0}
          /\ P \in [0..(TileSize(f) - 1) -> 0..(Words - 1)] /\ Base \in Nat \ {0}
      BY Sizes, PlainType, BaseAssumption
    <2>2. TileSize(f) = w * Files[f].tileLength
      BY DEF TileSize
    <2>3. \A a, b \in Nat : 2 * (a * b) = (2 * a) * b
      OBVIOUS
    <2>4. 2 * TileSize(f) = row * Files[f].tileLength
      BY <2>1, <2>2, <2>3
    <2> QED BY <2>1, <2>4
  <1>1. ASSUME NEW k \in K
        PROVE  plane[k] \in 0..(Base - 1) /\ ((k % row) # 0 => k - 1 \in K)
    <2>1. k \in 0..(row * Files[f].tileLength - 1)
      BY <1>0
    <2>2. (k \div row) \in 0..(Files[f].tileLength - 1) /\ (k % row) \in Nat
      <3> HIDE DEF row
      <3>1. /\ (k \div row) \in 0..(Files[f].tileLength - 1) /\ (k % row) \in 0..(row - 1)
        BY <1>0, <2>1, TableRow
      <3> QED BY <1>0, <3>1
    <2>3. ((k % row) % w) \in 0..(w - 1)
      <3> HIDE DEF row
      <3> QED BY <1>0, <2>2, DivMod
    <2>4. InTable(w, Files[f].tileLength, (k % row) % w, k \div row)
      BY <1>0, <2>2, <2>3 DEF InTable
    <2>5. w * (k \div row) + ((k % row) % w) \in 0..(TileSize(f) - 1)
      <3> HIDE DEF row
      <3> QED BY <2>4, TablePlace DEF TileSize
    <2>6. w * (k \div row) = (k \div row) * w
      <3> HIDE DEF row
      <3> QED BY <1>0, <2>2
    <2>7. P[(k \div row) * w + ((k % row) % w)] \in 0..(Words - 1)
      <3> HIDE DEF row, P, w
      <3> QED BY <1>0, <2>5, <2>6
    <2>8. plane[k] \in 0..(Base - 1)
      <3> HIDE DEF row, P, w
      <3> QED BY <2>7, TwoBytes DEF ByteOf
    <2>9. ASSUME (k % row) # 0 PROVE k - 1 \in K
      <3>1. CASE k = 0
        <4> HIDE DEF row
        <4>1. (0 % row) = 0
          BY <1>0
        <4> QED BY <2>9, <3>1, <4>1
      <3>2. CASE k # 0
        BY <3>2, <1>0
      <3> QED BY <3>1, <3>2
    <2> QED BY <2>8, <2>9
  <1>2. Planes(f, n) = [k \in K |-> IF (k % row) = 0 THEN plane[k] ELSE (plane[k] - plane[k - 1]) % Base]
    BY DEF Planes
  <1>3. Planes(f, n) \in [K -> 0..(Base - 1)]
    <2> HIDE DEF plane, K, row
    <2>1. ASSUME NEW k \in K
          PROVE (IF (k % row) = 0 THEN plane[k] ELSE (plane[k] - plane[k - 1]) % Base) \in 0..(Base - 1)
      <3>1. plane[k] \in 0..(Base - 1) /\ ((k % row) # 0 => plane[k - 1] \in 0..(Base - 1))
        BY <1>1
      <3>2. CASE (k % row) # 0
        <4>1. plane[k] - plane[k - 1] \in Int
          BY <3>1, <3>2, <1>0
        <4> QED BY <4>1, <1>0, <3>2, Remainder
      <3> QED BY <3>1, <3>2
    <2> QED BY <1>2, <2>1
  <1>4. TileSize(f) \in Nat
    BY <1>0
  <1>5. ToBytes(P, TileSize(f), Files[f].byteOrder) \in [K -> 0..(Base - 1)]
    <2> HIDE DEF P
    <2> QED BY <1>0, <1>4, BytesOfWords
  <1>6. ToBytes(Differences(f, n), TileSize(f), Files[f].byteOrder) \in [K -> 0..(Base - 1)]
    BY <1>4, DifferencesUndone, BytesOfWords
  <1> QED
    BY <1>3, <1>5, <1>6 DEF Stored

\* The floating-point predictor, as the code takes it, gives words of words.
LEMMA FloatUndoneType ==
    ASSUME NEW f \in DOMAIN Files, NEW data \in [0..(TileSize(f) - 1) -> 0..(Words - 1)]
    PROVE  undoHorizontalPredictionForFloat32(f, data) \in [0..(TileSize(f) - 1) -> 0..(Words - 1)]
  <1> DEFINE D == 0..(TileSize(f) - 1)
  <1>1. ASSUME NEW i \in D, NEW first, first = data[RowStart(f, i)]
        PROVE (IF i = RowStart(f, i) \/ ~InRow(f, data, i) THEN data[i]
               ELSE ((data[i] \div Base + first \div Base) % Base) * Base + ((data[i] + first) % Base))
              \in 0..(Words - 1)
    <2>1. data[i] \in 0..(Words - 1) /\ first \in 0..(Words - 1)
      BY <1>1, FullRows
    <2>2. Base \in Nat \ {0} /\ Words \in Nat \ {0}
      BY BaseAssumption, TwoBytes
    <2>3. (data[i] \div Base) \in 0..(Base - 1) /\ (first \div Base) \in 0..(Base - 1)
      BY <2>1, TwoBytes
    <2>4. ((data[i] \div Base + first \div Base) % Base) \in 0..(Base - 1)
      <3>1. (data[i] \div Base) + (first \div Base) \in Int
        BY <2>2, <2>3
      <3> QED BY <2>2, <3>1, Remainder
    <2>5. ((data[i] + first) % Base) \in 0..(Base - 1)
      <3>1. data[i] + first \in Int
        BY <2>1, <2>2
      <3> QED BY <2>2, <3>1, Remainder
    <2>6. ((data[i] \div Base + first \div Base) % Base) * Base + ((data[i] + first) % Base) \in 0..(Words - 1)
      BY <2>4, <2>5, TwoBytes
    <2> QED BY <2>1, <2>6
  <1> QED
    BY <1>1 DEF undoHorizontalPredictionForFloat32

-----------------------------------------------------------------------------
(* Samples: tiles *)

\* The words of a tile as they are decoded: without a predictor and with the
\* horizontal one they are what the writer encoded.
LEMMA StoredWords ==
    ASSUME NEW f \in DOMAIN Files, NEW n \in TileNums(f), ~Files[f].sparse
    PROVE  LET words == decode(Stored(f, n), Files[f].byteOrder) IN
           /\ words \in [0..(TileSize(f) - 1) -> 0..(Words - 1)]
           /\ predictor(f) = "none" => words = Plain(f, n)
           /\ predictor(f) = "horizontal" => words = Differences(f, n)
  <1>0. TileSize(f) \in Nat
    BY PlainType
  <1>1. decode(Stored(f, n), Files[f].byteOrder) \in [0..(TileSize(f) - 1) -> 0..(Words - 1)]
    BY <1>0, StoredType, DecodedWords
  <1>2. ASSUME predictor(f) = "none"
        PROVE  decode(Stored(f, n), Files[f].byteOrder) = Plain(f, n)
    <2>1. Stored(f, n) = ToBytes(Plain(f, n), TileSize(f), Files[f].byteOrder)
      BY <1>2 DEF Stored
    <2> QED BY <1>0, <2>1, PlainType, WordsOfBytes
  <1>3. ASSUME predictor(f) = "horizontal"
        PROVE  decode(Stored(f, n), Files[f].byteOrder) = Differences(f, n)
    <2>1. predictor(f) # "none"
      BY <1>3
    <2>2. Stored(f, n) = ToBytes(Differences(f, n), TileSize(f), Files[f].byteOrder)
      BY <1>3, <2>1 DEF Stored
    <2> QED BY <1>0, <2>2, DifferencesUndone, WordsOfBytes
  <1> QED
    BY <1>1, <1>2, <1>3

\* The unit of a file's samples.
UnitOf(f) == IF sampleFormat(f) = "int" THEN "tenths" ELSE "metres"

\* What getTileData makes of a format it reads: samples, and the right ones unless
\* the format is one it misreads.
LEMMA SupportedTile ==
    ASSUME NEW f \in DOMAIN Files, NEW n \in TileNums(f), Supported(f)
    PROVE  /\ TileData(f, n) \in [unit : Units, words : [0..(TileSize(f) - 1) -> 0..(Words - 1)]]
           /\ ~Misread(f) => TileData(f, n) = [unit |-> UnitOf(f), words |-> Plain(f, n)]
  <1> DEFINE W == [0..(TileSize(f) - 1) -> 0..(Words - 1)]
             bytes == Stored(f, n)
             words == decode(bytes, Files[f].byteOrder)
  <1>0. /\ compression(f) \in {"none", "deflate", "LZW"} /\ ~Files[f].sparse
        /\ bitsPerSample(f) = 32 /\ sampleFormat(f) \in {"float", "int"}
        /\ TileSize(f) \in Nat /\ Plain(f, n) \in W
    BY PlainType DEF Supported
  <1>1. CASE compression(f) = "LZW"
    <2> DEFINE native == decode(ToBytes(Plain(f, n), TileSize(f), NativeOrder), Files[f].byteOrder)
    <2>1. TileData(f, n) = [unit |-> "metres", words |-> native]
      BY <1>0, <1>1 DEF TileData, getLZWTileData
    <2>2. native \in W
      BY <1>0, BytesOfWords, DecodedWords
    <2>3. ASSUME ~Misread(f) PROVE native = Plain(f, n) /\ UnitOf(f) = "metres"
      <3>1. Files[f].byteOrder = NativeOrder /\ sampleFormat(f) = "float"
        BY <1>1, <2>3 DEF Misread
      <3> QED BY <1>0, <3>1, WordsOfBytes DEF UnitOf
    <2> HIDE DEF native
    <2> QED BY <2>1, <2>2, <2>3 DEF Units
  <1>2. CASE compression(f) # "LZW"
    <2>1. fetchAndDecompressTile(f, n) = bytes
      BY <1>0, <1>2 DEF fetchAndDecompressTile
    <2>2. bytes \in [0..(2 * TileSize(f) - 1) -> 0..(Base - 1)] /\ bytes # NoSample
      BY <1>0, StoredType, NoSampleAssumption
    <2>3. /\ words \in W
          /\ predictor(f) = "none" => words = Plain(f, n)
          /\ predictor(f) = "horizontal" => words = Differences(f, n)
      BY <1>0, StoredWords
    <2>4. predictor(f) \in {"none", "horizontal", "floating"}
          /\ (~Misread(f) => predictor(f) # "floating")
      BY <1>2, PredictorAssumption DEF Misread
    <2>5. TileData(f, n) = Process(f, bytes)
      BY <1>2, <2>1 DEF TileData
    <2> HIDE DEF bytes, W
    <2>6. undoHorizontalPredictionForInt32(f, Differences(f, n)) = Plain(f, n)
      BY DifferencesUndone
    <2>7. CASE predictor(f) = "horizontal"
      <3>1. Process(f, bytes) = [unit |-> UnitOf(f),
                                 words |-> undoHorizontalPredictionForInt32(f, words)]
        <4>1. CASE sampleFormat(f) = "float"
          BY <1>0, <2>2, <2>7, <4>1, Zenon DEF Process, UnitOf
        <4>2. CASE sampleFormat(f) = "int"
          BY <1>0, <2>2, <2>7, <4>2, Zenon DEF Process, UnitOf
        <4> QED BY <1>0, <4>1, <4>2
      <3>2. TileData(f, n) = [unit |-> UnitOf(f), words |-> Plain(f, n)]
        BY <2>3, <2>5, <2>6, <2>7, <3>1
      <3>3. UnitOf(f) \in Units /\ Plain(f, n) \in W
        BY <1>0 DEF UnitOf, Units, W
      <3>4. TileData(f, n) \in [unit : Units, words : W]
        BY <3>2, <3>3
      <3> QED BY <3>2, <3>4, Zenon DEF W
    <2>8. CASE predictor(f) = "none"
      <3>1. Process(f, bytes) = [unit |-> UnitOf(f), words |-> words]
        <4>1. CASE sampleFormat(f) = "float"
          BY <1>0, <2>2, <2>8, <4>1, Zenon DEF Process, UnitOf
        <4>2. CASE sampleFormat(f) = "int"
          BY <1>0, <2>2, <2>8, <4>2, Zenon DEF Process, UnitOf
        <4> QED BY <1>0, <4>1, <4>2
      <3>2. TileData(f, n) = [unit |-> UnitOf(f), words |-> Plain(f, n)]
        BY <2>3, <2>5, <2>8, <3>1
      <3>3. UnitOf(f) \in Units /\ Plain(f, n) \in W
        BY <1>0 DEF UnitOf, Units, W
      <3>4. TileData(f, n) \in [unit : Units, words : W]
        BY <3>2, <3>3
      <3> QED BY <3>2, <3>4, Zenon DEF W
    <2>9. CASE predictor(f) = "floating"
      <3>1. undoHorizontalPredictionForFloat32(f, words) \in W
        BY <2>3, FloatUndoneType DEF W
      <3>2. \E v \in W : Process(f, bytes) = [unit |-> UnitOf(f), words |-> v]
        <4>1. CASE sampleFormat(f) = "float"
          <5>1. Process(f, bytes) = [unit |-> UnitOf(f),
                                     words |-> undoHorizontalPredictionForFloat32(f, words)]
            BY <1>0, <2>2, <2>9, <4>1, Zenon DEF Process, UnitOf
          <5> QED BY <3>1, <5>1
        <4>2. CASE sampleFormat(f) = "int"
          <5>1. Process(f, bytes) = [unit |-> UnitOf(f), words |-> words]
            BY <1>0, <2>2, <2>9, <4>2, Zenon DEF Process, UnitOf
          <5> QED BY <2>3, <5>1
        <4> QED BY <1>0, <4>1, <4>2
      <3>3. TileData(f, n) \in [unit : Units, words : W]
        BY <2>5, <3>2 DEF UnitOf, Units
      <3> QED BY <2>4, <2>9, <3>3 DEF W
    <2> QED BY <2>4, <2>7, <2>8, <2>9 DEF W
  <1> QED
    BY <1>1, <1>2

\* What is decoded from no bytes is no word.
LEMMA NoWords ==
    ASSUME NEW order
    PROVE  DOMAIN decode(<< >>, order) = {}
  <1>1. DOMAIN << >> = 0..(0 - 1)
    OBVIOUS
  <1>2. Length(<< >>) = 0
    BY <1>1, LengthOf
  <1>3. 0..((0 \div 2) - 1) = {}
    OBVIOUS
  <1> QED
    BY <1>2, <1>3 DEF decode

\* And the running sum of no words is none.
LEMMA NoSum ==
    ASSUME NEW f, NEW data, DOMAIN data = {}
    PROVE  DOMAIN undoHorizontalPredictionForInt32(f, data) = {}
  <1> DEFINE Undone(s) == s = [i \in {} |-> IF i = RowStart(f, i) \/ ~InRow(f, data, i) THEN data[i]
                                           ELSE (data[i] + s[i - 1]) % Words]
             empty == [i \in {} |-> 0]
             undone == undoHorizontalPredictionForInt32(f, data)
  <1>1. Undone(empty)
    OBVIOUS
  <1>2. undone = CHOOSE s : Undone(s)
    BY DEF undoHorizontalPredictionForInt32
  <1>3. Undone(undone)
    <2> HIDE DEF Undone, undone
    <2> QED BY <1>1, <1>2
  <1> QED
    BY <1>3

\* A sample of a tile that is loaded.
LEMMA SampleAtIs ==
    ASSUME NEW f \in DOMAIN Files, NEW n \in TileNums(f), NEW i
    PROVE  SampleAt(f, n, i) =
               IF TileData(f, n) = NoSample \/ i \notin DOMAIN TileData(f, n).words THEN NoSample
               ELSE [unit |-> TileData(f, n).unit, word |-> TileData(f, n).words[i]]
  <1>1. Tiles[f][n] = TileData(f, n)
    BY DEF Tiles
  <1> QED
    BY <1>1, Zenon DEF SampleAt

\* Of a format the code does not read there is no sample; with LZW there may be a
\* misread one.
LEMMA UnsupportedSample ==
    ASSUME NEW f \in DOMAIN Files, NEW n \in TileNums(f), NEW i \in 0..(TileSize(f) - 1), ~Supported(f)
    PROVE  SampleAt(f, n, i) \in Samples \cup {NoSample} /\ (~Misread(f) => SampleAt(f, n, i) = NoSample)
  <1> DEFINE D == 0..(TileSize(f) - 1)
             bytes == fetchAndDecompressTile(f, n)
             words == decode(bytes, Files[f].byteOrder)
  <1>0. TileSize(f) \in Nat /\ Plain(f, n) \in [D -> 0..(Words - 1)]
    BY PlainType
  <1>1. CASE compression(f) = "LZW" /\ Files[f].sparse
    BY <1>1, SampleAtIs DEF TileData, getLZWTileData
  <1>2. CASE compression(f) = "LZW" /\ ~Files[f].sparse
    <2> DEFINE native == decode(ToBytes(Plain(f, n), TileSize(f), NativeOrder), Files[f].byteOrder)
    <2>1. TileData(f, n) = [unit |-> "metres", words |-> native]
      BY <1>2 DEF TileData, getLZWTileData
    <2>2. native \in [D -> 0..(Words - 1)]
      BY <1>0, BytesOfWords, DecodedWords
    <2>3. Misread(f)
      BY <1>2 DEF Supported, Misread
    <2> HIDE DEF native
    <2>4. TileData(f, n).unit = "metres" /\ TileData(f, n).words = native
      BY <2>1
    <2>5. [unit |-> "metres", word |-> native[i]] \in Samples
      BY <2>2 DEF Samples, Units
    <2>6. SampleAt(f, n, i) \in {NoSample, [unit |-> "metres", word |-> native[i]]}
      BY <2>4, SampleAtIs
    <2> QED BY <2>3, <2>5, <2>6
  <1>3. CASE compression(f) # "LZW"
    <2>1. TileData(f, n) = Process(f, bytes)
      BY <1>3 DEF TileData
    <2>2. SUFFICES \/ TileData(f, n) = NoSample
                   \/ DOMAIN TileData(f, n).words = {}
      BY SampleAtIs
    <2>3. CASE bytes = NoSample \/ bitsPerSample(f) # 32
      BY <2>1, <2>3, Zenon DEF Process
    <2>4. CASE bytes # NoSample /\ bitsPerSample(f) = 32 /\ sampleFormat(f) \notin {"float", "int"}
      <3>1. sampleFormat(f) # "float" /\ sampleFormat(f) # "int"
        BY <2>4
      <3> QED BY <2>1, <2>4, <3>1, Zenon DEF Process
    <2>5. CASE bytes # NoSample /\ bitsPerSample(f) = 32 /\ sampleFormat(f) \in {"float", "int"}
      <3>1. compression(f) = "none" /\ Files[f].sparse
        <4>1. compression(f) \in {"none", "deflate"}
          BY <2>5, Zenon DEF fetchAndDecompressTile
        <4>2. Files[f].sparse
          BY <2>5, <4>1 DEF Supported
        <4> QED BY <2>5, <4>1, <4>2, Zenon DEF fetchAndDecompressTile
      <3>2. bytes = << >>
        BY <3>1 DEF fetchAndDecompressTile, Stored
      <3>3. DOMAIN words = {}
        BY <3>2, NoWords
      <3>4. DOMAIN undoHorizontalPredictionForInt32(f, words) = {}
        BY <3>3, NoSum
      <3>5. sampleFormat(f) = "float" => predictor(f) # "floating"
        BY <2>5, <3>1, PredictorAssumption
      <3> HIDE DEF bytes
      <3>6. \E u : \/ Process(f, bytes) = [unit |-> u, words |-> undoHorizontalPredictionForInt32(f, words)]
                   \/ Process(f, bytes) = [unit |-> u, words |-> words]
        <4>1. CASE sampleFormat(f) = "float"
          BY <2>5, <3>5, <4>1, Zenon DEF Process
        <4>2. CASE sampleFormat(f) = "int"
          BY <2>5, <3>5, <4>2, Zenon DEF Process
        <4> QED BY <2>5, <4>1, <4>2
      <3> QED BY <2>1, <3>3, <3>4, <3>6
    <2> QED BY <2>3, <2>4, <2>5
  <1> QED
    BY <1>1, <1>2, <1>3

-----------------------------------------------------------------------------
(* Raster: a GeoTIFF *)

Pixels == [x : Int, y : Int]

\* loc of a GeoTIFF gives a pixel's own sample, if the pixel is there and the
\* format one that is read.
LEMMA TiffLocRight ==
    ASSUME NEW f \in DOMAIN Files, NEW q \in Pixels
    PROVE  /\ TiffLoc(f, q) \in Samples \cup {NoSample}
           /\ TiffLoc(f, q) # NoSample =>
                 InRaster(Files[f], q) /\ (~Misread(f) => TiffLoc(f, q) = FileSample(f, q))
           /\ InRaster(Files[f], q) /\ Supported(f) => TiffLoc(f, q) # NoSample
  <1> DEFINE n == TileNum(f, q)
             i == Index(f, q)
  <1>1. CASE ~InRaster(Files[f], q)
    BY <1>1 DEF TiffLoc
  <1>2. CASE InRaster(Files[f], q)
    <2>1. q = Pixel(q.x, q.y) /\ q.x \in 0..(Files[f].width - 1) /\ q.y \in 0..(Files[f].height - 1)
      BY <1>2 DEF Pixels, Pixel, InRaster
    <2>2. n \in TileNums(f) /\ i \in 0..(TileSize(f) - 1) /\ PixelAt(f, n, i) = q
      BY <2>1, TilePlace
    <2>3. TiffLoc(f, q) = SampleAt(f, n, i)
      BY <1>2 DEF TiffLoc
    <2> HIDE DEF n, i
    <2>4. CASE ~Supported(f)
      BY <1>2, <2>2, <2>3, <2>4, UnsupportedSample
    <2>5. CASE Supported(f)
      <3> DEFINE T == TileData(f, n)
                 D == 0..(TileSize(f) - 1)
      <3>1. T \in [unit : Units, words : [D -> 0..(Words - 1)]]
        BY <2>2, <2>5, SupportedTile
      <3>2. T # NoSample
        BY <3>1, NoSampleAssumption
      <3> HIDE DEF T, D
      <3>3. i \in DOMAIN T.words
        BY <2>2, <3>1 DEF D
      <3>4. SampleAt(f, n, i) = [unit |-> T.unit, word |-> T.words[i]]
        BY <2>2, <3>2, <3>3, SampleAtIs DEF T
      <3>5. T.unit \in Units /\ T.words[i] \in 0..(Words - 1)
        BY <2>2, <3>1 DEF D
      <3>6. SampleAt(f, n, i) \in Samples
        BY <3>4, <3>5 DEF Samples
      <3>7. SampleAt(f, n, i) # NoSample
        BY <3>6, NoSampleAssumption
      <3>8. ASSUME ~Misread(f) PROVE SampleAt(f, n, i) = FileSample(f, q)
        <4>1. T = [unit |-> UnitOf(f), words |-> Plain(f, n)]
          BY <2>2, <2>5, <3>8, SupportedTile DEF T
        <4>2. Plain(f, n)[i] = Word(f, q)
          BY <2>2 DEF Plain
        <4> QED BY <3>4, <4>1, <4>2 DEF FileSample, UnitOf
      <3> QED BY <1>2, <2>3, <3>6, <3>7, <3>8
    <2> QED BY <2>4, <2>5
  <1> QED
    BY <1>1, <1>2

-----------------------------------------------------------------------------
(* Raster: coordinates *)

\* Rounding goes to the nearest pixel, and that of a pixel's own coordinate is
\* the pixel.
LEMMA Rounding ==
    ASSUME NEW l \in Nat
    PROVE  /\ Round(l) \in Nat
           /\ 2 * Abs(l - Round(l) * Parts) <= Parts
           /\ \A n \in Nat : l <= n * Parts => Round(l) <= n
           /\ \A n \in Nat : l = n * Parts => Round(l) = n
  <1> DEFINE r == Round(l)
             rest == (2 * l + Parts) % (2 * Parts)
  <1>0. Parts \in Nat \ {0} /\ 2 * Parts \in Nat \ {0} /\ 2 * l + Parts \in Nat
    BY PartsAssumption
  <1>1. r \in Nat /\ rest \in 0..(2 * Parts - 1) /\ 2 * l + Parts = (2 * Parts) * r + rest
    BY <1>0, DivMod DEF Round
  <1>2. r * Parts \in Nat /\ (2 * Parts) * r = 2 * (r * Parts)
    <2> HIDE DEF r
    <2>1. \A a, b \in Nat : a * b \in Nat /\ (2 * b) * a = 2 * (a * b)
      OBVIOUS
    <2> QED BY <2>1, <1>0, <1>1
  <1> HIDE DEF r, rest
  <1>3. 2 * (l - r * Parts) \in (-Parts)..Parts
    BY <1>0, <1>1, <1>2
  <1>4. 2 * Abs(l - r * Parts) <= Parts
    BY <1>0, <1>2, <1>3 DEF Abs
  <1>5. ASSUME NEW n \in Nat, l <= n * Parts PROVE r <= n
    <2>1. SUFFICES ASSUME n + 1 <= r PROVE FALSE
      BY <1>1
    <2>2. (n + 1) * Parts <= r * Parts
      BY <1>0, <1>1, <2>1, TimesMono
    <2>3. (n + 1) * Parts = n * Parts + Parts /\ n * Parts \in Nat
      BY <1>0
    <2> QED BY <1>0, <1>2, <1>3, <1>5, <2>2, <2>3
  <1>6. ASSUME NEW n \in Nat, l = n * Parts PROVE r = n
    <2>1. n * Parts \in Nat /\ (2 * Parts) * n = 2 * (n * Parts)
      <3>1. \A a, b \in Nat : a * b \in Nat /\ (2 * b) * a = 2 * (a * b)
        OBVIOUS
      <3> QED BY <3>1, <1>0
    <2>2. 2 * l + Parts = (2 * Parts) * n + Parts /\ Parts \in 0..(2 * Parts - 1)
      BY <2>1, <1>0, <1>6
    <2> QED BY <1>0, <2>2, DivUnique DEF r, Round
  <1> QED
    BY <1>1, <1>4, <1>5, <1>6 DEF r

\* A point in the bounds is within half a pixel of the one it is rounded to, which
\* is in the raster or just past it.
LEMMA CoordToPixelRight ==
    ASSUME NEW r, r.width \in Nat, r.height \in Nat,
           NEW p \in [lat : Int, lon : Int], InBounds(r, p)
    PROVE  /\ CoordToPixel(p) \in Pixels
           /\ CoordToPixel(p).x \in 0..r.width /\ CoordToPixel(p).y \in 0..r.height
           /\ HalfAPixel(CoordToPixel(p), p)
  <1>0. Parts \in Nat \ {0}
    BY PartsAssumption
  <1>1. /\ p.lat \in Nat /\ p.lat <= r.height * Parts
        /\ p.lon \in Nat /\ p.lon <= r.width * Parts
    BY <1>0 DEF InBounds
  <1>2. /\ Round(p.lat) \in Nat /\ Round(p.lat) <= r.height /\ 2 * Abs(p.lat - Round(p.lat) * Parts) <= Parts
        /\ Round(p.lon) \in Nat /\ Round(p.lon) <= r.width /\ 2 * Abs(p.lon - Round(p.lon) * Parts) <= Parts
    BY <1>1, Rounding
  <1> QED
    BY <1>2 DEF CoordToPixel, Pixel, Pixels, HalfAPixel

\* A pixel's own coordinate is in the bounds, and rounded to it.
LEMMA PixelToCoordRight ==
    ASSUME NEW r, r.width \in Nat, r.height \in Nat,
           NEW q \in Pixels, InRaster(r, q)
    PROVE  /\ PixelToCoord(q) \in [lat : Int, lon : Int]
           /\ InBounds(r, PixelToCoord(q)) /\ CoordToPixel(PixelToCoord(q)) = q
           /\ HalfAPixel(q, PixelToCoord(q))
  <1>0. Parts \in Nat \ {0}
    BY PartsAssumption
  <1>1. q.x \in Nat /\ q.x <= r.width /\ q.y \in Nat /\ q.y <= r.height
    BY DEF InRaster
  <1>2. /\ q.x * Parts \in Nat /\ q.x * Parts <= r.width * Parts
        /\ q.y * Parts \in Nat /\ q.y * Parts <= r.height * Parts
        /\ r.width * Parts \in Nat /\ r.height * Parts \in Nat
    BY <1>0, <1>1, TimesMono
  <1>3. Round(q.x * Parts) = q.x /\ Round(q.y * Parts) = q.y
    BY <1>1, <1>2, Rounding
  <1>4. PixelToCoord(q) = [lat |-> q.y * Parts, lon |-> q.x * Parts]
    BY DEF PixelToCoord, Point
  <1>5. CoordToPixel(PixelToCoord(q)) = q
    <2>1. q = [x |-> q.x, y |-> q.y]
      BY DEF Pixels
    <2> QED BY <1>3, <1>4, <2>1 DEF CoordToPixel, Pixel
  <1>6. HalfAPixel(q, PixelToCoord(q))
    BY <1>0, <1>2, <1>4 DEF HalfAPixel, Abs
  <1> QED
    BY <1>2, <1>4, <1>5, <1>6 DEF InBounds

-----------------------------------------------------------------------------
(* Raster: a VRT *)

\* findSource finds the first source that has the pixel.
LEMMA FindSourceRight ==
    ASSUME NEW r, NEW q, Len(r.sources) \in Nat
    PROVE  \/ /\ FindSource(r, q) = 0
              /\ \A k \in 1..Len(r.sources) : ~Has(r.sources[k], q)
           \/ /\ FindSource(r, q) \in 1..Len(r.sources)
              /\ Has(r.sources[FindSource(r, q)], q)
              /\ \A k \in 1..(FindSource(r, q) - 1) : ~Has(r.sources[k], q)
  <1> DEFINE I == {k \in 1..Len(r.sources) : Has(r.sources[k], q)}
             first == FindSource(r, q)
  <1>1. first = IF I # {} THEN Min(I) ELSE 0
    BY DEF FindSource, SelectInSeq
  <1>2. CASE I = {}
    BY <1>1, <1>2
  <1>3. CASE I # {}
    <2>1. I \in SUBSET Nat
      OBVIOUS
    <2>2. \E m \in I : \A k \in I : m <= k
      <3> HIDE DEF I
      <3> QED BY <1>3, <2>1, LeastNat
    <2>3. first = CHOOSE m \in I : \A k \in I : m =< k
      BY <1>1, <1>3, Zenon DEF Min
    <2>4. first \in I /\ \A k \in I : first <= k
      <3> HIDE DEF I, first
      <3> QED BY <2>2, <2>3
    <2>5. ASSUME NEW k \in 1..(first - 1) PROVE ~Has(r.sources[k], q)
      <3>1. first \in 1..Len(r.sources)
        BY <2>4
      <3>2. k \in 1..Len(r.sources) /\ ~(first <= k)
        <4> HIDE DEF first
        <4> QED BY <3>1
      <3>3. k \notin I
        BY <2>4, <3>2
      <3> QED BY <3>2, <3>3
    <2>6. first \in 1..Len(r.sources) /\ Has(r.sources[first], q)
      BY <2>4
    <2> QED BY <2>5, <2>6
  <1> QED
    BY <1>2, <1>3

\* A place scaled from a length to another: in it, and in the same part of it.
LEMMA Scaled ==
    ASSUME NEW d \in Nat \ {0}, NEW s \in Nat \ {0}, NEW o \in 0..(d - 1),
           NEW k, k = ((o * s) \div d)
    PROVE  k \in 0..(s - 1) /\ k * d <= o * s /\ o * s < (k + 1) * d
  <1>1. o * s \in Nat /\ d * s \in Nat /\ o * s < d * s
    <2>1. o + 1 <= d /\ o \in Nat /\ o + 1 \in Nat
      OBVIOUS
    <2>2. (o + 1) * s <= d * s /\ o * s \in Nat /\ d * s \in Nat
      BY <2>1, TimesMono
    <2>3. (o + 1) * s = o * s + s
      BY <2>1
    <2> QED BY <2>1, <2>2, <2>3
  <1>2. k \in Nat /\ ((o * s) % d) \in 0..(d - 1) /\ o * s = d * k + ((o * s) % d)
    BY <1>1, DivMod
  <1>3. d * k \in Nat /\ d * k = k * d /\ (k + 1) * d = k * d + d
    BY <1>2
  <1>4. k < s
    <2>1. SUFFICES ASSUME s <= k PROVE FALSE
      BY <1>2
    <2>2. d * s <= d * k
      BY <1>2, <2>1, TimesMono
    <2> QED BY <1>1, <1>2, <1>3, <2>2
  <1> QED
    BY <1>1, <1>2, <1>3, <1>4

Sources == {s \in [file : DOMAIN Files, src : Rects, dst : Rects] :
               s.src.width > 0 /\ s.src.height > 0}

\* The pixel of a source is in its rectangle, where the VRT's is in the other.
LEMMA SourcePixelRight ==
    ASSUME NEW s \in Sources, NEW q \in Pixels, Has(s, q)
    PROVE  /\ SourcePixel(s, q) \in Pixels
           /\ \E dx \in 0..(s.src.width - 1), dy \in 0..(s.src.height - 1) :
                 /\ SourcePixel(s, q) = Pixel(s.src.x + dx, s.src.y + dy)
                 /\ dx * s.dst.width <= (q.x - s.dst.x) * s.src.width
                 /\ (q.x - s.dst.x) * s.src.width < (dx + 1) * s.dst.width
                 /\ dy * s.dst.height <= (q.y - s.dst.y) * s.src.height
                 /\ (q.y - s.dst.y) * s.src.height < (dy + 1) * s.dst.height
  <1> DEFINE dx == ((q.x - s.dst.x) * s.src.width) \div s.dst.width
             dy == ((q.y - s.dst.y) * s.src.height) \div s.dst.height
  <1>0. s.src \in Rects /\ s.dst \in Rects
    BY DEF Sources
  <1>1. /\ s.src.width \in Nat \ {0} /\ s.src.height \in Nat \ {0}
        /\ s.dst.width \in Nat \ {0} /\ s.dst.height \in Nat \ {0}
        /\ s.src.x \in Int /\ s.src.y \in Int /\ s.dst.x \in Int /\ s.dst.y \in Int
    BY <1>0 DEF Rects, Sources, Has, Pixels
  <1>2. /\ q.x - s.dst.x \in 0..(s.dst.width - 1)
        /\ q.y - s.dst.y \in 0..(s.dst.height - 1)
    BY <1>1 DEF Has, Pixels
  <1>3. /\ dx \in 0..(s.src.width - 1) /\ dx * s.dst.width <= (q.x - s.dst.x) * s.src.width
        /\ (q.x - s.dst.x) * s.src.width < (dx + 1) * s.dst.width
    BY <1>1, <1>2, Scaled
  <1>4. /\ dy \in 0..(s.src.height - 1) /\ dy * s.dst.height <= (q.y - s.dst.y) * s.src.height
        /\ (q.y - s.dst.y) * s.src.height < (dy + 1) * s.dst.height
    BY <1>1, <1>2, Scaled
  <1>5. SourcePixel(s, q) = Pixel(s.src.x + dx, s.src.y + dy)
    BY DEF SourcePixel
  <1> HIDE DEF dx, dy
  <1>6. SourcePixel(s, q) \in Pixels
    BY <1>1, <1>3, <1>4, <1>5 DEF Pixel, Pixels
  <1> QED
    BY <1>3, <1>4, <1>5, <1>6

\* What is served.
LEMMA RasterIs ==
    ASSUME raster \in Rasters
    PROVE  /\ raster.width \in Nat \ {0} /\ raster.height \in Nat \ {0}
           /\ raster.kind \in {"tiff", "vrt"}
           /\ raster.kind = "tiff" =>
                 /\ raster.file \in DOMAIN Files
                 /\ raster.width = Files[raster.file].width /\ raster.height = Files[raster.file].height
           /\ raster.kind = "vrt" =>
                 /\ raster.sources \in Seq(Sources) /\ Len(raster.sources) \in Nat
                 /\ \A i \in 1..Len(raster.sources) : raster.sources[i] \in Sources
  <1>1. CASE \E f \in DOMAIN Files : raster = Tiff(f)
    BY <1>1, Sizes DEF Tiff
  <1>2. CASE \E m \in Mosaics : raster = VRT(m)
    <2>1. PICK m \in Mosaics : raster = VRT(m)
      BY <1>2
    <2>2. /\ m.width \in Nat \ {0} /\ m.height \in Nat \ {0} /\ m.sources \in Seq(Sources)
      BY MosaicsAssumption DEF Sources
    <2>3. /\ raster.kind = "vrt" /\ raster.sources = m.sources
          /\ raster.width = m.width /\ raster.height = m.height
      BY <2>1 DEF VRT
    <2> QED BY <2>2, <2>3
  <1> QED
    BY <1>1, <1>2 DEF Rasters

\* A VRT has no sample at a pixel: no source has it, or it is beyond the end of
\* the source's file, or the file's format is not read.
NoneOfVRT(q) ==
    LET s == raster.sources[FindSource(raster, q)] IN
    \/ FindSource(raster, q) = 0
    \/ ~InRaster(Files[s.file], SourcePixel(s, q))
    \/ ~Supported(s.file)

BeyondOfVRT(q) ==
    LET s == raster.sources[FindSource(raster, q)] IN
    FindSource(raster, q) # 0 /\ ~InBounds(Files[s.file], PixelToCoord(SourcePixel(s, q)))

\* loc of a VRT.
LEMMA VRTLocRight ==
    ASSUME raster \in Rasters, raster.kind = "vrt", NEW q \in Pixels, InRaster(raster, q)
    PROVE  /\ Loc(raster, q) \in Samples \cup {NoSample, Outside}
           /\ Loc(raster, q) = Outside <=> BeyondOfVRT(q)
           /\ Loc(raster, q) \notin Samples => NoneOfVRT(q)
           /\ Loc(raster, q) \in Samples /\ ReadRight => Shown(q, Loc(raster, q))
  <1> DEFINE i == FindSource(raster, q)
             s == raster.sources[i]
             sp == SourcePixel(s, q)
  <1>0. /\ Loc(raster, q) = VRTLoc(raster, q) /\ Len(raster.sources) \in Nat
        /\ DOMAIN raster.sources = 1..Len(raster.sources)
        /\ \A k \in 1..Len(raster.sources) : raster.sources[k] \in Sources
        /\ Outside # NoSample /\ Outside \notin Samples /\ NoSample \notin Samples
    BY RasterIs, OutsideAssumption, NoSampleAssumption DEF Loc
  <1>1. CASE i = 0
    BY <1>0, <1>1 DEF VRTLoc, NoneOfVRT, BeyondOfVRT
  <1>2. CASE i # 0
    <2>1. /\ i \in 1..Len(raster.sources) /\ Has(s, q)
          /\ \A k \in 1..(i - 1) : ~Has(raster.sources[k], q)
      BY <1>0, <1>2, FindSourceRight
    <2>2. s \in Sources /\ s.file \in DOMAIN Files
      BY <1>0, <2>1 DEF Sources
    <2>3. sp \in Pixels
      BY <2>1, <2>2, SourcePixelRight
    <2>4. /\ Files[s.file].width \in Nat /\ Files[s.file].height \in Nat
      BY <2>2, Sizes
    <2>5. Loc(raster, q) = IF InBounds(Files[s.file], PixelToCoord(sp))
                           THEN TiffLoc(s.file, CoordToPixel(PixelToCoord(sp))) ELSE Outside
      BY <1>0, <1>2 DEF VRTLoc, TiffAtCoord
    <2>6. BeyondOfVRT(q) <=> ~InBounds(Files[s.file], PixelToCoord(sp))
      BY <1>2 DEF BeyondOfVRT
    <2>7. NoneOfVRT(q) <=> ~InRaster(Files[s.file], sp) \/ ~Supported(s.file)
      BY <1>2 DEF NoneOfVRT
    <2>8. InRaster(Files[s.file], sp) =>
             /\ InBounds(Files[s.file], PixelToCoord(sp))
             /\ CoordToPixel(PixelToCoord(sp)) = sp
      BY <2>3, <2>4, PixelToCoordRight
    <2>9. InBounds(Files[s.file], PixelToCoord(sp)) => CoordToPixel(PixelToCoord(sp)) = sp
      <3>1. SUFFICES ASSUME InBounds(Files[s.file], PixelToCoord(sp))
                     PROVE  CoordToPixel(PixelToCoord(sp)) = sp
        OBVIOUS
      <3> HIDE DEF sp, s
      <3>2. Parts \in Nat \ {0} /\ sp.x \in Int /\ sp.y \in Int /\ sp = [x |-> sp.x, y |-> sp.y]
        BY <2>3, PartsAssumption DEF Pixels
      <3>3. sp.x * Parts \in Nat /\ sp.y * Parts \in Nat
        BY <2>4, <3>1, <3>2 DEF InBounds, PixelToCoord, Point
      <3>4. \A a \in Int : a * Parts \in Nat => a \in Nat
        BY <3>2
      <3>5. Round(sp.x * Parts) = sp.x /\ Round(sp.y * Parts) = sp.y
        BY <3>2, <3>3, <3>4, Rounding
      <3> QED BY <3>2, <3>5 DEF CoordToPixel, PixelToCoord, Point, Pixel
    <2> HIDE DEF sp, s, i
    <2>10. /\ TiffLoc(s.file, sp) \in Samples \cup {NoSample}
           /\ TiffLoc(s.file, sp) # NoSample =>
                 InRaster(Files[s.file], sp) /\ (~Misread(s.file) => TiffLoc(s.file, sp) = FileSample(s.file, sp))
           /\ InRaster(Files[s.file], sp) /\ Supported(s.file) => TiffLoc(s.file, sp) # NoSample
      BY <2>2, <2>3, TiffLocRight
    <2>11. ASSUME Loc(raster, q) \in Samples, ReadRight PROVE Shown(q, Loc(raster, q))
      <3>1. ~Misread(s.file)
        BY <1>0, <2>1, <2>11 DEF ReadRight, s
      <3>2. Loc(raster, q) = FileSample(s.file, sp)
        BY <1>0, <2>5, <2>9, <2>10, <2>11, <3>1
      <3>3. PICK dx \in 0..(s.src.width - 1), dy \in 0..(s.src.height - 1) :
                 /\ sp = Pixel(s.src.x + dx, s.src.y + dy)
                 /\ dx * s.dst.width <= (q.x - s.dst.x) * s.src.width
                 /\ (q.x - s.dst.x) * s.src.width < (dx + 1) * s.dst.width
                 /\ dy * s.dst.height <= (q.y - s.dst.y) * s.src.height
                 /\ (q.y - s.dst.y) * s.src.height < (dy + 1) * s.dst.height
        BY <2>1, <2>2, SourcePixelRight DEF sp
      <3>4. i \in DOMAIN raster.sources /\ raster.kind # "tiff"
        BY <1>0, <2>1
      <3> QED BY <2>1, <3>2, <3>3, <3>4, Zenon DEF Shown, s
    <2> QED BY <1>0, <2>5, <2>6, <2>7, <2>8, <2>9, <2>10, <2>11
  <1> QED
    BY <1>1, <1>2

\* loc of either: only of a pixel in the raster there is a sample, and it is the
\* one shown there.
LEMMA LocRight ==
    ASSUME raster \in Rasters, NEW q \in Pixels
    PROVE  /\ Loc(raster, q) \in Samples \cup {NoSample, Outside}
           /\ Loc(raster, q) \in Samples => InRaster(raster, q)
           /\ Loc(raster, q) \in Samples /\ ReadRight => Shown(q, Loc(raster, q))
           /\ Loc(raster, q) = Outside <=> raster.kind = "vrt" /\ InRaster(raster, q) /\ BeyondOfVRT(q)
           /\ Loc(raster, q) \notin Samples =>
                 \/ ~InRaster(raster, q)
                 \/ raster.kind = "tiff" /\ ~Supported(raster.file)
                 \/ raster.kind = "vrt" /\ NoneOfVRT(q)
  <1>0. Outside # NoSample /\ Outside \notin Samples /\ NoSample \notin Samples
    BY OutsideAssumption, NoSampleAssumption
  <1>1. CASE raster.kind = "tiff"
    <2>1. /\ raster.file \in DOMAIN Files /\ Loc(raster, q) = TiffLoc(raster.file, q)
          /\ InRaster(Files[raster.file], q) <=> InRaster(raster, q)
      BY <1>1, RasterIs DEF Loc, InRaster
    <2>2. /\ TiffLoc(raster.file, q) \in Samples \cup {NoSample}
          /\ TiffLoc(raster.file, q) # NoSample =>
                 /\ InRaster(Files[raster.file], q)
                 /\ ~Misread(raster.file) => TiffLoc(raster.file, q) = FileSample(raster.file, q)
          /\ InRaster(Files[raster.file], q) /\ Supported(raster.file) => TiffLoc(raster.file, q) # NoSample
      BY <2>1, TiffLocRight
    <2>3. ASSUME Loc(raster, q) \in Samples, ReadRight PROVE Shown(q, Loc(raster, q))
      BY <1>0, <1>1, <2>1, <2>2, <2>3 DEF ReadRight, Shown
    <2> QED BY <1>0, <1>1, <2>1, <2>2, <2>3
  <1>2. CASE raster.kind = "vrt" /\ InRaster(raster, q)
    BY <1>2, VRTLocRight
  <1>3. CASE raster.kind = "vrt" /\ ~InRaster(raster, q)
    <2>1. Loc(raster, q) = NoSample
      BY <1>3 DEF Loc, VRTLoc
    <2> QED BY <1>0, <1>3, <2>1
  <1> QED
    BY <1>1, <1>2, <1>3, RasterIs

-----------------------------------------------------------------------------
(* Profile: where a step goes *)

Sign(d) == IF d < 0 THEN -1 ELSE 1

\* How far the step goes on one side: what it should be, cut to a whole number of
\* pixels, or one less where a rounded increment falls short of one.
Reaches(d, s, n, k) ==
    /\ k \in Nat
    /\ s * k <= n * Abs(d) /\ n * Abs(d) <= s * k + s
    /\ n * Abs(d) = s * k + s => (d % s) # 0

LEMMA AlongRight ==
    ASSUME NEW d \in Int, NEW s \in Nat \ {0}, NEW n \in Nat, NEW v \in Along(d, s, n)
    PROVE  /\ v \in Int
           /\ \E k \in Nat : v = Sign(d) * k /\ Reaches(d, s, n, k)
  <1> DEFINE whole == (n * Abs(d)) \div s
             rest == (n * Abs(d)) % s
             short == whole > 0 /\ rest = 0 /\ ~Exact(d, s)
  <1>0. Abs(d) \in Nat /\ n * Abs(d) \in Nat /\ Sign(d) \in Int
    BY DEF Abs, Sign
  <1>1. whole \in Nat /\ rest \in 0..(s - 1) /\ n * Abs(d) = s * whole + rest /\ s * whole \in Nat
    <2>1. whole \in Nat /\ rest \in 0..(s - 1) /\ n * Abs(d) = s * whole + rest
      BY <1>0, DivMod
    <2> HIDE DEF whole
    <2> QED BY <2>1, TimesMono
  <1>2. v \in {Sign(d) * k : k \in {whole} \cup (IF short THEN {whole - 1} ELSE {})}
    BY DEF Along, Sign
  <1>3. (d % s) = 0 => Exact(d, s)
    BY Zenon DEF Exact
  <1> HIDE DEF whole, rest
  <1>4. PICK k \in {whole} \cup (IF short THEN {whole - 1} ELSE {}) : v = Sign(d) * k
    BY <1>2
  <1>5. CASE k = whole
    <2>1. Reaches(d, s, n, k)
      BY <1>0, <1>1, <1>5 DEF Reaches
    <2> QED BY <1>0, <1>1, <1>4, <1>5, <2>1
  <1>6. CASE k # whole
    <2>1. k = whole - 1 /\ whole > 0 /\ rest = 0 /\ (d % s) # 0
      BY <1>3, <1>4, <1>6
    <2>2. k \in Nat /\ s * whole = s * k + s
      BY <1>1, <2>1
    <2>3. Reaches(d, s, n, k)
      BY <1>0, <1>1, <2>1, <2>2 DEF Reaches
    <2> QED BY <1>0, <1>4, <2>2, <2>3
  <1> QED
    BY <1>5, <1>6

\* On the longer side every step is a pixel.
LEMMA LongerSide ==
    ASSUME NEW d \in Int, NEW s \in Nat \ {0}, Abs(d) = s, NEW n \in Nat, NEW v \in Along(d, s, n)
    PROVE  v = n * Sign(d)
  <1>1. PICK k \in Nat : v = Sign(d) * k /\ Reaches(d, s, n, k)
    BY AlongRight
  <1>2. (d % s) = 0
    <2>1. CASE d = s
      BY <2>1
    <2>2. CASE d = -s
      BY <2>2
    <2> QED BY <2>1, <2>2 DEF Abs
  <1>3. s * k <= n * s /\ n * s < s * k + s /\ s * k \in Nat /\ n * s \in Nat
    BY <1>1, <1>2 DEF Reaches
  <1>4. n * s = s * n /\ s * (k + 1) = s * k + s /\ s * (n + 1) = s * n + s
    BY <1>1
  <1>5. k = n
    <2>1. CASE k < n
      <3>1. s * (k + 1) <= s * n
        BY <1>1, <2>1, TimesMono
      <3> QED BY <1>3, <1>4, <3>1
    <2>2. CASE n < k
      <3>1. s * (n + 1) <= s * k
        BY <1>1, <2>2, TimesMono
      <3> QED BY <1>3, <1>4, <3>1
    <2> QED BY <2>1, <2>2, <1>1
  <1> QED
    BY <1>1, <1>5 DEF Sign

\* Two steps after each other are next to each other.
LEMMA NextAlong ==
    ASSUME NEW d \in Int, NEW s \in Nat \ {0}, Abs(d) <= s, NEW n \in Nat,
           NEW v \in Along(d, s, n), NEW w \in Along(d, s, n + 1)
    PROVE  Abs(v - w) <= 1
  <1>1. PICK k \in Nat : v = Sign(d) * k /\ Reaches(d, s, n, k)
    BY AlongRight
  <1>2. PICK m \in Nat : w = Sign(d) * m /\ Reaches(d, s, n + 1, m)
    <2>1. n + 1 \in Nat
      OBVIOUS
    <2> QED BY <2>1, AlongRight
  <1> DEFINE a == Abs(d)
  <1>3. a \in Nat /\ (n + 1) * a = n * a + a /\ n * a \in Nat
    BY DEF Abs
  <1>4. /\ s * k <= n * a /\ n * a <= s * k + s /\ (n * a = s * k + s => (d % s) # 0)
        /\ s * m <= n * a + a /\ n * a + a <= s * m + s
    BY <1>1, <1>2, <1>3 DEF Reaches
  <1>5. a = s => (d % s) = 0
    <2>1. CASE d = s
      BY <2>1
    <2>2. CASE d = -s
      BY <2>2
    <2> QED BY <2>1, <2>2 DEF Abs
  <1> HIDE DEF a
  <1>6. s * k \in Nat /\ s * m \in Nat /\ a <= s
    BY DEF a
  <1>7. m <= k + 1
    <2>1. SUFFICES ASSUME k + 2 <= m PROVE FALSE
      OBVIOUS
    <2>2. s * (k + 2) <= s * m
      BY <2>1, TimesMono
    <2>3. s * (k + 2) = s * k + s + s
      OBVIOUS
    <2>4. a = s /\ n * a = s * k + s
      BY <1>3, <1>4, <1>6, <2>2, <2>3
    <2> QED BY <1>4, <1>5, <2>4
  <1>8. k <= m + 1
    <2>1. SUFFICES ASSUME m + 2 <= k PROVE FALSE
      OBVIOUS
    <2>2. s * (m + 2) <= s * k
      BY <2>1, TimesMono
    <2>3. s * (m + 2) = s * m + s + s
      OBVIOUS
    <2> QED BY <1>3, <1>4, <1>6, <2>2, <2>3
  <1> QED
    BY <1>1, <1>2, <1>7, <1>8 DEF Sign, Abs

\* The first step goes nowhere, and the last to the end or one short of it.
LEMMA EndsAlong ==
    ASSUME NEW d \in Int, NEW s \in Nat \ {0}
    PROVE  /\ \A v \in Along(d, s, 0) : v = 0
           /\ \A v \in Along(d, s, s) : v \in Int /\ Abs(v - d) <= 1
  <1>1. ASSUME NEW v \in Along(d, s, 0) PROVE v = 0
    <2>1. PICK k \in Nat : v = Sign(d) * k /\ Reaches(d, s, 0, k)
      BY AlongRight
    <2>2. s * k <= 0 /\ s * k \in Nat
      BY <2>1 DEF Reaches, Abs
    <2>3. k = 0
      <3>1. SUFFICES ASSUME 1 <= k PROVE FALSE
        BY <2>1
      <3>2. s * 1 <= s * k
        BY <3>1, TimesMono
      <3> QED BY <2>2, <3>2
    <2> QED BY <2>1, <2>3 DEF Sign
  <1>2. ASSUME NEW v \in Along(d, s, s) PROVE v \in Int /\ Abs(v - d) <= 1
    <2>1. PICK k \in Nat : v = Sign(d) * k /\ Reaches(d, s, s, k)
      BY AlongRight
    <2> DEFINE a == Abs(d)
    <2>2. a \in Nat /\ s * k <= s * a /\ s * a <= s * k + s
      BY <2>1 DEF Reaches, Abs
    <2>3. s * k \in Nat /\ s * a \in Nat
      BY <2>2
    <2> HIDE DEF a
    <2>4. k <= a
      <3>1. SUFFICES ASSUME a + 1 <= k PROVE FALSE
        BY <2>2
      <3>2. s * (a + 1) <= s * k /\ s * (a + 1) = s * a + s
        BY <2>2, <3>1, TimesMono
      <3> QED BY <2>2, <2>3, <3>2
    <2>5. a <= k + 1
      <3>1. SUFFICES ASSUME k + 2 <= a PROVE FALSE
        BY <2>2
      <3>2. s * (k + 2) <= s * a /\ s * (k + 2) = s * k + s + s
        BY <2>2, <3>1, TimesMono
      <3> QED BY <2>2, <2>3, <3>2
    <2>6. d = Sign(d) * a
      BY DEF Sign, a, Abs
    <2> QED BY <2>1, <2>2, <2>4, <2>5, <2>6 DEF Sign, Abs
  <1> QED
    BY <1>1, <1>2

\* Off the line by no more than a pixel: of a step on both sides the shorter one
\* is at most one pixel from where the longer one puts it.
LEMMA Off2Sides ==
    ASSUME NEW d \in Int, NEW e \in Int, NEW s \in Nat \ {0}, Abs(d) = s, NEW n \in Nat,
           NEW v \in Along(d, s, n), NEW w \in Along(e, s, n)
    PROVE  Abs(d * w - e * v) <= s
  <1>1. v = n * Sign(d)
    BY LongerSide
  <1>2. PICK k \in Nat : w = Sign(e) * k /\ Reaches(e, s, n, k)
    BY AlongRight
  <1>3. d = Sign(d) * s /\ e = Sign(e) * Abs(e) /\ Abs(e) \in Nat
    BY DEF Sign, Abs
  <1>4. s * k <= n * Abs(e) /\ n * Abs(e) <= s * k + s /\ s * k \in Nat /\ n * Abs(e) \in Nat
    BY <1>2, <1>3 DEF Reaches
  <1>5. d * w = Sign(d) * Sign(e) * (s * k)
    BY <1>2, <1>3 DEF Sign
  <1>6. e * v = Sign(d) * Sign(e) * (n * Abs(e))
    <2> DEFINE a == Abs(e)
    <2>1. \A x, y \in Int : x * y = y * x /\ x * (-y) = -(x * y) /\ (-x) * y = -(x * y) /\ x * y \in Int
      OBVIOUS
    <2>2. /\ Sign(d) \in {1, -1} /\ Sign(e) \in {1, -1}
          /\ v = IF Sign(d) = 1 THEN n ELSE -n
          /\ e = IF Sign(e) = 1 THEN a ELSE -a
      BY <1>1, <1>3 DEF Sign
    <2> HIDE DEF a
    <2>3. e * v = IF Sign(d) = Sign(e) THEN n * a ELSE -(n * a)
      BY <1>3, <2>1, <2>2 DEF a
    <2>4. Sign(d) * Sign(e) = IF Sign(d) = Sign(e) THEN 1 ELSE -1
      BY <2>2
    <2>5. n * a \in Int
      BY <1>4 DEF a
    <2> QED BY <2>3, <2>4, <2>5 DEF a
  <1>7. d * w - e * v = Sign(d) * Sign(e) * (s * k - n * Abs(e))
    BY <1>4, <1>5, <1>6 DEF Sign
  <1> QED
    BY <1>4, <1>7 DEF Sign, Abs

-----------------------------------------------------------------------------
(* The invariant of Profile *)

Coords == [lat : Int, lon : Int]
Entries == [coord : Coords, elevation : Samples]
OfPath == request.kind = "path"

TypeInv ==
    /\ raster \in Rasters
    /\ \/ request.kind = "point" /\ request.point \in Coords
       \/ request.kind = "path" /\ request.path \in Seq(Coords \cup {None})
    /\ pc \in {"start", "segment", "walk", "done", "refused"}
    /\ seg \in Nat \ {0} /\ line \in [from : Pixels, to : Pixels, steps : Nat \ {0}]
    /\ j \in Nat /\ at \in Pixels /\ visited \subseteq Pixels
    /\ profile \in Seq(Entries) /\ failures \in Nat

\* How far a request can be, and what it was refused for.
PlaceInv ==
    /\ pc = "start" => seg = 1
    /\ pc \in {"segment", "walk"} => OfPath /\ Len(request.path) >= 2 /\ seg <= Len(request.path)
    /\ pc = "done" /\ OfPath => Len(request.path) >= 2 /\ seg = Len(request.path)
    /\ pc = "refused" =>
          /\ OfPath
          /\ \/ Len(request.path) < 2
             \/ \E i \in 1..(Len(request.path) - 1) :
                   ~WellFormed(i) \/ (raster.kind = "tiff" /\ ~Walkable(i))

\* The line is that of the segment, and the last step went along it to a pixel
\* that is visited.
LineInv ==
    pc = "walk" =>
        /\ seg < Len(request.path) /\ Walkable(seg)
        /\ line.from = CoordToPixel(request.path[seg]) /\ line.to = CoordToPixel(request.path[seg + 1])
        /\ line.steps = Steps(line.from, line.to)
        /\ j <= line.steps + 1
        /\ j > 0 => /\ line.from \in visited /\ at \in visited
                    /\ at.x - line.from.x \in Along(line.to.x - line.from.x, line.steps, j - 1)
                    /\ at.y - line.from.y \in Along(line.to.y - line.from.y, line.steps, j - 1)

\* A segment is walked or passed over for what it is.
SegmentInv ==
    OfPath => \A i \in 1..(seg - 1) :
                 Walked(i) \/ (raster.kind = "vrt" /\ WellFormed(i) /\ ~Walkable(i))

\* The profile has the elevations of visited pixels, and of all that have one
\* unless reading failed.
ProfileInv ==
    /\ \A k \in DOMAIN profile :
          \E q \in visited : Loc(raster, q) \in Samples /\ profile[k] = Entry(q, Loc(raster, q))
    /\ \A q \in visited :
          \/ failures > 0 \/ Loc(raster, q) \notin Samples
          \/ \E k \in DOMAIN profile : profile[k] = Entry(q, Loc(raster, q))

AnswerInv ==
    IF pc = "done" /\ ~OfPath
    THEN \/ answer = AtCoord(raster, request.point)
         \/ answer = NoSample /\ failures > 0 /\ InBounds(raster, request.point)
    ELSE answer = None

IInv == TypeInv /\ PlaceInv /\ LineInv /\ SegmentInv /\ ProfileInv /\ AnswerInv

\* The number of steps is the longer side, one at least.
LEMMA StepsRight ==
    ASSUME NEW from \in Pixels, NEW to \in Pixels, NEW s, s = Steps(from, to)
    PROVE  /\ s \in Nat \ {0} /\ Abs(to.x - from.x) <= s /\ Abs(to.y - from.y) <= s
           /\ Abs(to.x - from.x) # s /\ Abs(to.y - from.y) # s => to.x = from.x /\ to.y = from.y
  <1>1. /\ to.x - from.x \in Int /\ to.y - from.y \in Int
        /\ to.x \in Int /\ from.x \in Int /\ to.y \in Int /\ from.y \in Int
    BY DEF Pixels
  <1> QED
    BY <1>1 DEF Steps, Larger, Abs

\* The ends of a segment.
LEMMA PathPoint ==
    ASSUME TypeInv, OfPath, NEW i \in 1..Len(request.path)
    PROVE  request.path[i] \in Coords \cup {None}
  <1>1. request.path \in Seq(Coords \cup {None})
    BY DEF TypeInv, OfPath
  <1> QED
    BY <1>1

\* The ends of a segment that is walked are pixels.
LEMMA WalkableEnds ==
    ASSUME TypeInv, OfPath, NEW i \in Nat \ {0}, i < Len(request.path), Walkable(i)
    PROVE  /\ request.path[i] \in Coords /\ request.path[i + 1] \in Coords
           /\ CoordToPixel(request.path[i]) \in Pixels /\ CoordToPixel(request.path[i + 1]) \in Pixels
  <1>0. /\ Len(request.path) \in Nat /\ request.path \in Seq(Coords \cup {None})
        /\ raster.width \in Nat /\ raster.height \in Nat
    BY RasterIs DEF TypeInv, OfPath
  <1>1. i \in 1..Len(request.path) /\ i + 1 \in 1..Len(request.path)
    BY <1>0
  <1>2. request.path[i] \in Coords /\ request.path[i + 1] \in Coords
    BY <1>0, <1>1 DEF Walkable, WellFormed
  <1> QED
    BY <1>0, <1>2, CoordToPixelRight DEF Walkable, Coords

\* It holds at the start.
LEMMA InitIInv == Init => IInv
  <1> SUFFICES ASSUME Init PROVE IInv
    OBVIOUS
  <1>1. Pixel(0, 0) \in Pixels
    BY DEF Pixel, Pixels
  <1>2. \/ request.kind = "point" /\ request.point \in Coords
        \/ request.kind = "path" /\ request.path \in Seq(Coords \cup {None})
    <2>1. CASE \E p \in Points(raster) : request = [kind |-> "point", point |-> p]
      BY <2>1, PointsAssumption DEF Init, Coords
    <2>2. CASE \E path \in Paths(raster) : request = [kind |-> "path", path |-> path]
      BY <2>2, PathsAssumption DEF Init, Coords
    <2> QED BY <2>1, <2>2 DEF Init
  <1>3. TypeInv
    BY <1>1, <1>2 DEF Init, TypeInv, NoLine
  <1> QED
    BY <1>3 DEF Init, IInv, PlaceInv, LineInv, SegmentInv, ProfileInv, AnswerInv

\* What has been walked stays so, for the pixels visited are never fewer.
LEMMA SegmentsStay ==
    ASSUME UNCHANGED input, visited \subseteq visited'
    PROVE  /\ \A i : Walked(i) => Walked(i)'
           /\ \A i : WellFormed(i)' <=> WellFormed(i)
           /\ \A i : Walkable(i)' <=> Walkable(i)
           /\ OfPath' <=> OfPath
  <1>1. raster' = raster /\ request' = request
    BY DEF input
  <1> QED
    BY <1>1 DEF Walked, WellFormed, Walkable, OfPath

\* Actions that touch neither the profile nor the pixels visited.
LEMMA ProfileStays ==
    ASSUME ProfileInv, UNCHANGED <<input, visited, profile, failures>>
    PROVE  ProfileInv'
  BY DEF ProfileInv, input

\* A point is answered.
LEMMA AnswerPointIInv == IInv /\ AnswerPoint => IInv'
  <1> SUFFICES ASSUME IInv, AnswerPoint PROVE IInv'
    OBVIOUS
  <1>0. /\ TypeInv /\ PlaceInv /\ SegmentInv /\ ProfileInv /\ ~OfPath /\ failures \in Nat
        /\ raster' = raster /\ request' = request /\ pc' = "done" /\ visited' = visited
    BY DEF IInv, AnswerPoint, OfPath, TypeInv, input
  <1>1. failures' \in Nat /\ failures <= failures'
    BY <1>0 DEF AnswerPoint, Fails
  <1>2. TypeInv'
    BY <1>0, <1>1 DEF TypeInv, AnswerPoint
  <1>3. PlaceInv' /\ LineInv' /\ SegmentInv'
    BY <1>0 DEF PlaceInv, LineInv, SegmentInv, OfPath
  <1>4. ProfileInv'
    <2>1. profile' = profile
      BY DEF AnswerPoint
    <2> QED BY <1>0, <1>1, <2>1 DEF ProfileInv
  <1>5. AnswerInv'
    <2>1. CASE answer' = AtCoord(raster, request.point)
      BY <1>0, <2>1 DEF AnswerInv, OfPath
    <2>2. CASE ReadsFile(request.point) /\ Fails /\ answer' = NoSample
      <3>1. failures' > 0 /\ InBounds(raster, request.point)
        BY <1>0, <2>2 DEF Fails, ReadsFile
      <3> QED BY <1>0, <2>2, <3>1 DEF AnswerInv, OfPath
    <2> QED BY <2>1, <2>2 DEF AnswerPoint
  <1> QED
    BY <1>2, <1>3, <1>4, <1>5 DEF IInv

\* A path is refused or started.
LEMMA BeginIInv == IInv /\ Begin => IInv'
  <1> SUFFICES ASSUME IInv, Begin PROVE IInv'
    OBVIOUS
  <1>0. /\ OfPath /\ raster' = raster /\ request' = request /\ seg' = seg /\ visited' = visited
        /\ pc' = IF Len(request.path) < 2 THEN "refused" ELSE "segment"
        /\ pc = "start" /\ answer' = answer /\ profile' = profile /\ failures' = failures
    BY DEF Begin, OfPath, input
  <1>1. TypeInv'
    BY <1>0 DEF IInv, TypeInv, Begin
  <1>2. Len(request.path) \in Nat /\ seg = 1
    BY <1>0 DEF IInv, TypeInv, PlaceInv, OfPath
  <1>3. PlaceInv' /\ LineInv' /\ SegmentInv'
    BY <1>0, <1>2 DEF PlaceInv, LineInv, SegmentInv, OfPath
  <1>4. ProfileInv'
    BY <1>0 DEF IInv, ProfileInv
  <1>5. AnswerInv'
    BY <1>0 DEF IInv, AnswerInv, OfPath
  <1> QED
    BY <1>1, <1>3, <1>4, <1>5 DEF IInv

\* A segment is begun.
LEMMA SegmentIInv == IInv /\ Segment => IInv'
  <1> SUFFICES ASSUME IInv, Segment PROVE IInv'
    OBVIOUS
  <1>0. /\ raster' = raster /\ request' = request /\ seg' = seg /\ visited' = visited
        /\ pc = "segment" /\ pc' = "walk" /\ seg < Len(request.path) /\ Walkable(seg)
        /\ answer' = answer /\ profile' = profile /\ failures' = failures /\ j' = 0 /\ at' = at
        /\ line' = [from |-> CoordToPixel(request.path[seg]), to |-> CoordToPixel(request.path[seg + 1]),
                    steps |-> Steps(CoordToPixel(request.path[seg]), CoordToPixel(request.path[seg + 1]))]
    BY DEF Segment, input
  <1>1. OfPath /\ TypeInv /\ seg \in Nat \ {0}
    BY <1>0 DEF IInv, TypeInv, PlaceInv
  <1>2. /\ CoordToPixel(request.path[seg]) \in Pixels /\ CoordToPixel(request.path[seg + 1]) \in Pixels
    BY <1>0, <1>1, WalkableEnds
  <1>3. Steps(CoordToPixel(request.path[seg]), CoordToPixel(request.path[seg + 1])) \in Nat \ {0}
    BY <1>2, StepsRight
  <1>4. TypeInv'
    BY <1>0, <1>1, <1>2, <1>3 DEF TypeInv
  <1>5. PlaceInv'
    BY <1>0, <1>1 DEF IInv, PlaceInv, OfPath
  <1>6. LineInv'
    <2>1. Walkable(seg)'
      BY <1>0 DEF Walkable, WellFormed
    <2> QED BY <1>0, <1>3, <2>1 DEF LineInv
  <1>7. SegmentInv'
    BY <1>0, SegmentsStay DEF IInv, SegmentInv, input
  <1>8. ProfileInv'
    BY <1>0 DEF IInv, ProfileInv
  <1>9. AnswerInv'
    BY <1>0, <1>1 DEF IInv, AnswerInv, OfPath
  <1> QED
    BY <1>4, <1>5, <1>6, <1>7, <1>8, <1>9 DEF IInv

\* A segment is passed over, or the path refused.
LEMMA SkipSegmentIInv == IInv /\ SkipSegment => IInv'
  <1> SUFFICES ASSUME IInv, SkipSegment PROVE IInv'
    OBVIOUS
  <1>0. /\ raster' = raster /\ request' = request /\ visited' = visited
        /\ pc = "segment" /\ seg < Len(request.path) /\ ~Walkable(seg)
        /\ answer' = answer /\ profile' = profile /\ failures' = failures
        /\ UNCHANGED <<line, j, at, input>>
    BY DEF SkipSegment, input
  <1>1. OfPath /\ TypeInv /\ seg \in Nat \ {0} /\ Len(request.path) \in Nat
    BY <1>0 DEF IInv, TypeInv, PlaceInv, OfPath
  <1>2. ProfileInv'
    BY <1>0 DEF IInv, ProfileInv
  <1>3. CASE raster.kind = "vrt" /\ WellFormed(seg)
    <2>1. seg' = seg + 1 /\ pc' = pc
      BY <1>3 DEF SkipSegment
    <2>2. TypeInv' /\ PlaceInv' /\ LineInv' /\ AnswerInv'
      BY <1>0, <1>1, <2>1 DEF IInv, TypeInv, PlaceInv, LineInv, AnswerInv, OfPath
    <2>3. SegmentInv'
      <3>1. SUFFICES ASSUME NEW i \in 1..(seg' - 1)
                     PROVE  Walked(i)' \/ (raster'.kind = "vrt" /\ WellFormed(i)' /\ ~Walkable(i)')
        BY DEF SegmentInv
      <3>2. \A n : (Walked(n) => Walked(n)') /\ (WellFormed(n)' <=> WellFormed(n))
                   /\ (Walkable(n)' <=> Walkable(n))
        BY <1>0, SegmentsStay
      <3>3. CASE i = seg
        BY <1>0, <1>3, <3>2, <3>3
      <3>4. CASE i # seg
        <4>1. i \in 1..(seg - 1)
          BY <1>1, <2>1, <3>4
        <4> QED BY <1>0, <1>1, <3>2, <4>1 DEF IInv, SegmentInv
      <3> QED BY <3>3, <3>4
    <2> QED BY <1>2, <2>2, <2>3 DEF IInv
  <1>4. CASE ~(raster.kind = "vrt" /\ WellFormed(seg))
    <2>1. seg' = seg /\ pc' = "refused"
      BY <1>4 DEF SkipSegment
    <2>2. TypeInv' /\ LineInv' /\ AnswerInv'
      BY <1>0, <1>1, <2>1 DEF IInv, TypeInv, LineInv, AnswerInv, OfPath
    <2>3. ~WellFormed(seg) \/ (raster.kind = "tiff" /\ ~Walkable(seg))
      BY <1>0, <1>1, <1>4, RasterIs DEF TypeInv
    <2>4. seg \in 1..(Len(request.path) - 1)
      BY <1>0, <1>1
    <2>5. PlaceInv'
      <3>1. OfPath' /\ Len(request.path)' = Len(request.path)
        BY <1>0, <1>1 DEF OfPath
      <3>2. (~WellFormed(seg) \/ (raster.kind = "tiff" /\ ~Walkable(seg)))'
        BY <1>0, <2>1, <2>3 DEF WellFormed, Walkable
      <3> QED BY <1>0, <2>1, <2>4, <3>1, <3>2 DEF PlaceInv
    <2>6. SegmentInv'
      BY <1>0, <2>1, SegmentsStay DEF IInv, SegmentInv
    <2> QED BY <1>2, <2>2, <2>5, <2>6 DEF IInv
  <1> QED
    BY <1>3, <1>4

\* The last segment is done.
LEMMA FinishIInv == IInv /\ Finish => IInv'
  <1> SUFFICES ASSUME IInv, Finish PROVE IInv'
    OBVIOUS
  <1>0. /\ raster' = raster /\ request' = request /\ visited' = visited /\ seg' = seg
        /\ pc = "segment" /\ seg = Len(request.path) /\ pc' = "done"
        /\ answer' = answer /\ profile' = profile /\ failures' = failures
        /\ UNCHANGED <<line, j, at, input>>
    BY DEF Finish, input
  <1>1. OfPath
    BY <1>0 DEF IInv, PlaceInv
  <1>2. TypeInv' /\ PlaceInv' /\ LineInv' /\ AnswerInv'
    BY <1>0, <1>1 DEF IInv, TypeInv, PlaceInv, LineInv, AnswerInv, OfPath
  <1>3. SegmentInv'
    BY <1>0, SegmentsStay DEF IInv, SegmentInv
  <1>4. ProfileInv'
    BY <1>0 DEF IInv, ProfileInv
  <1> QED
    BY <1>2, <1>3, <1>4 DEF IInv

\* A pixel is visited: what the profile says of the visited pixels stays so, and
\* the pixel's own elevation is there, unless reading fails.
LEMMA VisitProfile ==
    ASSUME TypeInv, ProfileInv, UNCHANGED input, NEW q \in Pixels, Visit(q)
    PROVE  /\ ProfileInv' /\ visited' = visited \cup {q}
           /\ profile' \in Seq(Entries) /\ failures' \in Nat
  <1> DEFINE sample == Loc(raster, q)
  <1>0. /\ raster' = raster /\ raster \in Rasters /\ profile \in Seq(Entries) /\ failures \in Nat
        /\ visited' = visited \cup {q} /\ q \in visited' /\ visited \subseteq visited'
        /\ sample \in Samples \cup {NoSample, Outside}
        /\ NoSample \notin Samples /\ Outside \notin Samples
    BY LocRight, NoSampleAssumption, OutsideAssumption DEF TypeInv, input, Visit
  <1>1. CASE UNCHANGED <<profile, failures>> /\ (q \in visited \/ sample \notin Samples)
    <2>1. profile' \in Seq(Entries) /\ failures' \in Nat
      BY <1>0, <1>1
    <2>2. ASSUME NEW p \in visited'
          PROVE  \/ failures > 0 \/ Loc(raster, p) \notin Samples
                 \/ \E k \in DOMAIN profile : profile[k] = Entry(p, Loc(raster, p))
      BY <1>0, <1>1 DEF ProfileInv
    <2>3. \A k \in DOMAIN profile :
             \E p \in visited' : Loc(raster, p) \in Samples /\ profile[k] = Entry(p, Loc(raster, p))
      BY <1>0 DEF ProfileInv
    <2>4. ProfileInv'
      BY <1>0, <1>1, <2>2, <2>3 DEF ProfileInv
    <2> QED BY <1>0, <2>1, <2>4
  <1>2. CASE profile' = Append(profile, Entry(q, sample)) /\ failures' = failures /\ sample \in Samples
    <2>1. Entry(q, sample) \in Entries
      <3>1. InRaster(raster, q) /\ raster.width \in Nat /\ raster.height \in Nat
        BY <1>0, <1>2, LocRight, RasterIs
      <3>2. PixelToCoord(q) \in Coords
        BY <3>1, PixelToCoordRight DEF Coords
      <3> QED BY <1>2, <3>2 DEF Entry, Entries
    <2>2. profile' \in Seq(Entries) /\ failures' \in Nat
      BY <1>0, <1>2, <2>1
    <2>3. /\ DOMAIN profile = 1..Len(profile) /\ DOMAIN profile' = 1..(Len(profile) + 1)
          /\ Len(profile) \in Nat
          /\ \A k \in DOMAIN profile : k \in DOMAIN profile' /\ profile'[k] = profile[k]
          /\ Len(profile) + 1 \in DOMAIN profile' /\ profile'[Len(profile) + 1] = Entry(q, sample)
      BY <1>0, <1>2, <2>1
    <2>4. ASSUME NEW k \in DOMAIN profile'
          PROVE  \E p \in visited' : Loc(raster, p) \in Samples /\ profile'[k] = Entry(p, Loc(raster, p))
      <3>1. CASE k \in DOMAIN profile
        BY <1>0, <2>3, <3>1 DEF ProfileInv
      <3>2. CASE k = Len(profile) + 1
        BY <1>0, <1>2, <2>3, <3>2
      <3> QED BY <2>3, <3>1, <3>2
    <2>5. ASSUME NEW p \in visited'
          PROVE  \/ failures > 0 \/ Loc(raster, p) \notin Samples
                 \/ \E k \in DOMAIN profile' : profile'[k] = Entry(p, Loc(raster, p))
      <3>1. CASE p \in visited
        BY <2>3, <3>1 DEF ProfileInv
      <3>2. CASE p = q
        BY <2>3, <3>2
      <3> QED BY <1>0, <3>1, <3>2
    <2>6. ProfileInv'
      BY <1>0, <1>2, <2>4, <2>5 DEF ProfileInv
    <2> QED BY <1>0, <2>2, <2>6
  <1>3. CASE Fails /\ UNCHANGED profile
    <2>1. failures' \in Nat /\ failures' > 0
      BY <1>0, <1>3 DEF Fails
    <2>2. \A k \in DOMAIN profile :
             \E p \in visited' : Loc(raster, p) \in Samples /\ profile[k] = Entry(p, Loc(raster, p))
      BY <1>0 DEF ProfileInv
    <2>3. ProfileInv'
      BY <1>0, <1>3, <2>1, <2>2 DEF ProfileInv
    <2> QED BY <1>0, <1>3, <2>1, <2>3
  <1> QED
    <2>1. CASE q \in visited /\ UNCHANGED <<profile, failures>>
      BY <1>1, <2>1
    <2>2. CASE q \notin visited /\ UNCHANGED failures
               /\ profile' = IF sample \in {Outside, NoSample} THEN profile
                             ELSE Append(profile, Entry(q, sample))
      <3>1. CASE sample \in {Outside, NoSample}
        BY <1>0, <1>1, <2>2, <3>1
      <3>2. CASE sample \notin {Outside, NoSample}
        BY <1>0, <1>2, <2>2, <3>2
      <3> QED BY <3>1, <3>2
    <2>3. CASE Fails /\ UNCHANGED profile
      BY <1>3, <2>3
    <2> QED BY <2>1, <2>2, <2>3, Zenon DEF Visit

\* A step along the line.
LEMMA StepIInv == IInv /\ Step => IInv'
  <1> SUFFICES ASSUME IInv, Step PROVE IInv'
    OBVIOUS
  <1>0. /\ raster' = raster /\ request' = request /\ seg' = seg /\ line' = line /\ j' = j + 1
        /\ pc = "walk" /\ pc' = "walk" /\ j <= line.steps /\ answer' = answer /\ UNCHANGED input
    BY DEF Step, input
  <1>1. /\ OfPath /\ TypeInv /\ seg \in Nat \ {0} /\ j \in Nat
        /\ line.from \in Pixels /\ line.to \in Pixels /\ line.steps \in Nat \ {0}
    BY <1>0 DEF IInv, TypeInv, PlaceInv
  <1>2. PICK x \in Along(line.to.x - line.from.x, line.steps, j),
             y \in Along(line.to.y - line.from.y, line.steps, j) :
             at' = Pixel(line.from.x + x, line.from.y + y) /\ Visit(at')
    BY DEF Step
  <1>3. /\ line.from.x \in Int /\ line.from.y \in Int /\ line.to.x \in Int /\ line.to.y \in Int
        /\ line.from = Pixel(line.from.x, line.from.y)
        /\ line.to.x - line.from.x \in Int /\ line.to.y - line.from.y \in Int
    BY <1>1 DEF Pixels, Pixel
  <1>4. x \in Int /\ y \in Int
    BY <1>1, <1>3, AlongRight
  <1>5. at' \in Pixels /\ at'.x - line.from.x = x /\ at'.y - line.from.y = y
    BY <1>2, <1>3, <1>4 DEF Pixel, Pixels
  <1>6. /\ ProfileInv' /\ visited' = visited \cup {at'}
        /\ profile' \in Seq(Entries) /\ failures' \in Nat
    BY <1>0, <1>1, <1>2, <1>5, VisitProfile DEF IInv
  <1>7. TypeInv'
    BY <1>0, <1>1, <1>5, <1>6 DEF TypeInv
  <1>8. PlaceInv' /\ AnswerInv'
    BY <1>0, <1>1 DEF IInv, PlaceInv, AnswerInv, OfPath
  <1>9. SegmentInv'
    BY <1>0, <1>6, SegmentsStay DEF IInv, SegmentInv
  <1>10. LineInv'
    <2>1. Walkable(seg)' <=> Walkable(seg)
      BY <1>0, <1>6, SegmentsStay
    <2>2. line.from \in visited'
      <3>1. CASE j = 0
        <4>1. x = 0 /\ y = 0
          BY <1>1, <1>3, <3>1, EndsAlong
        <4>2. at' = line.from
          BY <1>2, <1>3, <4>1 DEF Pixel
        <4> QED BY <1>6, <4>2
      <3>2. CASE j # 0
        BY <1>0, <1>1, <1>6, <3>2 DEF IInv, LineInv
      <3> QED BY <3>1, <3>2
    <2>3. j' - 1 = j /\ j' <= line.steps + 1
      BY <1>0, <1>1
    <2>4. /\ at'.x - line.from.x \in Along(line.to.x - line.from.x, line.steps, j' - 1)
          /\ at'.y - line.from.y \in Along(line.to.y - line.from.y, line.steps, j' - 1)
      BY <1>2, <1>5, <2>3
    <2>5. at' \in visited'
      BY <1>6
    <2> QED BY <1>0, <2>1, <2>2, <2>3, <2>4, <2>5 DEF IInv, LineInv
  <1> QED
    BY <1>6, <1>7, <1>8, <1>9, <1>10 DEF IInv

\* A segment is walked to its end.
LEMMA EndSegmentIInv == IInv /\ EndSegment => IInv'
  <1> SUFFICES ASSUME IInv, EndSegment PROVE IInv'
    OBVIOUS
  <1>0. /\ raster' = raster /\ request' = request /\ seg' = seg + 1 /\ visited' = visited
        /\ pc = "walk" /\ pc' = "segment" /\ j > line.steps /\ UNCHANGED input
        /\ answer' = answer /\ profile' = profile /\ failures' = failures
        /\ UNCHANGED <<line, j, at>>
    BY DEF EndSegment, input
  <1>1. /\ OfPath /\ TypeInv /\ seg \in Nat \ {0} /\ j \in Nat /\ at \in Pixels
        /\ line.from \in Pixels /\ line.to \in Pixels /\ line.steps \in Nat \ {0}
        /\ seg < Len(request.path) /\ Len(request.path) \in Nat
    BY <1>0 DEF IInv, TypeInv, PlaceInv, LineInv, OfPath
  <1>2. /\ j = line.steps + 1 /\ j > 0 /\ j - 1 = line.steps
        /\ line.from = CoordToPixel(request.path[seg]) /\ line.to = CoordToPixel(request.path[seg + 1])
        /\ line.from \in visited /\ at \in visited
        /\ at.x - line.from.x \in Along(line.to.x - line.from.x, line.steps, line.steps)
        /\ at.y - line.from.y \in Along(line.to.y - line.from.y, line.steps, line.steps)
    <2>1. j <= line.steps + 1
      BY <1>0 DEF IInv, LineInv
    <2>2. j = line.steps + 1 /\ j > 0 /\ j - 1 = line.steps
      BY <1>0, <1>1, <2>1
    <2> QED BY <1>0, <2>2 DEF IInv, LineInv
  <1>3. Walked(seg)
    <2>1. /\ line.from.x \in Int /\ line.from.y \in Int /\ line.to.x \in Int /\ line.to.y \in Int
          /\ at.x \in Int /\ at.y \in Int
          /\ line.to.x - line.from.x \in Int /\ line.to.y - line.from.y \in Int
      BY <1>1 DEF Pixels
    <2>2. /\ Abs((at.x - line.from.x) - (line.to.x - line.from.x)) <= 1
          /\ Abs((at.y - line.from.y) - (line.to.y - line.from.y)) <= 1
      BY <1>1, <1>2, <2>1, EndsAlong
    <2>3. Near(at, line.to)
      BY <2>1, <2>2 DEF Near, Abs
    <2> QED BY <1>2, <2>3 DEF Walked
  <1>4. TypeInv' /\ PlaceInv' /\ LineInv' /\ AnswerInv'
    BY <1>0, <1>1 DEF IInv, TypeInv, PlaceInv, LineInv, AnswerInv, OfPath
  <1>5. ProfileInv'
    BY <1>0 DEF IInv, ProfileInv
  <1>6. SegmentInv'
    <2>1. SUFFICES ASSUME NEW i \in 1..(seg' - 1)
                   PROVE  Walked(i)' \/ (raster'.kind = "vrt" /\ WellFormed(i)' /\ ~Walkable(i)')
      BY DEF SegmentInv
    <2>2. \A n : (Walked(n) => Walked(n)') /\ (WellFormed(n)' <=> WellFormed(n))
                 /\ (Walkable(n)' <=> Walkable(n))
      BY <1>0, SegmentsStay
    <2>3. CASE i = seg
      BY <1>3, <2>2, <2>3
    <2>4. CASE i # seg
      <3>1. i \in 1..(seg - 1)
        BY <1>0, <1>1, <2>4
      <3> QED BY <1>0, <1>1, <2>2, <3>1 DEF IInv, SegmentInv
    <2> QED BY <2>3, <2>4
  <1> QED
    BY <1>4, <1>5, <1>6 DEF IInv

\* The invariant holds in every state.
THEOREM Invariant == Spec => []IInv
  <1>1. IInv /\ [Next]_vars => IInv'
    <2> SUFFICES ASSUME IInv, [Next]_vars PROVE IInv'
      OBVIOUS
    <2>1. CASE AnswerPoint
      BY <2>1, AnswerPointIInv
    <2>2. CASE Begin
      BY <2>2, BeginIInv
    <2>3. CASE Segment
      BY <2>3, SegmentIInv
    <2>4. CASE SkipSegment
      BY <2>4, SkipSegmentIInv
    <2>5. CASE Step
      BY <2>5, StepIInv
    <2>6. CASE EndSegment
      BY <2>6, EndSegmentIInv
    <2>7. CASE Finish
      BY <2>7, FinishIInv
    <2>8. CASE UNCHANGED vars
      <3>1. /\ raster' = raster /\ request' = request /\ pc' = pc /\ seg' = seg /\ line' = line /\ j' = j
            /\ at' = at /\ visited' = visited /\ profile' = profile /\ answer' = answer
            /\ failures' = failures /\ UNCHANGED input
        BY <2>8 DEF vars, input
      <3>2. TypeInv' /\ PlaceInv' /\ LineInv' /\ SegmentInv'
        BY <3>1, SegmentsStay DEF IInv, TypeInv, PlaceInv, LineInv, SegmentInv, OfPath
      <3>3. ProfileInv' /\ AnswerInv'
        BY <3>1 DEF IInv, ProfileInv, AnswerInv, OfPath
      <3> QED BY <3>2, <3>3 DEF IInv
    <2> QED BY <2>1, <2>2, <2>3, <2>4, <2>5, <2>6, <2>7, <2>8 DEF Next
  <1> QED
    BY <1>1, InitIInv, PTL DEF Spec

-----------------------------------------------------------------------------
(* What it means *)

\* The walk of a segment keeps to the line between its ends: exactly on the longer
\* side, and never more than a pixel off on the other, however floats round.
THEOREM WalksOnTheLine == Spec => []OnTheLine
  <1>1. IInv => OnTheLine
    <2> SUFFICES ASSUME IInv, pc = "walk", j > 0
                 PROVE  /\ at.x - line.from.x \in Exactly(line.to.x - line.from.x)
                        /\ at.y - line.from.y \in Exactly(line.to.y - line.from.y)
                        /\ Off(at) <= line.steps
      BY DEF OnTheLine
    <2> DEFINE d == line.to.x - line.from.x
               e == line.to.y - line.from.y
               v == at.x - line.from.x
               w == at.y - line.from.y
               s == line.steps
    <2>1. /\ line.from \in Pixels /\ line.to \in Pixels /\ s \in Nat \ {0} /\ j - 1 \in Nat
          /\ v \in Along(d, s, j - 1) /\ w \in Along(e, s, j - 1)
          /\ s = Steps(line.from, line.to)
      BY DEF IInv, TypeInv, LineInv
    <2>2. d \in Int /\ e \in Int
      BY <2>1 DEF Pixels
    <2>3. Abs(d) # s /\ Abs(e) # s => d = 0 /\ e = 0
      <3>1. /\ line.to.x \in Int /\ line.to.y \in Int
            /\ Abs(d) # s /\ Abs(e) # s => line.to.x = line.from.x /\ line.to.y = line.from.y
        BY <2>1, StepsRight DEF Pixels
      <3> QED BY <3>1
    <2>4. /\ Off(at) = Abs(d * w - e * v)
          /\ Exactly(d) = IF Abs(d) = s THEN {(j - 1) * Sign(d)} ELSE Int
          /\ Exactly(e) = IF Abs(e) = s THEN {(j - 1) * Sign(e)} ELSE Int
      BY DEF Off, Exactly, Sign
    <2> HIDE DEF d, e, v, w, s
    <2>5. v \in Int /\ w \in Int
      BY <2>1, <2>2, AlongRight
    <2>6. v \in Exactly(d) /\ w \in Exactly(e)
      BY <2>1, <2>2, <2>4, <2>5, LongerSide
    <2>7. Off(at) <= s
      <3>1. CASE Abs(d) = s
        BY <2>1, <2>2, <2>4, <3>1, Off2Sides
      <3>2. CASE Abs(e) = s
        <4>1. Abs(e * v - d * w) <= s
          BY <2>1, <2>2, <3>2, Off2Sides
        <4>2. \A a, b \in Int : Abs(a - b) = Abs(b - a)
          BY DEF Abs
        <4>3. \A a, b \in Int : a * b \in Int
          OBVIOUS
        <4>4. d * w \in Int /\ e * v \in Int
          BY <2>2, <2>5, <4>3
        <4> QED BY <2>4, <4>1, <4>2, <4>4
      <3>3. CASE d = 0 /\ e = 0
        <4>1. d * w = 0 /\ e * v = 0
          BY <2>5, <3>3
        <4> QED BY <2>1, <2>4, <4>1 DEF Abs
      <3> QED BY <2>3, <3>1, <3>2, <3>3
    <2> QED BY <2>6, <2>7 DEF d, e, v, w, s
  <1> QED
    BY <1>1, Invariant, PTL

\* A step of the walk goes to a pixel next to the last.
THEOREM WalksUnbroken == Spec => Unbroken
  <1>1. IInv /\ [Next]_vars => [pc = "walk" /\ j \in 1..line.steps => Near(at, at')]_vars
    <2> SUFFICES ASSUME IInv, Next, pc = "walk", j \in 1..line.steps PROVE Near(at, at')
      OBVIOUS
    <2>1. /\ line.from \in Pixels /\ line.to \in Pixels /\ line.steps \in Nat \ {0}
          /\ at \in Pixels /\ j - 1 \in Nat /\ (j - 1) + 1 = j
          /\ at.x - line.from.x \in Along(line.to.x - line.from.x, line.steps, j - 1)
          /\ at.y - line.from.y \in Along(line.to.y - line.from.y, line.steps, j - 1)
          /\ line.steps = Steps(line.from, line.to)
      BY DEF IInv, TypeInv, LineInv
    <2>2. /\ line.from.x \in Int /\ line.from.y \in Int /\ line.to.x \in Int /\ line.to.y \in Int
          /\ line.to.x - line.from.x \in Int /\ line.to.y - line.from.y \in Int
          /\ at.x \in Int /\ at.y \in Int
      BY <2>1 DEF Pixels
    <2>3. CASE Step
      <3>1. PICK x \in Along(line.to.x - line.from.x, line.steps, j),
                 y \in Along(line.to.y - line.from.y, line.steps, j) :
                 at' = Pixel(line.from.x + x, line.from.y + y)
        BY <2>3 DEF Step
      <3>2. /\ Abs(line.to.x - line.from.x) <= line.steps
            /\ Abs(line.to.y - line.from.y) <= line.steps
        BY <2>1, StepsRight
      <3>3. /\ Abs((at.x - line.from.x) - x) <= 1 /\ Abs((at.y - line.from.y) - y) <= 1
        <4>1. /\ x \in Along(line.to.x - line.from.x, line.steps, (j - 1) + 1)
              /\ y \in Along(line.to.y - line.from.y, line.steps, (j - 1) + 1)
          BY <2>1
        <4> QED BY <2>1, <2>2, <3>2, <4>1, NextAlong
      <3>4. x \in Int /\ y \in Int
        <4>1. j \in Nat
          BY <2>1
        <4> QED BY <2>1, <2>2, <4>1, AlongRight
      <3>5. at'.x = line.from.x + x /\ at'.y = line.from.y + y
        BY <3>1 DEF Pixel
      <3> QED BY <2>2, <3>3, <3>4, <3>5 DEF Near, Abs
    <2>4. CASE ~Step
      <3>1. at' = at
        BY <2>4 DEF Next, AnswerPoint, Begin, Segment, SkipSegment, EndSegment, Finish
      <3> QED BY <2>2, <3>1 DEF Near, Abs
    <2> QED BY <2>3, <2>4
  <1> QED
    BY <1>1, Invariant, PTL DEF Spec, Unbroken

\* A path is answered when each of its segments is walked, or lies outside a VRT.
THEOREM WalksSegments == Spec => []SegmentsWalked
  <1>1. IInv => SegmentsWalked
    BY DEF IInv, PlaceInv, SegmentInv, SegmentsWalked, OfPath
  <1> QED
    BY <1>1, Invariant, PTL

\* AtCoord in terms of loc.
LEMMA AtCoordRight ==
    ASSUME raster \in Rasters, NEW p \in Coords
    PROVE  /\ AtCoord(raster, p) \in Samples \cup {NoSample, Outside}
           /\ InBounds(raster, p) =>
                 /\ AtCoord(raster, p) = Loc(raster, CoordToPixel(p))
                 /\ CoordToPixel(p) \in Pixels /\ HalfAPixel(CoordToPixel(p), p)
                 /\ CoordToPixel(p).x \in 0..raster.width /\ CoordToPixel(p).y \in 0..raster.height
           /\ ~InBounds(raster, p) => AtCoord(raster, p) = Outside
  <1>1. raster.width \in Nat /\ raster.height \in Nat
    BY RasterIs
  <1>2. CASE InBounds(raster, p)
    <2>1. /\ CoordToPixel(p) \in Pixels /\ HalfAPixel(CoordToPixel(p), p)
          /\ CoordToPixel(p).x \in 0..raster.width /\ CoordToPixel(p).y \in 0..raster.height
      BY <1>1, <1>2, CoordToPixelRight DEF Coords
    <2>2. AtCoord(raster, p) = Loc(raster, CoordToPixel(p))
      BY <1>2 DEF AtCoord
    <2> QED BY <1>2, <2>1, <2>2, LocRight
  <1>3. CASE ~InBounds(raster, p)
    BY <1>3 DEF AtCoord
  <1> QED
    BY <1>2, <1>3

\* Every elevation of an answer and of a profile is the one the file has, at a
\* pixel no further than half a pixel from its point; and that of a profile is
\* what AtCoord gives.
THEOREM GivesElevationsRight == Spec => []ElevationsRight
  <1>1. IInv => ElevationsRight
    <2> SUFFICES ASSUME IInv, ReadRight
                 PROVE  /\ answer \notin {None, Outside, NoSample} =>
                              \E x \in 0..raster.width, y \in 0..raster.height :
                                  /\ InRaster(raster, Pixel(x, y))
                                  /\ HalfAPixel(Pixel(x, y), request.point)
                                  /\ Shown(Pixel(x, y), answer)
                        /\ \A k \in DOMAIN profile :
                              /\ \E q \in visited :
                                    /\ InRaster(raster, q) /\ HalfAPixel(q, profile[k].coord)
                                    /\ Shown(q, profile[k].elevation)
                              /\ AtCoord(raster, profile[k].coord) = profile[k].elevation
      BY DEF ElevationsRight
    <2>0. /\ raster \in Rasters /\ visited \subseteq Pixels
          /\ raster.width \in Nat /\ raster.height \in Nat
      BY RasterIs DEF IInv, TypeInv
    <2>1. ASSUME answer \notin {None, Outside, NoSample}
          PROVE  \E x \in 0..raster.width, y \in 0..raster.height :
                     /\ InRaster(raster, Pixel(x, y))
                     /\ HalfAPixel(Pixel(x, y), request.point)
                     /\ Shown(Pixel(x, y), answer)
      <3>1. ~OfPath /\ answer = AtCoord(raster, request.point)
        BY <2>1 DEF IInv, AnswerInv
      <3>2. request.point \in Coords
        BY <3>1 DEF IInv, TypeInv, OfPath
      <3> DEFINE q == CoordToPixel(request.point)
      <3>3. /\ InBounds(raster, request.point) /\ answer = Loc(raster, q) /\ q \in Pixels
            /\ HalfAPixel(q, request.point)
            /\ q.x \in 0..raster.width /\ q.y \in 0..raster.height
        BY <2>0, <2>1, <3>1, <3>2, AtCoordRight
      <3> HIDE DEF q
      <3>4. answer \in Samples
        BY <2>0, <2>1, <3>3, LocRight
      <3>5. InRaster(raster, q) /\ Shown(q, answer)
        BY <2>0, <3>3, <3>4, LocRight
      <3>6. q = Pixel(q.x, q.y)
        BY <3>3 DEF Pixels, Pixel
      <3> QED BY <3>3, <3>5, <3>6
    <2>2. ASSUME NEW k \in DOMAIN profile
          PROVE  /\ \E q \in visited :
                       /\ InRaster(raster, q) /\ HalfAPixel(q, profile[k].coord)
                       /\ Shown(q, profile[k].elevation)
                 /\ AtCoord(raster, profile[k].coord) = profile[k].elevation
      <3>1. PICK q \in visited : Loc(raster, q) \in Samples /\ profile[k] = Entry(q, Loc(raster, q))
        BY DEF IInv, ProfileInv
      <3>2. q \in Pixels /\ profile[k].coord = PixelToCoord(q) /\ profile[k].elevation = Loc(raster, q)
        BY <2>0, <3>1 DEF Entry
      <3>3. InRaster(raster, q) /\ Shown(q, Loc(raster, q))
        BY <2>0, <3>1, <3>2, LocRight
      <3>4. /\ InBounds(raster, PixelToCoord(q)) /\ CoordToPixel(PixelToCoord(q)) = q
            /\ HalfAPixel(q, PixelToCoord(q))
        BY <2>0, <3>2, <3>3, PixelToCoordRight
      <3>5. AtCoord(raster, PixelToCoord(q)) = Loc(raster, q)
        BY <3>4 DEF AtCoord
      <3> QED BY <3>2, <3>3, <3>4, <3>5
    <2> QED BY <2>1, <2>2
  <1> QED
    BY <1>1, Invariant, PTL

\* What is missing at a pixel, for the handlers.
LEMMA NothingThere ==
    ASSUME raster \in Rasters, NEW p, CoordToPixel(p) \in Pixels,
           Loc(raster, CoordToPixel(p)) \notin Samples
    PROVE  Nothing(p)
  BY LocRight DEF Nothing, NoneOfVRT, TheSource, ThePixel

\* A request about a point gets the same answer from both APIs, and the status
\* says what happened.
LEMMA PointReplies ==
    ASSUME IInv, Answered, OnePoint
    PROVE  /\ Rest.body = Grpc.body
           /\ Rest.status = 404 =>
                ~InBounds(raster, request.point) \/ BeyondSource(request.point)
           /\ ~InBounds(raster, request.point) => Rest.status = 404
           /\ BeyondSource(request.point) =>
                Rest.status = 404 \/ (Rest.status = 500 /\ failures > 0)
           /\ Rest.status = 500 => failures > 0 \/ Nothing(request.point)
           /\ <<Rest.status, Grpc.status>> \in {<<200, "OK">>, <<404, "NotFound">>, <<500, "Internal">>}
  <1> DEFINE p == request.point
             q == CoordToPixel(p)
  <1>0. /\ raster \in Rasters /\ p \in Coords /\ ~OfPath /\ pc = "done"
        /\ Outside # NoSample /\ Outside \notin Samples /\ NoSample \notin Samples
        /\ None \notin Samples \cup {Outside, NoSample}
    BY OutsideAssumption, NoSampleAssumption, NoneAssumption
       DEF IInv, TypeInv, PlaceInv, Answered, OnePoint, OfPath
  <1>1. \/ answer = AtCoord(raster, p)
        \/ answer = NoSample /\ failures > 0 /\ InBounds(raster, p)
    BY <1>0 DEF IInv, AnswerInv
  <1>2. AtCoord(raster, p) = Outside <=> ~InBounds(raster, p) \/ BeyondSource(p)
    <2>1. CASE ~InBounds(raster, p)
      BY <1>0, <2>1, AtCoordRight
    <2>2. CASE InBounds(raster, p)
      <3>1. AtCoord(raster, p) = Loc(raster, q) /\ q \in Pixels
        BY <1>0, <2>2, AtCoordRight
      <3>2. Loc(raster, q) = Outside <=> raster.kind = "vrt" /\ InRaster(raster, q) /\ BeyondOfVRT(q)
        BY <1>0, <3>1, LocRight
      <3>3. BeyondSource(p) <=> raster.kind = "vrt" /\ InRaster(raster, q) /\ BeyondOfVRT(q)
        BY DEF BeyondSource, BeyondOfVRT, TheSource, ThePixel
      <3> QED BY <2>2, <3>1, <3>2, <3>3
    <2> QED BY <2>1, <2>2
  <1>3. ASSUME AtCoord(raster, p) = NoSample PROVE Nothing(p)
    <2>1. InBounds(raster, p) /\ q \in Pixels /\ Loc(raster, q) = NoSample
      BY <1>0, <1>3, AtCoordRight
    <2> QED BY <1>0, <2>1, NothingThere
  <1>4. Rest = getElevationHandler /\ Grpc = GetElevation
    BY DEF Rest, Grpc
  <1> HIDE DEF p, q
  <1>5. CASE answer = Outside
    <2>1. getElevationHandler = Reply(404, None) /\ GetElevation = Reply("NotFound", None)
      BY <1>0, <1>5, Zenon DEF getElevationHandler, GetElevation
    <2>2. AtCoord(raster, p) = Outside
      BY <1>0, <1>1, <1>5
    <2> QED BY <1>2, <1>4, <2>1, <2>2 DEF Reply, p
  <1>6. CASE answer = NoSample
    <2>1. getElevationHandler = Reply(500, None) /\ GetElevation = Reply("Internal", None)
      BY <1>0, <1>6, Zenon DEF getElevationHandler, GetElevation
    <2>2. /\ InBounds(raster, p) /\ (failures > 0 \/ Nothing(p))
          /\ BeyondSource(p) => failures > 0
      BY <1>0, <1>1, <1>2, <1>3, <1>6
    <2> QED BY <1>2, <1>4, <2>1, <2>2 DEF Reply, p
  <1>7. CASE answer # Outside /\ answer # NoSample
    <2>1. getElevationHandler = Reply(200, answer) /\ GetElevation = Reply("OK", answer)
      BY <1>7, Zenon DEF getElevationHandler, GetElevation
    <2>2. AtCoord(raster, p) # Outside
      BY <1>0, <1>1, <1>7
    <2> QED BY <1>2, <1>4, <2>1, <2>2 DEF Reply, p
  <1> QED
    BY <1>5, <1>6, <1>7

\* So does a request about a path; a profile is empty only if no segment in the
\* raster has an elevation where it begins, or reading failed, and only what is no
\* path of the raster is refused.
LEMMA PathReplies ==
    ASSUME IInv, Answered, ~OnePoint
    PROVE  /\ Rest.body = Grpc.body \/ profile = << >>
           /\ Rest.status = 404 =>
                 \A i \in 1..(Len(request.path) - 1) :
                     Walkable(i) => failures > 0 \/ Nothing(request.path[i])
           /\ Rest.status = 500 =>
                 \/ Len(request.path) < 2
                 \/ \E p \in ToSet(request.path) :
                       p = None \/ (raster.kind = "tiff" /\ ~InBounds(raster, p))
  <1>0. /\ TypeInv /\ OfPath /\ raster \in Rasters /\ pc \in {"done", "refused"}
        /\ request.path \in Seq(Coords \cup {None}) /\ Len(request.path) \in Nat
    BY DEF IInv, TypeInv, Answered, OnePoint, OfPath
  <1>1. Rest = getProfileHandler /\ Grpc = GetProfile
    BY DEF Rest, Grpc
  <1>2. CASE pc = "refused"
    <2>1. getProfileHandler = Reply(500, None)
      BY <1>2, Zenon DEF getProfileHandler
    <2>2. GetProfile = Reply("InvalidArgument", None) \/ GetProfile = Reply("Internal", None)
      <3>1. CASE Len(request.path) < 2
        <4>1. ~(Len(request.path) > 1 /\ pc = "refused")
          BY <1>0, <3>1
        <4> QED BY <3>1, <4>1, Zenon DEF GetProfile
      <3>2. CASE ~(Len(request.path) < 2)
        <4>1. Len(request.path) > 1 /\ pc = "refused"
          BY <1>0, <1>2, <3>2
        <4> QED BY <3>2, <4>1, Zenon DEF GetProfile
      <3> QED BY <3>1, <3>2
    <2>3. ASSUME NEW i \in 1..(Len(request.path) - 1),
                 ~WellFormed(i) \/ (raster.kind = "tiff" /\ ~Walkable(i))
          PROVE  \E p \in ToSet(request.path) :
                     p = None \/ (raster.kind = "tiff" /\ ~InBounds(raster, p))
      <3>1. /\ request.path[i] \in ToSet(request.path) /\ request.path[i + 1] \in ToSet(request.path)
        <4>1. i \in DOMAIN request.path /\ i + 1 \in DOMAIN request.path
          BY <1>0
        <4> QED BY <4>1 DEF ToSet
      <3> QED BY <2>3, <3>1 DEF WellFormed, Walkable
    <2>4. \/ Len(request.path) < 2
          \/ \E p \in ToSet(request.path) :
                p = None \/ (raster.kind = "tiff" /\ ~InBounds(raster, p))
      BY <1>2, <2>3 DEF IInv, PlaceInv
    <2>5. Rest.body = Grpc.body /\ Rest.status # 404
      BY <1>1, <2>1, <2>2 DEF Reply
    <2> QED BY <2>4, <2>5
  <1>3. CASE pc = "done"
    <2>1. Len(request.path) >= 2 /\ seg = Len(request.path)
      BY <1>0, <1>3 DEF IInv, PlaceInv
    <2>2. CASE profile = << >>
      <3>1. getProfileHandler = Reply(404, None)
        BY <1>3, <2>2, Zenon DEF getProfileHandler
      <3>2. ASSUME NEW i \in 1..(Len(request.path) - 1), Walkable(i)
            PROVE  failures > 0 \/ Nothing(request.path[i])
        <4>1. CoordToPixel(request.path[i]) \in visited
          BY <1>0, <2>1, <3>2 DEF IInv, SegmentInv, Walked
        <4>2. CoordToPixel(request.path[i]) \in Pixels
          BY <1>0, <4>1 DEF TypeInv
        <4>3. failures > 0 \/ Loc(raster, CoordToPixel(request.path[i])) \notin Samples
          BY <2>2, <4>1 DEF IInv, ProfileInv
        <4> QED BY <1>0, <4>2, <4>3, NothingThere
      <3>3. Rest.status # 500
        BY <1>1, <3>1 DEF Reply
      <3> QED BY <2>2, <3>2, <3>3
    <2>3. CASE profile # << >>
      <3>1. getProfileHandler = Reply(200, profile)
        BY <1>3, <2>3, Zenon DEF getProfileHandler
      <3>2. GetProfile = Reply("OK", profile)
        <4>1. ~(Len(request.path) < 2) /\ ~(Len(request.path) > 1 /\ pc = "refused")
          BY <1>0, <1>3, <2>1
        <4> QED BY <4>1, Zenon DEF GetProfile
      <3> QED BY <1>1, <3>1, <3>2 DEF Reply
    <2> QED BY <2>2, <2>3
  <1> QED
    BY <1>0, <1>2, <1>3

\* The two APIs tell a client the same, and the statuses say what happened.
THEOREM GivesRepliesRight == Spec => []RepliesRight
  <1>1. IInv => RepliesRight
    BY PointReplies, PathReplies DEF RepliesRight
  <1> QED
    BY <1>1, Invariant, PTL
=============================================================================
