--------------------------- MODULE OpeningProofs ---------------------------
(***************************************************************************)
(* Opening a GeoTIFF over chunked reads: parallelReadAt fills what it      *)
(* reports to have read, and the values of the tags are the object's.      *)
(***************************************************************************)
EXTENDS PrefixReader, ParallelRead, FiniteSetTheorems, SequenceTheorems, WellFoundedInduction, TLAPS

-----------------------------------------------------------------------------
(* The invariant of OpenWithCache *)

Byte == Nat \cup {None}
Nonempty == {r \in Ranges : r.start < r.end}
Extent == [off : Nat, data : Seq(Byte)]

OpenTypeOK ==
    /\ pc \in {"prefix", "directory", "collect", "merge", "fetch", "tags", "opened", "failed"}
    /\ directory \in Directories /\ entries \in Entries
    /\ wrapped \in BOOLEAN /\ prefix \in Seq(Byte) /\ extra \in Seq(Extent)
    /\ missing \in Seq(Nonempty) /\ groups \in 0..Len(missing)
    /\ at \in Nat \ {0} /\ running \subseteq 1..groups
    /\ results \in Seq(Seq(Byte))
    /\ values \in Seq(Seq(Byte)) /\ fallbacks \subseteq DOMAIN entries

\* A byte in memory is the one its place has in the object; behind the object's
\* end it may be anything.
Right(x) == \A i \in 1..Len(x.data) : x.off + i - 1 < ObjectSize => x.data[i] = x.off + i - 1

MemoryRight == Right(Block(0, prefix)) /\ \A i \in DOMAIN extra : Right(extra[i])

\* A group was read whole, or left out.
ResultsRight == \A g \in DOMAIN results : results[g] \in {<< >>, Fetched(missing[g])}

InGroup(t, g) == missing[g].start <= entries[t].start /\ entries[t].end <= missing[g].end

\* What the loop over missing has ahead of it is in order and not overwritten.
Ahead ==
    /\ groups \in 1..(at - 1) /\ at <= Len(missing) + 1
    /\ \A i \in at..Len(missing) :
          /\ missing[groups].start <= missing[i].start
          /\ \A j \in i..Len(missing) : missing[i].start <= missing[j].start

\* No range is lost: each is in memory, ahead of the loop or in a group.
NoneLost(ahead) ==
    \A t \in DOMAIN entries :
        \/ Covers(entries[t])
        \/ \E i \in ahead : missing[i] = entries[t]
        \/ \E g \in 1..groups : InGroup(t, g)

\* The groups up to n that were read are in memory.
Added(n) ==
    /\ DOMAIN results = 1..groups
    /\ \A g \in 1..n : results[g] # << >> =>
          \E i \in DOMAIN extra : extra[i] = Block(missing[g].start, results[g])

NothingMerged == missing = << >> /\ groups = 0 /\ results = << >>

PlacesRight ==
    /\ pc \in {"prefix", "directory", "collect"} => NothingMerged /\ at = 1
    /\ pc = "merge" => results = << >> /\ Ahead /\ NoneLost(at..Len(missing))
    /\ pc = "fetch" =>
          at \in 1..groups /\ (running # {} => at = 1) /\ NoneLost({}) /\ Added(at - 1)
    /\ pc = "tags" /\ wrapped => NoneLost({}) /\ Added(groups)
    /\ pc \notin {"tags", "opened", "failed"} => values = << >> /\ fallbacks = {}
    /\ pc = "tags" => Len(values) = at - 1
    /\ Len(values) <= Len(entries)

OpenInv ==
    /\ OpenTypeOK /\ MemoryRight /\ ResultsRight /\ PlacesRight
    /\ TagsRight /\ NoTagReadAlone

-----------------------------------------------------------------------------
(* Bytes read and kept *)

\* The first of the places at which something holds.
LEMMA LeastNat ==
  ASSUME NEW S \in SUBSET Nat, S # {}
  PROVE \E m \in S : \A k \in S : m <= k
  <1>1. PICK R : R = OpToRel(<, Nat)
    OBVIOUS
  <1>2. R = {p \in Nat \X Nat : p[1] < p[2]}
    BY <1>1 DEF OpToRel
  <1>3. IsWellFoundedOn(R, Nat)
    BY <1>1, NatLessThanWellFounded
  <1>4. PICK m \in S : \A k \in S : <<k, m>> \notin R
    BY <1>3, WFMin
  <1>5. ASSUME NEW k \in S PROVE m <= k
    <2>1. <<k, m>> \in Nat \X Nat /\ <<k, m>> \notin R
      BY <1>4
    <2>2. ~(<<k, m>>[1] < <<k, m>>[2])
      BY <1>2, <2>1
    <2> QED
      BY <2>2
  <1> QED
    BY <1>5

LEMMA RangesOfTags ==
  ASSUME entries \in Entries, NEW t \in DOMAIN entries
  PROVE /\ entries \in Seq(Nonempty) /\ entries[t] \in Nonempty
        /\ entries[t] \in Ranges /\ entries[t].start < entries[t].end
  <1>1. entries \in Seq(Nonempty)
    BY RangesAssumption DEF Nonempty
  <1>2. entries[t] \in Nonempty
    BY <1>1, ElementOfSeq, LenProperties
  <1> QED
    BY <1>1, <1>2 DEF Nonempty

\* The bytes of a range, one for each place.
LEMMA BytesOfRange ==
  ASSUME NEW r \in Ranges, r.start <= r.end
  PROVE /\ BytesOf(r) \in Seq(Byte) /\ Len(BytesOf(r)) = r.end - r.start
        /\ DOMAIN BytesOf(r) = 1..(r.end - r.start)
        /\ \A i \in 1..(r.end - r.start) : BytesOf(r)[i] = r.start + i - 1
  <1>1. r.start \in Nat /\ r.end \in Nat /\ r.end - r.start \in Nat
    BY DEF Ranges
  <1>2. \A i \in 1..(r.end - r.start) : r.start + i - 1 \in Byte
    BY <1>1 DEF Byte
  <1>3. [i \in 1..(r.end - r.start) |-> r.start + i - 1] \in Seq(Byte)
    BY <1>1, <1>2, IsASeq
  <1> QED
    BY <1>1, <1>3, LenProperties DEF BytesOf

\* What a read of a range leaves: no more than was asked for, all that the
\* object has of it, each byte at its place.
LEMMA FetchedRight ==
  ASSUME NEW r \in Ranges, r.start <= r.end
  PROVE /\ Fetched(r) \in Seq(Byte) /\ Len(Fetched(r)) <= r.end - r.start
        /\ \A p \in Nat : p <= r.end /\ p <= ObjectSize => p <= r.start + Len(Fetched(r))
        /\ Right(Block(r.start, Fetched(r)))
        /\ \A i \in 1..Len(Fetched(r)) : r.start + i - 1 >= ObjectSize => Fetched(r)[i] = None
        /\ Len(Fetched(r)) = IF r.end - r.start <= ChunkSize
                             THEN Larger(r.start, Smaller(r.end, ObjectSize)) - r.start
                             ELSE r.end - r.start
  <1> DEFINE last == Larger(r.start, Smaller(r.end, ObjectSize))
             present == BytesOf([r EXCEPT !.end = last])
             rest == r.end - r.start - Len(present)
             tail == [i \in 1..rest |-> None]
  <1>1. /\ r.start \in Nat /\ r.end \in Nat /\ ObjectSize \in Nat /\ last \in Nat
        /\ r.start <= last /\ last <= r.end
        /\ \A p \in Nat : p <= r.end /\ p <= ObjectSize => p <= last
    BY SizesAssumption DEF Ranges, Larger, Smaller
  <1>2. [r EXCEPT !.end = last] = [start |-> r.start, end |-> last]
    BY DEF Ranges
  <1>3. /\ present \in Seq(Byte) /\ Len(present) = last - r.start
        /\ \A i \in 1..(last - r.start) : present[i] = r.start + i - 1
    <2>1. [start |-> r.start, end |-> last] \in Ranges
      BY <1>1 DEF Ranges
    <2> QED
      BY <1>1, <1>2, <2>1, BytesOfRange
  <1>4. rest \in Nat /\ rest = r.end - last
    BY <1>1, <1>3
  <1>5. tail \in Seq(Byte) /\ Len(tail) = rest
    <2>1. tail \in Seq(Byte)
      BY <1>4, IsASeq DEF Byte
    <2> QED
      BY <1>4, <2>1, LenProperties
  <1>6. /\ present \o tail \in Seq(Byte) /\ Len(present \o tail) = r.end - r.start
        /\ \A i \in 1..Len(present) : (present \o tail)[i] = present[i]
        /\ \A i \in 1..(r.end - r.start) : i > Len(present) => (present \o tail)[i] = None
    <2>0. \A i \in 1..rest : tail[i] = None
      OBVIOUS
    <2> HIDE DEF last, present, tail, rest
    <2>1. present \o tail \in Seq(Byte) /\ Len(present \o tail) = Len(present) + Len(tail)
      BY <1>3, <1>5, ConcatProperties
    <2>2. \A i \in 1..Len(present) : (present \o tail)[i] = present[i]
      BY <1>1, <1>3, <1>5, ConcatProperties
    <2>3. ASSUME NEW i \in 1..(r.end - r.start), i > Len(present) PROVE (present \o tail)[i] = None
      <3>1. i - Len(present) \in 1..rest /\ i \in 1..(Len(present) + Len(tail))
        <4>1. /\ Len(present) \in Nat /\ Len(tail) = rest
              /\ r.end - r.start = Len(present) + rest
          BY ONLY <1>1, <1>3, <1>4, <1>5
        <4> QED
          BY ONLY <1>1, <1>4, <2>3, <4>1
      <3>2. (present \o tail)[i] = tail[i - Len(present)]
        BY <1>3, <1>5, <2>3, <3>1, ConcatProperties
      <3> QED
        BY <2>0, <3>1, <3>2
    <2> QED
      <3>1. Len(present \o tail) = r.end - r.start
        BY <1>1, <1>3, <1>4, <1>5, <2>1
      <3> QED
        BY <2>1, <2>2, <2>3, <3>1
  <1>7. Fetched(r) = IF r.end - r.start <= ChunkSize THEN present ELSE present \o tail
    BY DEF Fetched
  <1> HIDE DEF last, present, rest, tail
  <1>8. /\ Fetched(r) \in Seq(Byte)
        /\ Len(Fetched(r)) <= r.end - r.start /\ last - r.start <= Len(Fetched(r))
        /\ \A i \in 1..(last - r.start) : Fetched(r)[i] = r.start + i - 1
        /\ \A i \in 1..Len(Fetched(r)) : i > last - r.start => Fetched(r)[i] = None
        /\ Len(Fetched(r)) = IF r.end - r.start <= ChunkSize THEN last - r.start ELSE r.end - r.start
    BY <1>1, <1>3, <1>6, <1>7
  <1>9. Right(Block(r.start, Fetched(r)))
    <2> SUFFICES ASSUME NEW i \in 1..Len(Fetched(r)), r.start + i - 1 < ObjectSize
                 PROVE Fetched(r)[i] = r.start + i - 1
      BY DEF Right, Block
    <2>1. Len(Fetched(r)) \in Nat
      BY <1>8, LenProperties
    <2>2. i \in 1..(last - r.start)
      BY <1>1, <1>8, <2>1
    <2> QED
      BY <1>8, <2>2
  <1>10. ASSUME NEW p \in Nat, p <= r.end, p <= ObjectSize
         PROVE p <= r.start + Len(Fetched(r))
    BY <1>1, <1>8, <1>10, LenProperties
  <1>11. ASSUME NEW i \in 1..Len(Fetched(r)), r.start + i - 1 >= ObjectSize
         PROVE Fetched(r)[i] = None
    <2>1. Len(Fetched(r)) \in Nat
      BY <1>8, LenProperties
    <2>2. i > last - r.start
      <3>1. last = r.start \/ last <= ObjectSize
        BY <1>1 DEF last, Larger, Smaller
      <3> QED
        BY <1>1, <1>11, <2>1, <3>1
    <2> QED
      BY <1>8, <2>2
  <1> QED
    BY <1>8, <1>9, <1>10, <1>11 DEF last

\* The blocks in memory: the prefix, then the extents.
LEMMA BlocksAre ==
  ASSUME NEW x \in Seq(Extent), NEW p \in Seq(Byte)
  PROVE LET blocks == <<Block(0, p)>> \o x
        IN /\ DOMAIN blocks = 1..(Len(x) + 1) /\ blocks[1] = Block(0, p)
           /\ \A i \in 1..(Len(x) + 1) :
                 blocks[i] \in Extent /\ (i > 1 => blocks[i] = x[i - 1])
           /\ \A i \in DOMAIN x : i + 1 \in DOMAIN blocks /\ blocks[i + 1] = x[i]
  <1> DEFINE blocks == <<Block(0, p)>> \o x
  <1>1. Block(0, p) \in Extent
    BY DEF Block, Extent
  <1>2. /\ Len(<<Block(0, p)>>) = 1 /\ <<Block(0, p)>>[1] = Block(0, p)
        /\ <<Block(0, p)>> \in Seq(Extent)
    BY <1>1
  <1>3. /\ blocks \in Seq(Extent) /\ Len(blocks) = Len(x) + 1
        /\ \A i \in 1..Len(blocks) :
              blocks[i] = IF i <= 1 THEN <<Block(0, p)>>[i] ELSE x[i - 1]
    BY <1>2, ConcatProperties, LenProperties
  <1> HIDE DEF blocks
  <1>4. DOMAIN blocks = 1..(Len(x) + 1) /\ Len(x) \in Nat /\ DOMAIN x = 1..Len(x)
    BY <1>3, LenProperties
  <1>5. ASSUME NEW i \in 1..(Len(x) + 1)
        PROVE blocks[i] \in Extent /\ (i > 1 => blocks[i] = x[i - 1])
    <2>1. blocks[i] \in Extent
      BY <1>3, <1>4, <1>5, ElementOfSeq
    <2> QED
      BY <1>3, <1>4, <2>1
  <1>6. blocks[1] = Block(0, p)
    BY <1>2, <1>3, <1>4
  <1>7. \A i \in DOMAIN x : i + 1 \in DOMAIN blocks /\ blocks[i + 1] = x[i]
    <2> SUFFICES ASSUME NEW i \in DOMAIN x
                 PROVE i + 1 \in 1..(Len(x) + 1) /\ blocks[i + 1] = x[i]
      BY <1>4
    <2>1. i + 1 \in 1..(Len(x) + 1) /\ i + 1 > 1 /\ i + 1 - 1 = i
      BY <1>4
    <2> QED
      BY <1>5, <2>1
  <1> QED
    BY <1>4, <1>5, <1>6, <1>7 DEF blocks

LEMMA Appended ==
  ASSUME NEW x \in Seq(Extent), NEW e \in Extent
  PROVE /\ Append(x, e) \in Seq(Extent)
        /\ \A i \in DOMAIN x : i \in DOMAIN Append(x, e) /\ Append(x, e)[i] = x[i]
        /\ \E i \in DOMAIN Append(x, e) : Append(x, e)[i] = e
        /\ \A i \in DOMAIN Append(x, e) :
              Append(x, e)[i] = e \/ (i \in DOMAIN x /\ Append(x, e)[i] = x[i])
  <1>1. /\ Append(x, e) \in Seq(Extent) /\ Len(Append(x, e)) = Len(x) + 1
        /\ \A i \in 1..Len(x) : Append(x, e)[i] = x[i]
        /\ Append(x, e)[Len(x) + 1] = e
    BY AppendProperties
  <1>2. Len(x) \in Nat /\ DOMAIN x = 1..Len(x) /\ DOMAIN Append(x, e) = 1..(Len(x) + 1)
    BY <1>1, LenProperties
  <1> QED
    BY <1>1, <1>2

\* A range is in memory when the prefix or an extent holds it.
LEMMA HeldBy ==
  ASSUME NEW x \in Seq(Extent), NEW p \in Seq(Byte), NEW r
  PROVE (\E i \in DOMAIN (<<Block(0, p)>> \o x) : Holds((<<Block(0, p)>> \o x)[i], r))
          <=> Holds(Block(0, p), r) \/ \E i \in DOMAIN x : Holds(x[i], r)
  <1> DEFINE blocks == <<Block(0, p)>> \o x
  <1>1. /\ DOMAIN blocks = 1..(Len(x) + 1) /\ blocks[1] = Block(0, p)
        /\ \A i \in 1..(Len(x) + 1) : i > 1 => blocks[i] = x[i - 1]
        /\ \A i \in DOMAIN x : i + 1 \in DOMAIN blocks /\ blocks[i + 1] = x[i]
        /\ Len(x) \in Nat /\ DOMAIN x = 1..Len(x)
    BY BlocksAre, LenProperties
  <1> HIDE DEF blocks
  <1>2. ASSUME NEW i \in DOMAIN blocks, Holds(blocks[i], r)
        PROVE Holds(Block(0, p), r) \/ \E k \in DOMAIN x : Holds(x[k], r)
    <2>1. CASE i = 1
      BY <1>1, <1>2, <2>1
    <2>2. CASE i # 1
      <3>1. i > 1 /\ i - 1 \in DOMAIN x
        BY <1>1, <2>2
      <3> QED
        BY <1>1, <1>2, <3>1
    <2> QED
      BY <2>1, <2>2
  <1>3. 1 \in DOMAIN blocks
    BY <1>1
  <1>4. (\E i \in DOMAIN blocks : Holds(blocks[i], r))
          <=> Holds(Block(0, p), r) \/ \E i \in DOMAIN x : Holds(x[i], r)
    BY <1>1, <1>2, <1>3
  <1> QED
    BY <1>4 DEF blocks

\* A block that holds a range has its bytes.
LEMMA PartRight ==
  ASSUME NEW x \in Extent, NEW r \in Ranges, r.start <= r.end, Holds(x, r)
  PROVE /\ Part(x, r) \in Seq(Byte) /\ Len(Part(x, r)) = r.end - r.start
        /\ Right(x) => Right(Block(r.start, Part(x, r)))
  <1>1. /\ r.start \in Nat /\ r.end \in Nat /\ x.off \in Nat /\ x.data \in Seq(Byte)
        /\ Len(x.data) \in Nat /\ ObjectSize \in Nat
    BY SizesAssumption, LenProperties DEF Ranges, Extent
  <1>2. r.start - x.off \in 0..Len(x.data) /\ r.end - x.off \in 0..Len(x.data)
    BY <1>1 DEF Holds
  <1>3. /\ Part(x, r) \in Seq(Byte) /\ Len(Part(x, r)) = r.end - r.start
        /\ \A i \in 1..(r.end - r.start) : Part(x, r)[i] = x.data[r.start - x.off + i]
    <2> DEFINE m == r.start - x.off + 1
               n == r.end - x.off
    <2>0. PICK o, s, e, len : o = x.off /\ s = r.start /\ e = r.end /\ len = Len(x.data)
      OBVIOUS
    <2>1. m \in 1..(Len(x.data) + 1) /\ n \in (m - 1)..Len(x.data)
      <3>1. o \in Nat /\ s \in Nat /\ e \in Nat /\ len \in Nat /\ s <= e
            /\ s - o \in 0..len /\ e - o \in 0..len
        BY ONLY <1>1, <1>2, <2>0, r.start <= r.end
      <3>2. s - o + 1 \in 1..(len + 1) /\ e - o \in (s - o + 1 - 1)..len
        BY ONLY <3>1
      <3> QED
        BY ONLY <1>1, <2>0, <3>1, <3>2 DEF m, n
    <2>2. /\ SubSeq(x.data, m, n) \in Seq(Byte) /\ Len(SubSeq(x.data, m, n)) = n - m + 1
          /\ \A i \in 1..(n - m + 1) : SubSeq(x.data, m, n)[i] = x.data[m + i - 1]
      <3> HIDE DEF m, n
      <3> QED
        BY <1>1, <2>1, SubSeqProperties
    <2>3. /\ Part(x, r) = SubSeq(x.data, m, n) /\ n - m + 1 = r.end - r.start
          /\ \A i \in Nat : m + i - 1 = r.start - x.off + i
      BY <1>1 DEF Part
    <2>4. \A i \in 1..(r.end - r.start) : i \in Nat
      BY <1>1
    <2> HIDE DEF m, n
    <2>5. \A i \in 1..(r.end - r.start) : SubSeq(x.data, m, n)[i] = x.data[r.start - x.off + i]
      BY ONLY <2>2, <2>3, <2>4
    <2> QED
      BY ONLY <2>2, <2>3, <2>5
  <1>4. ASSUME Right(x) PROVE Right(Block(r.start, Part(x, r)))
    <2> SUFFICES ASSUME NEW i \in 1..(r.end - r.start), r.start + i - 1 < ObjectSize
                 PROVE x.data[r.start - x.off + i] = r.start + i - 1
      BY <1>3 DEF Right, Block
    <2> DEFINE j == r.start - x.off + i
    <2>1. PICK o, s, e, len : o = x.off /\ s = r.start /\ e = r.end /\ len = Len(x.data)
      OBVIOUS
    <2>2. /\ o \in Nat /\ s \in Nat /\ e \in Nat /\ len \in Nat /\ ObjectSize \in Nat
          /\ s >= o /\ e <= o + len /\ s + i - 1 < ObjectSize /\ i \in 1..(e - s)
      BY <1>1, <2>1 DEF Holds
    <2>3. /\ s - o + i \in 1..len /\ o + (s - o + i) - 1 < ObjectSize
          /\ o + (s - o + i) - 1 = s + i - 1
      BY <2>2
    <2>4. j \in 1..Len(x.data) /\ x.off + j - 1 < ObjectSize /\ x.off + j - 1 = r.start + i - 1
      BY <2>1, <2>3
    <2> HIDE DEF j
    <2> QED
      BY <1>4, <2>4 DEF Right, j
  <1> QED
    BY <1>3, <1>4

\* A range of the object has one reading.
LEMMA RightBytes ==
  ASSUME NEW r \in Ranges, r.start <= r.end, Inside(r), NEW s \in Seq(Byte),
         Len(s) = r.end - r.start, Right(Block(r.start, s))
  PROVE s = BytesOf(r)
  <1>1. /\ r.start \in Nat /\ r.end \in Nat /\ ObjectSize \in Nat /\ r.end <= ObjectSize
    BY SizesAssumption DEF Ranges, Inside
  <1>2. \A i \in 1..(r.end - r.start) : s[i] = r.start + i - 1
    <2> SUFFICES ASSUME NEW i \in 1..(r.end - r.start) PROVE s[i] = r.start + i - 1
      OBVIOUS
    <2>1. r.start + i - 1 < ObjectSize
      BY <1>1
    <2> QED
      BY <2>1 DEF Right, Block
  <1> QED
    BY <1>2, BytesOfRange, SeqEqual

\* A read served from memory has the bytes of the object, whatever the block.
LEMMA ServedRight ==
  ASSUME OpenTypeOK, MemoryRight, NEW r \in Ranges, r.start <= r.end, Covers(r)
  PROVE /\ Served(r) \in Seq(Byte) /\ Len(Served(r)) = r.end - r.start
        /\ Right(Block(r.start, Served(r)))
  <1>1. extra \in Seq(Extent) /\ prefix \in Seq(Byte) /\ Len(extra) \in Nat
    BY LenProperties DEF OpenTypeOK
  <1> DEFINE S == {i \in DOMAIN Blocks : Holds(Blocks[i], r)}
  <1>2. S # {} /\ S \in SUBSET Nat
    BY <1>1, BlocksAre DEF Covers, Blocks
  <1>3. PICK m \in S : \A k \in S : m <= k
    BY <1>2, LeastNat
  <1>4. m \in DOMAIN Blocks /\ Holds(Blocks[m], r) /\ \A j \in 1..(m - 1) : ~Holds(Blocks[j], r)
    <2>1. m \in DOMAIN Blocks /\ Holds(Blocks[m], r) /\ m \in 1..(Len(extra) + 1)
      BY <1>1, <1>2, <1>3, BlocksAre DEF Blocks
    <2>2. ASSUME NEW j \in 1..(m - 1), Holds(Blocks[j], r) PROVE FALSE
      <3>1. j \in 1..(Len(extra) + 1) /\ j < m
        BY <1>1, <2>1
      <3>2. j \in S
        BY <1>1, <2>2, <3>1, BlocksAre DEF Blocks
      <3> HIDE DEF S
      <3> QED
        BY <1>3, <2>1, <3>1, <3>2
    <2> QED
      BY <2>1, <2>2
  <1>5. FirstHolding(r) \in DOMAIN Blocks /\ Holds(Blocks[FirstHolding(r)], r)
    BY <1>4 DEF FirstHolding
  <1>6. Blocks[FirstHolding(r)] \in Extent /\ Right(Blocks[FirstHolding(r)])
    <2> DEFINE i == FirstHolding(r)
    <2>1. i \in 1..(Len(extra) + 1)
      BY <1>1, <1>5, BlocksAre DEF Blocks
    <2> HIDE DEF i
    <2>2. CASE i = 1
      BY <1>1, <2>1, <2>2, BlocksAre DEF MemoryRight, Blocks, i
    <2>3. CASE i > 1
      BY <1>1, <2>1, <2>3, BlocksAre DEF MemoryRight, Blocks, i
    <2> QED
      BY <1>1, <2>1, <2>2, <2>3
  <1> QED
    BY <1>5, <1>6, PartRight DEF Served

\* What is in memory stays in memory when an extent is added.
LEMMA CoversGrows ==
  ASSUME OpenTypeOK, wrapped' = wrapped, prefix' = prefix, extra' \in Seq(Extent),
         \A i \in DOMAIN extra : i \in DOMAIN extra' /\ extra'[i] = extra[i], NEW r, Covers(r)
  PROVE Covers(r)'
  <1>1. wrapped /\ (Holds(Block(0, prefix), r) \/ \E i \in DOMAIN extra : Holds(extra[i], r))
    BY HeldBy DEF Covers, Blocks, OpenTypeOK
  <1>2. wrapped' /\ (Holds(Block(0, prefix'), r) \/ \E i \in DOMAIN extra' : Holds(extra'[i], r))
    BY <1>1
  <1>3. (\E i \in DOMAIN Blocks' : Holds(Blocks'[i], r))
          <=> Holds(Block(0, prefix'), r) \/ \E i \in DOMAIN extra' : Holds(extra'[i], r)
    <2>1. extra' \in Seq(Extent) /\ prefix' \in Seq(Byte)
      BY DEF OpenTypeOK
    <2> QED
      BY <2>1, HeldBy DEF Blocks
  <1> QED
    BY <1>2, <1>3 DEF Covers

\* A range of the object inside a group that was read is in memory.
LEMMA ReadGroupCovers ==
  ASSUME OpenTypeOK, ResultsRight, NEW n \in Nat, Added(n), wrapped,
         NEW t \in DOMAIN entries, Inside(entries[t]),
         NEW g \in 1..n, g \in 1..groups, InGroup(t, g), results[g] # << >>
  PROVE Covers(entries[t])
  <1>1. missing[g] \in Nonempty
    <2>1. g \in 1..Len(missing) /\ missing \in Seq(Nonempty)
      BY LenProperties DEF OpenTypeOK
    <2> QED
      BY <2>1, ElementOfSeq
  <1>2. entries[t] \in Ranges /\ entries[t].start < entries[t].end
    BY RangesOfTags DEF OpenTypeOK
  <1>3. results[g] = Fetched(missing[g])
    BY DEF ResultsRight, Added
  <1>4. PICK i \in DOMAIN extra : extra[i] = Block(missing[g].start, results[g])
    BY DEF Added
  <1>5. entries[t].end <= missing[g].start + Len(Fetched(missing[g]))
    <2>1. entries[t].end \in Nat /\ entries[t].end <= missing[g].end /\ entries[t].end <= ObjectSize
      BY <1>2 DEF Ranges, Inside, InGroup
    <2>2. missing[g] \in Ranges /\ missing[g].start <= missing[g].end
      BY <1>1 DEF Nonempty, Ranges
    <2> QED
      BY <2>1, <2>2, FetchedRight
  <1>6. Holds(extra[i], entries[t])
    BY <1>3, <1>4, <1>5 DEF Holds, Block, InGroup
  <1> QED
    BY <1>6, HeldBy DEF Covers, Blocks, OpenTypeOK

-----------------------------------------------------------------------------
(* Every step keeps the invariant *)

LEMMA OpenInitInv == OpenInit => OpenInv
  <1> SUFFICES ASSUME OpenInit PROVE OpenInv
    OBVIOUS
  <1> USE DEF OpenInit
  <1>1. \A S : << >> \in Seq(S) /\ Len(<< >>) = 0
    OBVIOUS
  <1>2. OpenTypeOK
    <2>1. groups \in 0..Len(missing) /\ at \in Nat \ {0} /\ running \subseteq 1..groups
      BY <1>1
    <2>2. missing \in Seq(Nonempty) /\ results \in Seq(Seq(Byte)) /\ values \in Seq(Seq(Byte))
      BY <1>1
    <2>3. prefix \in Seq(Byte) /\ extra \in Seq(Extent) /\ fallbacks \subseteq DOMAIN entries
      BY <1>1
    <2> QED
      BY <2>1, <2>2, <2>3 DEF OpenTypeOK
  <1>3. MemoryRight /\ ResultsRight
    BY <1>1 DEF MemoryRight, ResultsRight, Right, Block
  <1>4. PlacesRight
    <2>1. Len(values) <= Len(entries)
      BY <1>1, RangesAssumption, LenProperties
    <2> QED
      BY <2>1 DEF PlacesRight, NothingMerged
  <1>5. TagsRight /\ NoTagReadAlone
    BY DEF TagsRight, NoTagReadAlone
  <1> QED
    BY <1>2, <1>3, <1>4, <1>5 DEF OpenInv

LEMMA PrefetchInv == OpenInv /\ Prefetch => OpenInv'
  <1> SUFFICES ASSUME OpenInv, Prefetch PROVE OpenInv'
    OBVIOUS
  <1> USE DEF OpenInv, Prefetch
  <1>1. prefix' \in Seq(Byte) /\ wrapped' \in BOOLEAN /\ Right(Block(0, prefix'))
    <2>1. CASE UNCHANGED <<wrapped, prefix>>
      BY <2>1 DEF OpenTypeOK, MemoryRight
    <2>2. ASSUME NEW size \in PrefetchSizes, wrapped' = TRUE,
                 prefix' = LET data == Fetched([start |-> 0, end |-> size])
                           IN SubSeq(data, 1, Smaller(Len(data), ObjectSize))
          PROVE prefix' \in Seq(Byte) /\ Right(Block(0, prefix'))
      <3> DEFINE r == [start |-> 0, end |-> size]
                 data == Fetched(r)
                 n == Smaller(Len(data), ObjectSize)
      <3>1. r \in Ranges /\ r.start <= r.end /\ r.start = 0
        BY SizesAssumption DEF Ranges
      <3>2. data \in Seq(Byte) /\ Right(Block(0, data)) /\ Len(data) \in Nat
        BY <3>1, FetchedRight, LenProperties
      <3>3. n \in 0..Len(data)
        BY <3>2, SizesAssumption DEF Smaller
      <3>4. prefix' = SubSeq(data, 1, n)
        BY <2>2
      <3> HIDE DEF data, n
      <3>5. /\ prefix' \in Seq(Byte) /\ Len(prefix') = n
            /\ \A i \in 1..n : prefix'[i] = data[i]
        <4>1. /\ 1 \in 1..(Len(data) + 1) /\ n \in (1 - 1)..Len(data)
          BY <3>2, <3>3
        <4>2. /\ SubSeq(data, 1, n) \in Seq(Byte) /\ Len(SubSeq(data, 1, n)) = n - 1 + 1
              /\ \A i \in 1..(n - 1 + 1) : SubSeq(data, 1, n)[i] = data[1 + i - 1]
          BY <3>2, <4>1, SubSeqProperties
        <4>3. n - 1 + 1 = n /\ \A i \in Nat : 1 + i - 1 = i
          BY <3>3
        <4> QED
          BY <3>4, <4>2, <4>3
      <3>6. \A i \in 1..n : i \in 1..Len(data)
        BY <3>2, <3>3
      <3> QED
        BY <3>2, <3>5, <3>6 DEF Right, Block
    <2> QED
      BY <2>1, <2>2 DEF OpenTypeOK
  <1>2. OpenTypeOK'
    BY <1>1 DEF OpenTypeOK, merging, reading
  <1>3. MemoryRight' /\ ResultsRight'
    BY <1>1 DEF MemoryRight, ResultsRight, merging
  <1>4. PlacesRight'
    BY DEF PlacesRight, NothingMerged, merging, reading
  <1>5. TagsRight' /\ NoTagReadAlone'
    BY DEF TagsRight, NoTagReadAlone, merging, reading
  <1> QED
    BY <1>2, <1>3, <1>4, <1>5 DEF OpenInv

\* A read of a range in the object leaves its bytes, from memory or not.
LEMMA ReadsRight ==
  ASSUME OpenTypeOK, MemoryRight, NEW r \in Ranges, r.start <= r.end, NEW b \in Reads(r)
  PROVE /\ b \in Seq(Byte) /\ Len(b) = r.end - r.start /\ Right(Block(r.start, b))
        /\ Inside(r) => b = BytesOf(r)
  <1>1. CASE Covers(r)
    BY <1>1, ServedRight, RightBytes DEF Reads
  <1>2. CASE ~Covers(r)
    BY <1>2, BytesOfRange DEF Reads, Right, Block
  <1> QED
    BY <1>1, <1>2

LEMMA ReadDirectoryInv == OpenInv /\ (ReadDirectory \/ DirectoryFails) => OpenInv'
  <1> SUFFICES ASSUME OpenInv, ReadDirectory \/ DirectoryFails PROVE OpenInv'
    OBVIOUS
  <1> USE DEF OpenInv
  <1>0. /\ pc = "directory" /\ pc' \in {"collect", "tags", "failed"} /\ (pc' = "tags" => ~wrapped)
        /\ (pc' = "tags" \/ pc' = "collect" \/ pc' = "failed")
        /\ UNCHANGED <<directory, entries, wrapped, prefix, merging, at, reading>>
    BY DEF ReadDirectory, DirectoryFails, memory
  <1>1. extra' \in Seq(Extent) /\ \A i \in DOMAIN extra' : Right(extra'[i])
    <2>1. CASE extra' = extra
      BY <2>1 DEF OpenTypeOK, MemoryRight
    <2>2. ASSUME NEW bytes \in Reads(directory), extra' = Append(extra, Block(directory.start, bytes))
          PROVE extra' \in Seq(Extent) /\ \A i \in DOMAIN extra' : Right(extra'[i])
      <3> DEFINE x == Block(directory.start, bytes)
      <3>1. directory \in Ranges /\ directory.start \in Nat /\ directory.end \in Nat
            /\ directory.start < directory.end
        BY RangesAssumption DEF OpenTypeOK, Ranges
      <3>2. bytes \in Seq(Byte) /\ Right(Block(directory.start, bytes))
        BY <3>1, ReadsRight
      <3>3. x \in Extent /\ Right(x)
        BY <3>1, <3>2 DEF Extent, Block
      <3> HIDE DEF x
      <3>4. extra \in Seq(Extent) /\ extra' = Append(extra, x)
        BY <2>2 DEF OpenTypeOK, x
      <3> QED
        BY <3>3, <3>4, Appended DEF MemoryRight
    <2> QED
      BY <2>1, <2>2 DEF ReadDirectory, DirectoryFails, memory
  <1>2. OpenTypeOK' /\ MemoryRight' /\ ResultsRight'
    BY <1>0, <1>1 DEF OpenTypeOK, MemoryRight, ResultsRight, merging, reading
  <1>3. PlacesRight' /\ TagsRight' /\ NoTagReadAlone'
    BY <1>0 DEF PlacesRight, NothingMerged, TagsRight, NoTagReadAlone, merging, reading
  <1> QED
    BY <1>2, <1>3

\* What the loop over the tags finds missing, in order, none left out.
LEMMA CollectInv == OpenInv /\ Collect => OpenInv'
  <1> SUFFICES ASSUME OpenInv, Collect PROVE OpenInv'
    OBVIOUS
  <1> USE DEF OpenInv
  <1> DEFINE n == Cardinality(Uncovered)
  <1>0. /\ pc = "collect" /\ ByStart(missing') /\ groups' = Smaller(Len(missing'), 1)
        /\ IF missing' = << >> THEN pc' = "tags" /\ at' = 1 ELSE pc' = "merge" /\ at' = 2
        /\ UNCHANGED <<directory, entries, memory, running, results, reading>>
    BY DEF Collect
  <1>1. n \in Nat /\ DOMAIN entries = 1..Len(entries) /\ Len(entries) \in Nat
    <2>1. DOMAIN entries = 1..Len(entries) /\ Len(entries) \in Nat
      BY RangesAssumption, LenProperties DEF OpenTypeOK
    <2>2. IsFiniteSet(DOMAIN entries)
      BY <2>1, FS_Interval
    <2> QED
      BY <2>1, <2>2, FS_Subset, FS_CardinalityType DEF Uncovered
  <1>2. PICK f \in Bijection(1..n, Uncovered) : missing' = [i \in 1..n |-> entries[f[i]]]
    BY DEF Collect
  <1>3. f \in [1..n -> Uncovered] /\ \A t \in Uncovered : \E i \in 1..n : f[i] = t
    BY <1>2 DEF Bijection, Injection, Surjection
  <1> HIDE DEF n
  <1>4. missing' \in Seq(Nonempty) /\ Len(missing') = n
    <2>1. \A i \in 1..n : entries[f[i]] \in Nonempty
      BY <1>3, RangesOfTags DEF OpenTypeOK, Uncovered
    <2>2. [i \in 1..n |-> entries[f[i]]] \in Seq(Nonempty)
      BY <1>1, <2>1, IsASeq
    <2> QED
      BY <1>1, <1>2, <2>2, LenProperties
  <1>5. /\ groups' = (IF n = 0 THEN 0 ELSE 1) /\ groups' \in 0..Len(missing')
        /\ (missing' = << >> <=> n = 0)
    BY <1>0, <1>1, <1>4, EmptySeq DEF Smaller
  <1>6. OpenTypeOK'
    <2>1. pc' \in {"merge", "tags"} /\ at' \in Nat \ {0}
      BY <1>0
    <2>2. running' \subseteq 1..groups'
      <3>1. 1..groups = {}
        BY <1>0 DEF PlacesRight, NothingMerged
      <3> QED
        BY <1>0, <3>1 DEF OpenTypeOK
    <2> QED
      BY <1>0, <1>4, <1>5, <2>1, <2>2 DEF OpenTypeOK, memory, reading
  <1>7. MemoryRight' /\ ResultsRight'
    BY <1>0 DEF MemoryRight, ResultsRight, memory, PlacesRight, NothingMerged
  <1>8. \A t \in DOMAIN entries : Covers(entries[t]) \/ \E i \in 1..n : missing'[i] = entries[t]
    BY <1>2, <1>3 DEF Uncovered
  <1>9. \A x : Covers(x)' = Covers(x)
    BY <1>0 DEF Covers, Blocks, memory
  <1>10. PlacesRight'
    <2>1. values' = << >> /\ fallbacks' = {} /\ results' = << >> /\ Len(values') = 0
      BY <1>0 DEF PlacesRight, NothingMerged, reading
    <2>2. CASE n = 0
      <3>1. NoneLost({})' /\ Added(groups)'
        BY <1>0, <1>1, <1>5, <1>8, <1>9, <2>1, <2>2 DEF NoneLost, Added
      <3> QED
        BY <1>0, <1>1, <1>5, <2>1, <2>2, <3>1 DEF PlacesRight, OpenTypeOK
    <2>3. CASE n # 0
      <3>1. groups' = 1 /\ at' = 2 /\ pc' = "merge" /\ n >= 1
        BY <1>0, <1>1, <1>5, <2>3
      <3>2. Ahead'
        <4>1. DOMAIN missing' = 1..n
          BY <1>2
        <4>2. \A i, j \in 1..n : i <= j => missing'[i].start <= missing'[j].start
          <5> SUFFICES ASSUME NEW i \in 1..n, NEW j \in 1..n, i <= j
                       PROVE missing'[i].start <= missing'[j].start
            OBVIOUS
          <5>1. CASE i = j
            <6>1. missing'[i] \in Nonempty
              BY <1>4, ElementOfSeq
            <6> QED
              BY <5>1, <6>1 DEF Nonempty, Ranges
          <5>2. CASE i < j
            BY <1>0, <4>1, <5>2 DEF ByStart
          <5> QED
            BY <1>1, <5>1, <5>2
        <4>3. groups' \in 1..(at' - 1) /\ at' <= Len(missing') + 1
          BY <1>1, <1>4, <3>1
        <4>4. ASSUME NEW i \in at'..Len(missing')
              PROVE /\ missing'[groups'].start <= missing'[i].start
                    /\ \A j \in i..Len(missing') : missing'[i].start <= missing'[j].start
          <5>1. i \in 1..n /\ 1 \in 1..n /\ 1 <= i /\ \A j \in i..Len(missing') : j \in 1..n /\ i <= j
            BY <1>1, <1>4, <3>1
          <5> QED
            BY <3>1, <4>2, <5>1
        <4> QED
          BY <4>3, <4>4 DEF Ahead
      <3>3. NoneLost(at..Len(missing))'
        <4> SUFFICES ASSUME NEW t \in DOMAIN entries, ~Covers(entries[t])
                     PROVE \/ \E i \in at'..Len(missing') : missing'[i] = entries[t]
                           \/ \E g \in 1..groups' : InGroup(t, g)'
          BY <1>0, <1>9 DEF NoneLost
        <4>1. PICK i \in 1..n : missing'[i] = entries[t]
          BY <1>8
        <4>2. CASE i = 1
          <5>1. entries[t] \in Ranges
            BY RangesOfTags DEF OpenTypeOK
          <5>2. InGroup(t, 1)'
            BY <1>0, <4>1, <4>2, <5>1 DEF InGroup, Ranges
          <5> QED
            BY <3>1, <5>2
        <4>3. CASE i # 1
          BY <1>1, <1>4, <3>1, <4>1, <4>3
        <4> QED
          BY <4>2, <4>3
      <3> QED
        BY <1>0, <2>1, <3>1, <3>2, <3>3 DEF PlacesRight
    <2> QED
      BY <2>2, <2>3
  <1>11. TagsRight' /\ NoTagReadAlone'
    BY <1>0 DEF TagsRight, NoTagReadAlone, PlacesRight, reading
  <1> QED
    BY <1>6, <1>7, <1>10, <1>11

\* One turn of the merging loop: the range ahead goes into the last group or
\* begins the next, on a place the loop has left behind.
LEMMA MergeInv == OpenInv /\ Merge => OpenInv'
  <1> SUFFICES ASSUME OpenInv, Merge PROVE OpenInv'
    OBVIOUS
  <1> USE DEF OpenInv
  <1> DEFINE n == Len(missing)
             m == missing[at]
  <1>0. /\ pc = "merge" /\ at <= n /\ at' = at + 1
        /\ UNCHANGED <<pc, directory, entries, memory, running, results, reading>>
    BY DEF Merge
  <1>1. /\ n \in Nat /\ DOMAIN missing = 1..n /\ at \in Nat /\ groups \in Nat
        /\ groups \in 1..(at - 1) /\ groups \in 1..n /\ at \in 1..n /\ missing \in Seq(Nonempty)
    BY <1>0, LenProperties DEF OpenTypeOK, PlacesRight, Ahead
  <1>2. \A i \in 1..n : /\ missing[i] \in Nonempty /\ missing[i].start \in Nat
                         /\ missing[i].end \in Nat /\ missing[i].start < missing[i].end
    BY <1>1, ElementOfSeq DEF Nonempty, Ranges
  <1>3. /\ \A i \in at..n : missing[groups].start <= missing[i].start
        /\ \A i \in at..n : \A j \in i..n : missing[i].start <= missing[j].start
    BY <1>0 DEF PlacesRight, Ahead
  \* What the new array says of each place.
  <1>4. /\ missing' \in Seq(Nonempty) /\ Len(missing') = n /\ groups' \in groups..at
        /\ \A i \in (at + 1)..n : missing'[i] = missing[i]
        /\ \A g \in 1..groups : /\ missing'[g].start = missing[g].start
                                 /\ missing[g].end <= missing'[g].end
        /\ missing'[groups'].start <= m.start /\ m.end <= missing'[groups'].end
    <2> HIDE DEF n
    <2>1. CASE m.end - missing[groups].start <= MaxMergeSpan
      <3> DEFINE e == Larger(missing[groups].end, m.end)
                 r == [missing[groups] EXCEPT !.end = e]
      <3>1. missing' = [missing EXCEPT ![groups] = r] /\ groups' = groups
        BY <2>1 DEF Merge
      <3>2. /\ e \in Nat /\ missing[groups].end <= e /\ m.end <= e
        BY <1>1, <1>2 DEF Larger
      <3>3. r \in Nonempty /\ r.start = missing[groups].start /\ r.end = e
        <4>1. missing[groups] \in Nonempty /\ groups \in 1..n
          BY ONLY <1>1, <1>2
        <4>2. /\ missing[groups].start \in Nat /\ missing[groups].end \in Nat
              /\ missing[groups].start < missing[groups].end
          BY ONLY <1>2, <4>1
        <4>3. r = [start |-> missing[groups].start, end |-> e]
          BY ONLY <4>1 DEF Nonempty, Ranges
        <4>4. missing[groups].start < e
          BY ONLY <3>2, <4>2
        <4> QED
          BY ONLY <3>2, <4>2, <4>3, <4>4 DEF Nonempty, Ranges
      <3> HIDE DEF r, e
      <3>4. missing' \in Seq(Nonempty) /\ Len(missing') = n
        BY <1>1, <3>1, <3>3, ExceptSeq DEF n
      <3>5. missing'[groups] = r /\ \A i \in 1..n : i # groups => missing'[i] = missing[i]
        BY <1>1, <3>1
      <3>6. missing[groups].start <= m.start
        BY <1>1, <1>3
      <3> QED
        BY <1>1, <1>2, <3>1, <3>2, <3>3, <3>4, <3>5, <3>6
    <2>2. CASE ~(m.end - missing[groups].start <= MaxMergeSpan)
      <3>1. missing' = [missing EXCEPT ![groups + 1] = m] /\ groups' = groups + 1
        BY <2>2 DEF Merge
      <3>2. groups + 1 \in 1..n /\ m \in Nonempty
        BY <1>1, <1>2
      <3>3. missing' \in Seq(Nonempty) /\ Len(missing') = n
        BY <1>1, <3>1, <3>2, ExceptSeq DEF n
      <3>4. missing'[groups + 1] = m /\ \A i \in 1..n : i # groups + 1 => missing'[i] = missing[i]
        BY <1>1, <3>1, <3>2
      <3> QED
        BY <1>1, <1>2, <3>1, <3>2, <3>3, <3>4
    <2> QED
      BY <2>1, <2>2
  <1> HIDE DEF n
  <1>5. OpenTypeOK'
    <2>1. groups' \in 0..Len(missing') /\ running' \subseteq 1..groups'
      BY <1>0, <1>1, <1>4 DEF OpenTypeOK
    <2>2. at' \in Nat \ {0}
      BY <1>0, <1>1
    <2> QED
      BY <1>0, <1>4, <2>1, <2>2 DEF OpenTypeOK, memory, reading
  <1>6. MemoryRight' /\ ResultsRight'
    BY <1>0 DEF MemoryRight, ResultsRight, PlacesRight, memory
  <1>7. Ahead'
    <2>1. groups' \in 1..(at' - 1) /\ at' <= Len(missing') + 1
      BY <1>0, <1>1, <1>4
    <2>2. ASSUME NEW i \in at'..Len(missing')
          PROVE /\ missing'[groups'].start <= missing'[i].start
                /\ \A j \in i..Len(missing') : missing'[i].start <= missing'[j].start
      <3>1. /\ i \in at..n /\ i \in (at + 1)..n /\ at \in at..n /\ i \in at..n
            /\ \A j \in i..n : j \in (at + 1)..n
        BY <1>0, <1>1, <1>4
      <3>2. missing[at].start <= missing[i].start /\ missing'[i] = missing[i]
        BY <1>3, <1>4, <3>1
      <3>3. missing'[groups'].start <= missing[i].start
        <4>1. missing'[groups'].start \in Nat
          <5>1. groups' \in 1..Len(missing')
            BY <1>1, <1>4
          <5>2. missing'[groups'] \in Nonempty
            BY <1>4, <5>1, ElementOfSeq
          <5> QED
            BY <5>2 DEF Nonempty, Ranges
        <4>2. i \in 1..n
          BY <1>1, <3>1
        <4> QED
          BY <1>1, <1>2, <1>4, <3>2, <4>1, <4>2
      <3> QED
        BY <1>3, <1>4, <3>1, <3>2, <3>3
    <2> QED
      BY <2>1, <2>2 DEF Ahead
  <1>8. NoneLost(at..Len(missing))'
    <2>0. \A x : Covers(x)' = Covers(x)
      BY <1>0 DEF Covers, Blocks, memory
    <2> SUFFICES ASSUME NEW t \in DOMAIN entries, ~Covers(entries[t])
                 PROVE \/ \E i \in at'..Len(missing') : missing'[i] = entries[t]
                       \/ \E g \in 1..groups' : InGroup(t, g)'
      BY <1>0, <2>0 DEF NoneLost
    <2>1. entries[t] \in Ranges
      BY RangesOfTags DEF OpenTypeOK
    <2>2. CASE \E i \in at..n : missing[i] = entries[t]
      <3>1. PICK i \in at..n : missing[i] = entries[t]
        BY <2>2
      <3>2. CASE i = at
        <4>1. PICK g : g = groups'
          OBVIOUS
        <4>2. InGroup(t, g)'
          BY <1>0, <1>4, <3>1, <3>2, <4>1 DEF InGroup
        <4>3. g \in 1..groups'
          BY <1>1, <1>4, <4>1
        <4> QED
          BY <4>2, <4>3
      <3>3. CASE i # at
        <4>1. i \in (at + 1)..n /\ i \in at'..Len(missing')
          BY <1>0, <1>1, <1>4, <3>1, <3>3
        <4> QED
          BY <1>4, <3>1, <4>1
      <3> QED
        BY <3>2, <3>3
    <2>3. CASE \E g \in 1..groups : InGroup(t, g)
      <3>1. PICK g \in 1..groups : InGroup(t, g)
        BY <2>3
      <3>2. g \in 1..groups' /\ g \in 1..n /\ g \in 1..Len(missing')
        BY <1>1, <1>4
      <3>3. missing'[g] \in Nonempty
        BY <1>4, <3>2, ElementOfSeq
      <3>4. missing[g].end \in Nat /\ missing'[g].end \in Nat /\ entries[t].end \in Nat
        BY <1>2, <2>1, <3>2, <3>3 DEF Nonempty, Ranges
      <3>5. InGroup(t, g)'
        BY <1>0, <1>4, <3>1, <3>4 DEF InGroup
      <3> QED
        BY <3>2, <3>5
    <2> QED
      BY <1>0, <2>2, <2>3 DEF NoneLost, PlacesRight, n
  <1>9. PlacesRight'
    BY <1>0, <1>7, <1>8 DEF PlacesRight, reading
  <1>10. TagsRight' /\ NoTagReadAlone'
    BY <1>0 DEF TagsRight, NoTagReadAlone, PlacesRight, reading
  <1> QED
    BY <1>5, <1>6, <1>9, <1>10

LEMMA StartFetchesInv == OpenInv /\ StartFetches => OpenInv'
  <1> SUFFICES ASSUME OpenInv, StartFetches PROVE OpenInv'
    OBVIOUS
  <1> USE DEF OpenInv
  <1>0. /\ pc = "merge" /\ at > Len(missing) /\ pc' = "fetch" /\ at' = 1 /\ running' = 1..groups
        /\ results' = [g \in 1..groups |-> << >>]
        /\ UNCHANGED <<directory, entries, memory, missing, groups, reading>>
    BY DEF StartFetches
  <1>1. groups \in Nat /\ groups \in 1..(at - 1) /\ at \in Nat /\ Len(missing) \in Nat
    BY <1>0, LenProperties DEF PlacesRight, Ahead, OpenTypeOK
  <1>2. results' \in Seq(Seq(Byte))
    <2>1. \A g \in 1..groups : << >> \in Seq(Byte)
      OBVIOUS
    <2>2. [g \in 1..groups |-> << >>] \in Seq(Seq(Byte))
      BY <1>1, <2>1, IsASeq
    <2> QED
      BY <1>0, <2>2
  <1>3. OpenTypeOK'
    BY <1>0, <1>2 DEF OpenTypeOK, memory, reading
  <1>4. MemoryRight' /\ ResultsRight'
    BY <1>0 DEF MemoryRight, ResultsRight, memory
  <1>5. NoneLost({})'
    <2>1. \A x : Covers(x)' = Covers(x)
      BY <1>0 DEF Covers, Blocks, memory
    <2>2. at..Len(missing) = {}
      BY <1>0, <1>1
    <2> QED
      BY <1>0, <2>1, <2>2 DEF NoneLost, PlacesRight, InGroup
  <1>6. Added(at - 1)' /\ at' \in 1..groups'
    BY <1>0, <1>1 DEF Added
  <1>7. PlacesRight' /\ TagsRight' /\ NoTagReadAlone'
    BY <1>0, <1>5, <1>6 DEF PlacesRight, TagsRight, NoTagReadAlone, reading
  <1> QED
    BY <1>3, <1>4, <1>7

\* A goroutine ends: it leaves what its range has, or nothing.
LEMMA FetchGroupInv == ASSUME NEW g, OpenInv, FetchGroup(g) PROVE OpenInv'
  <1> USE DEF OpenInv
  <1>0. /\ pc = "fetch" /\ g \in running /\ running' = running \ {g}
        /\ results' = [results EXCEPT ![g] = Fetched(missing[g])] \/ results' = results
        /\ UNCHANGED <<pc, directory, entries, memory, missing, groups, at, reading>>
    BY DEF FetchGroup
  <1>1. /\ g \in 1..groups /\ DOMAIN results = 1..groups /\ groups \in Nat /\ at = 1
        /\ Len(missing) \in Nat /\ g \in 1..Len(missing) /\ g \in 1..Len(results)
        /\ NoneLost({}) /\ results \in Seq(Seq(Byte))
    BY <1>0, LenProperties DEF OpenTypeOK, PlacesRight, Added
  <1>2. Fetched(missing[g]) \in Seq(Byte)
    <2>1. missing[g] \in Nonempty
      BY <1>1, ElementOfSeq DEF OpenTypeOK
    <2>2. missing[g] \in Ranges /\ missing[g].start <= missing[g].end
      BY <2>1 DEF Nonempty, Ranges
    <2> QED
      BY <2>2, FetchedRight
  <1>3. results' \in Seq(Seq(Byte)) /\ DOMAIN results' = DOMAIN results
    <2>1. CASE results' = results
      BY <1>1, <2>1
    <2>2. CASE results' = [results EXCEPT ![g] = Fetched(missing[g])]
      <3>1. results' \in Seq(Seq(Byte))
        BY <1>1, <1>2, <2>2, ExceptSeq
      <3> QED
        BY <2>2, <3>1
    <2> QED
      BY <1>0, <2>1, <2>2
  <1>4. OpenTypeOK'
    BY <1>0, <1>3 DEF OpenTypeOK, memory, reading
  <1>5. MemoryRight' /\ ResultsRight'
    <2>1. ResultsRight'
      BY <1>0, <1>1, <1>3 DEF ResultsRight
    <2> QED
      BY <1>0, <2>1 DEF MemoryRight, memory
  <1>6. NoneLost({})'
    <2>1. \A x : Covers(x)' = Covers(x)
      BY <1>0 DEF Covers, Blocks, memory
    <2> QED
      BY <1>0, <1>1, <2>1 DEF NoneLost, InGroup
  <1>7. Added(at - 1)'
    BY <1>0, <1>1, <1>3 DEF Added
  <1>8. PlacesRight' /\ TagsRight' /\ NoTagReadAlone'
    BY <1>0, <1>1, <1>6, <1>7 DEF PlacesRight, TagsRight, NoTagReadAlone, reading
  <1> QED
    BY <1>4, <1>5, <1>8

\* One group's bytes become an extent: what was in memory stays there.
LEMMA AddExtentInv == OpenInv /\ AddExtent => OpenInv'
  <1> SUFFICES ASSUME OpenInv, AddExtent PROVE OpenInv'
    OBVIOUS
  <1> USE DEF OpenInv
  <1> DEFINE x == Block(missing[at].start, results[at])
  <1>0. /\ pc = "fetch"
        /\ extra' = IF results[at] = << >> THEN extra ELSE Append(extra, x)
        /\ IF at < groups THEN at' = at + 1 /\ pc' = pc ELSE at' = 1 /\ pc' = "tags"
        /\ UNCHANGED <<directory, entries, wrapped, prefix, merging, reading>>
    BY DEF AddExtent
  <1>1. /\ at \in 1..groups /\ groups \in Nat /\ DOMAIN results = 1..groups
        /\ at \in 1..Len(missing) /\ at \in 1..Len(results)
        /\ NoneLost({}) /\ Added(at - 1) /\ extra \in Seq(Extent) /\ running = {}
    BY <1>0, LenProperties DEF OpenTypeOK, PlacesRight, Added, AddExtent
  <1>2. missing[at] \in Ranges /\ missing[at].start < missing[at].end
    <2>1. missing[at] \in Nonempty
      BY <1>1, ElementOfSeq DEF OpenTypeOK
    <2> QED
      BY <2>1 DEF Nonempty
  <1>3. x \in Extent /\ Right(x)
    <2>1. results[at] \in Seq(Byte)
      BY <1>1, ElementOfSeq DEF OpenTypeOK
    <2>2. x \in Extent
      BY <1>2, <2>1 DEF Extent, Block, Ranges
    <2>3. CASE results[at] = << >>
      BY <2>2, <2>3 DEF Right, Block
    <2>4. CASE results[at] = Fetched(missing[at])
      <3>1. missing[at].start <= missing[at].end
        BY <1>2 DEF Ranges
      <3> QED
        BY <1>2, <2>2, <2>4, <3>1, FetchedRight
    <2> QED
      BY <1>1, <2>2, <2>3, <2>4 DEF ResultsRight
  <1> HIDE DEF x
  <1>4. /\ extra' \in Seq(Extent) /\ \A i \in DOMAIN extra' : Right(extra'[i])
        /\ \A i \in DOMAIN extra : i \in DOMAIN extra' /\ extra'[i] = extra[i]
        /\ results[at] # << >> => \E i \in DOMAIN extra' : extra'[i] = x
    <2>1. CASE results[at] = << >>
      BY <1>0, <1>1, <2>1 DEF MemoryRight
    <2>2. CASE results[at] # << >>
      <3>1. extra' = Append(extra, x) /\ extra \in Seq(Extent) /\ x \in Extent /\ Right(x)
        BY <1>0, <1>1, <1>3, <2>2
      <3>2. \A i \in DOMAIN extra : Right(extra[i])
        BY DEF MemoryRight
      <3>3. /\ Append(extra, x) \in Seq(Extent)
            /\ \A i \in DOMAIN extra : i \in DOMAIN Append(extra, x) /\ Append(extra, x)[i] = extra[i]
            /\ \E i \in DOMAIN Append(extra, x) : Append(extra, x)[i] = x
            /\ \A i \in DOMAIN Append(extra, x) :
                  Append(extra, x)[i] = x \/ (i \in DOMAIN extra /\ Append(extra, x)[i] = extra[i])
        BY ONLY <3>1, Appended
      <3> QED
        BY ONLY <3>1, <3>2, <3>3
    <2> QED
      BY <2>1, <2>2
  <1>5. \A r : Covers(r) => Covers(r)'
    BY <1>0, <1>4, CoversGrows
  <1>6. OpenTypeOK' /\ MemoryRight' /\ ResultsRight'
    <2>1. pc' \in {"fetch", "tags"} /\ at' \in Nat \ {0}
      BY <1>0, <1>1
    <2> QED
      BY <1>0, <1>4, <2>1 DEF OpenTypeOK, MemoryRight, ResultsRight, merging, reading
  <1>7. NoneLost({})'
    BY <1>0, <1>1, <1>5 DEF NoneLost, InGroup, merging
  <1>8. IF at < groups THEN Added(at - 1)' ELSE Added(groups)'
    <2>1. ASSUME NEW g \in 1..at, results[g] # << >>
          PROVE \E i \in DOMAIN extra' : extra'[i] = Block(missing[g].start, results[g])
      <3>1. CASE g = at
        BY <1>4, <2>1, <3>1 DEF x
      <3>2. CASE g # at
        <4>1. g \in 1..(at - 1)
          BY <1>1, <3>2
        <4> QED
          BY <1>1, <1>4, <2>1, <4>1 DEF Added
      <3> QED
        BY <3>1, <3>2
    <2>2. DOMAIN results' = 1..groups' /\ results' = results /\ missing' = missing /\ groups' = groups
      BY <1>0, <1>1 DEF merging
    <2>3. \A g \in 1..at : results'[g] # << >> =>
            \E i \in DOMAIN extra' : extra'[i] = Block(missing'[g].start, results'[g])
      BY <2>1, <2>2
    <2>4. CASE at < groups
      <3>1. at' - 1 = at
        BY <1>0, <1>1, <2>4
      <3> QED
        BY <2>2, <2>3, <2>4, <3>1 DEF Added
    <2>5. CASE ~(at < groups)
      <3>1. groups' = at
        BY <1>1, <2>2, <2>5
      <3> QED
        BY <2>2, <2>3, <2>5, <3>1 DEF Added
    <2> QED
      BY <2>4, <2>5
  <1>9. PlacesRight'
    <2>1. values' = << >> /\ fallbacks' = {} /\ Len(values') = 0 /\ Len(values') <= Len(entries')
      BY <1>0 DEF PlacesRight, reading
    <2>2. CASE at < groups
      <3>1. pc' = "fetch" /\ at' \in 1..groups' /\ running' = {}
        BY <1>0, <1>1, <2>2 DEF merging
      <3> QED
        BY <1>7, <1>8, <2>1, <2>2, <3>1 DEF PlacesRight
    <2>3. CASE ~(at < groups)
      <3>1. pc' = "tags" /\ at' = 1
        BY <1>0, <2>3
      <3> QED
        BY <1>7, <1>8, <2>1, <2>3, <3>1 DEF PlacesRight
    <2> QED
      BY <2>2, <2>3
  <1>10. TagsRight' /\ NoTagReadAlone'
    BY <1>0 DEF TagsRight, NoTagReadAlone, PlacesRight, reading
  <1> QED
    BY <1>6, <1>9, <1>10

\* A tag that is not in memory is outside the object or in a group that was
\* left out.
LEMMA FallbackRight ==
  OpenInv /\ pc = "tags" /\ at \in DOMAIN entries =>
    \A t \in Fallback(at) : Inside(entries[t]) =>
      \E g \in DOMAIN results :
        /\ results[g] = << >>
        /\ missing[g].start <= entries[t].start /\ entries[t].end <= missing[g].end
  <1> SUFFICES ASSUME OpenInv, pc = "tags", at \in DOMAIN entries,
                      NEW t \in Fallback(at), Inside(entries[t])
               PROVE \E g \in DOMAIN results : results[g] = << >> /\ InGroup(t, g)
    BY DEF InGroup
  <1> USE DEF OpenInv
  <1>1. CASE t \in fallbacks
    BY <1>1 DEF NoTagReadAlone, InGroup
  <1>2. CASE t \notin fallbacks
    <2>1. t = at /\ wrapped /\ ~Covers(entries[t])
      BY <1>2 DEF Fallback
    <2>2. PICK g \in 1..groups : InGroup(t, g)
      BY <2>1 DEF PlacesRight, NoneLost
    <2>3. Added(groups) /\ groups \in Nat /\ g \in DOMAIN results
      BY <2>1, LenProperties DEF PlacesRight, Added, OpenTypeOK
    <2>4. results[g] = << >>
      BY <2>1, <2>2, <2>3, ReadGroupCovers
    <2> QED
      BY <2>2, <2>3, <2>4
  <1> QED
    BY <1>1, <1>2

\* A tag's value is the object's, whichever block it comes from.
LEMMA ReadTagInv == OpenInv /\ ReadTag => OpenInv'
  <1> SUFFICES ASSUME OpenInv, ReadTag PROVE OpenInv'
    OBVIOUS
  <1> USE DEF OpenInv
  <1>0. /\ pc = "tags" /\ at <= Len(entries) /\ at' = at + 1 /\ fallbacks' = Fallback(at)
        /\ UNCHANGED <<pc, directory, entries, memory, merging>>
    BY DEF ReadTag
  <1>1. /\ at \in DOMAIN entries /\ at \in Nat /\ Len(values) = at - 1 /\ values \in Seq(Seq(Byte))
        /\ Len(entries) \in Nat
    <2>1. entries \in Seq(Nonempty)
      BY RangesAssumption DEF OpenTypeOK, Nonempty
    <2> QED
      BY <1>0, <2>1, LenProperties DEF OpenTypeOK, PlacesRight
  <1>2. PICK bytes \in Reads(entries[at]) : values' = Append(values, bytes)
    BY DEF ReadTag
  <1>3. bytes \in Seq(Byte) /\ (Inside(entries[at]) => bytes = BytesOf(entries[at]))
    <2>1. entries[at] \in Ranges /\ entries[at].start <= entries[at].end
      BY <1>1, RangesOfTags DEF OpenTypeOK, Ranges
    <2> QED
      BY <1>2, <2>1, ReadsRight
  <1>4. /\ values' \in Seq(Seq(Byte)) /\ Len(values') = at /\ DOMAIN values' = 1..at
        /\ DOMAIN values = 1..(at - 1)
        /\ \A i \in 1..(at - 1) : values'[i] = values[i]
        /\ values'[at] = bytes
    <2>1. /\ Append(values, bytes) \in Seq(Seq(Byte)) /\ Len(Append(values, bytes)) = Len(values) + 1
          /\ \A i \in 1..Len(values) : Append(values, bytes)[i] = values[i]
          /\ Append(values, bytes)[Len(values) + 1] = bytes
      BY <1>1, <1>3, AppendProperties
    <2> QED
      BY <1>1, <1>2, <2>1, LenProperties
  <1>5. OpenTypeOK' /\ MemoryRight' /\ ResultsRight'
    <2>1. fallbacks' \subseteq DOMAIN entries /\ at' \in Nat \ {0}
      BY <1>0, <1>1 DEF Fallback, OpenTypeOK
    <2> QED
      BY <1>0, <1>4, <2>1 DEF OpenTypeOK, MemoryRight, ResultsRight, memory, merging
  <1>6. PlacesRight'
    <2>1. \A x : Covers(x)' = Covers(x)
      BY <1>0 DEF Covers, Blocks, memory
    <2>2. wrapped' => NoneLost({})' /\ Added(groups)'
      BY <1>0, <2>1 DEF PlacesRight, NoneLost, Added, InGroup, memory, merging
    <2> QED
      BY <1>0, <1>1, <1>4, <2>2 DEF PlacesRight
  <1>7. TagsRight'
    <2> SUFFICES ASSUME NEW t \in 1..at, Inside(entries[t]) PROVE values'[t] = BytesOf(entries[t])
      BY <1>0, <1>4 DEF TagsRight
    <2>1. CASE t = at
      BY <1>3, <1>4, <2>1
    <2>2. CASE t # at
      <3>1. t \in 1..(at - 1)
        BY <1>1, <2>2
      <3> QED
        BY <1>4, <3>1 DEF TagsRight
    <2> QED
      BY <2>1, <2>2
  <1>8. NoTagReadAlone'
    BY <1>0, <1>1, FallbackRight DEF NoTagReadAlone, merging
  <1> QED
    BY <1>5, <1>6, <1>7, <1>8

LEMMA TagFailsInv == OpenInv /\ (TagFails \/ Opened) => OpenInv'
  <1> SUFFICES ASSUME OpenInv, TagFails \/ Opened PROVE OpenInv'
    OBVIOUS
  <1> USE DEF OpenInv
  <1>0. /\ pc = "tags" /\ pc' \in {"opened", "failed"}
        /\ UNCHANGED <<directory, entries, memory, merging, at, values>>
        /\ fallbacks' = fallbacks \/ (at <= Len(entries) /\ fallbacks' = Fallback(at))
    BY DEF TagFails, Opened, reading
  <1>1. at <= Len(entries) => at \in DOMAIN entries
    <2>1. entries \in Seq(Nonempty)
      BY RangesAssumption DEF OpenTypeOK, Nonempty
    <2> QED
      BY <2>1, LenProperties DEF OpenTypeOK
  <1>2. OpenTypeOK' /\ MemoryRight' /\ ResultsRight'
    <2>1. fallbacks' \subseteq DOMAIN entries
      BY <1>0, <1>1 DEF Fallback, OpenTypeOK
    <2> QED
      BY <1>0, <2>1 DEF OpenTypeOK, MemoryRight, ResultsRight, memory, merging
  <1>3. PlacesRight' /\ TagsRight'
    BY <1>0 DEF PlacesRight, TagsRight
  <1>4. NoTagReadAlone'
    BY <1>0, <1>1, FallbackRight DEF NoTagReadAlone, merging
  <1> QED
    BY <1>2, <1>3, <1>4

LEMMA OpenStepInv == OpenInv /\ [OpenNext]_openVars => OpenInv'
  <1> SUFFICES ASSUME OpenInv, [OpenNext]_openVars PROVE OpenInv'
    OBVIOUS
  <1>1. CASE UNCHANGED openVars
    <2>1. UNCHANGED <<pc, directory, entries, wrapped, prefix, extra, missing, groups, at, running,
                      results, values, fallbacks>>
      BY <1>1 DEF openVars, memory, merging, reading
    <2>2. OpenTypeOK' /\ MemoryRight' /\ ResultsRight'
      BY <2>1 DEF OpenInv, OpenTypeOK, MemoryRight, ResultsRight
    <2>3. \A x : Covers(x)' = Covers(x)
      BY <2>1 DEF Covers, Blocks
    <2>4. (\A S : NoneLost(S)' <=> NoneLost(S)) /\ (\A n : Added(n)' <=> Added(n)) /\ (Ahead' <=> Ahead)
      BY <2>1, <2>3 DEF NoneLost, Added, Ahead, InGroup
    <2>5. PlacesRight'
      BY <2>1, <2>4 DEF OpenInv, PlacesRight, NothingMerged
    <2>6. TagsRight' /\ NoTagReadAlone'
      BY <2>1 DEF OpenInv, TagsRight, NoTagReadAlone
    <2> QED
      BY <2>2, <2>5, <2>6 DEF OpenInv
  <1>2. CASE OpenNext
    BY <1>2, PrefetchInv, ReadDirectoryInv, CollectInv, MergeInv, StartFetchesInv, AddExtentInv,
       FetchGroupInv, ReadTagInv, TagFailsInv DEF OpenNext, MergeRanges
  <1> QED
    BY <1>1, <1>2

\* The inductive invariant of OpenWithCache.
THEOREM OpenInvariance == OpenSpec => []OpenInv
  BY OpenInitInv, OpenStepInv, PTL DEF OpenSpec

\* A tag in the object has its value, for every size of the prefix, of a chunk
\* and of a group, and every directory.
THEOREM OpensTagsRight == OpenSpec => []TagsRight
  <1>1. OpenInv => TagsRight
    BY DEF OpenInv
  <1> QED
    BY <1>1, OpenInvariance, PTL

\* Merging loses no tag: one that is read on its own was in a group that was
\* refused.
THEOREM MergesEveryTag == OpenSpec => []NoTagReadAlone
  <1>1. OpenInv => NoTagReadAlone
    BY DEF OpenInv
  <1> QED
    BY <1>1, OpenInvariance, PTL

-----------------------------------------------------------------------------
(* parallelReadAt *)

\* A range request that does not fail finds what the object has of its range.
LEMMA FullRead ==
  ASSUME NEW s \in Nat, NEW e \in Nat, s <= e, call \in Calls, NEW clamped \in BOOLEAN,
         NEW o \in Outcomes(s, e, clamped), o.err # "error"
  PROVE /\ o.n = Present(s, e)
        /\ \A b \in s..(e - 1) : call.off + b < call.size => b \in s..(s + o.n - 1)
  <1>0. call.n \in Nat /\ call.off \in Nat /\ call.size \in Nat
    BY CallsAssumption
  <1>1. o.n = Present(s, e)
    <2>1. CASE s = e
      <3>1. o.n = 0
        BY <2>1 DEF Outcomes, Outcome
      <3> QED
        BY <1>0, <2>1, <3>1 DEF Present
    <2>2. CASE s # e
      BY <2>2 DEF Outcomes, Outcome
    <2> QED
      BY <2>1, <2>2
  <1> QED
    BY <1>0, <1>1 DEF Present

\* No outcome counts more bytes than were asked for.
LEMMA OutcomeBounds ==
  ASSUME NEW s \in Nat, NEW e \in Nat, s <= e, call \in Calls, NEW clamped \in BOOLEAN,
         NEW o \in Outcomes(s, e, clamped)
  PROVE o.n \in 0..(e - s) /\ o.err \in {"nil", "eof", "error"}
  <1>1. Present(s, e) \in 0..(e - s)
    BY CallsAssumption DEF Present
  <1> QED
    BY <1>1 DEF Outcomes, Outcome

\* The end of a chunk is inside the buffer, and past its start.
LEMMA EndBounds ==
  ASSUME call \in Calls, NEW s \in Bytes
  PROVE End(s) \in Nat /\ s < End(s) /\ End(s) <= call.n /\ s \in Nat
        /\ (~Direct => End(s) = IF s + call.chunk > call.n THEN call.n ELSE s + call.chunk)
  BY CallsAssumption DEF End, Bytes, Direct

\* The invariant holds at the start: nothing read, nothing returned.
LEMMA InitIInv == Init => IInv
  <1> SUFFICES ASSUME Init PROVE IInv
    OBVIOUS
  <1> USE DEF Init
  <1>0. call.n \in Nat /\ call.lazy \in BOOLEAN
    BY CallsAssumption
  <1>1. TypeOK
    <2>1. status \in [Bytes -> Requested \cup {"none", "done"}] /\ buf \in [Bytes -> BOOLEAN]
      OBVIOUS
    <2>2. result \in [n : 0..call.n, err : {"pending", "nil", "eof", "error"}]
      BY <1>0 DEF Pending
    <2> QED
      BY <1>0, <2>1, <2>2 DEF TypeOK
  <1>2. Covered
    BY <1>0 DEF Covered, Bytes
  <1>3. DoneIsFilled
    BY DEF DoneIsFilled
  <1>4. ResultFilled
    BY DEF ResultFilled, Pending
  <1> QED
    BY <1>1, <1>2, <1>3, <1>4 DEF IInv

\* Every step preserves the invariant.
LEMMA StepIInv == IInv /\ [Next]_vars => IInv'
  <1> SUFFICES ASSUME IInv, [Next]_vars PROVE IInv'
    OBVIOUS
  <1> USE DEF IInv
  <1>0. /\ call \in Calls /\ call.n \in Nat /\ call.off \in Nat /\ call.size \in Nat
        /\ call.chunk \in Nat \ {0} /\ call.conc \in Nat \ {0}
        /\ call.lazy \in BOOLEAN
    BY CallsAssumption DEF TypeOK
  <1>1. CASE ReadDirect
    <2> USE <1>1 DEF ReadDirect
    <2>1. PICK o \in Outcomes(0, call.n, sizeKnown) :
            /\ buf' = [b \in Bytes |-> buf[b] \/ b \in 0..(0 + o.n - 1)]
            /\ result' = o /\ Learn(o)
      BY DEF Fill
    <2>2. o.n \in 0..call.n /\ o.err \in {"nil", "eof", "error"}
      BY <1>0, <2>1, OutcomeBounds DEF TypeOK
    <2>3. TypeOK'
      <3>1. result' \in [n : 0..call.n, err : {"pending", "nil", "eof", "error"}]
        BY <2>1, <2>2 DEF Outcomes, Outcome
      <3>2. buf' \in [Bytes -> BOOLEAN] /\ sizeKnown' \in BOOLEAN
        BY <2>1 DEF TypeOK, Learn
      <3> QED
        BY <3>1, <3>2 DEF TypeOK, Bytes
    <2>4. Covered'
      BY DEF Covered, Bytes, Direct, End
    <2>5. DoneIsFilled'
      <3>1. \A b \in Bytes : buf[b] => buf'[b]
        BY <2>1
      <3>2. \A s \in Bytes : s..(End(s) - 1) \subseteq Bytes
        BY <1>0, EndBounds DEF Bytes
      <3>3. Bytes' = Bytes /\ \A s : End(s)' = End(s)
        BY DEF Bytes, End, Direct
      <3> QED
        BY <3>1, <3>2, <3>3 DEF DoneIsFilled
    <2>6. ResultFilled'
      <3>1. Bytes' = Bytes /\ Direct' = Direct /\ Present(0, call.n)' = Present(0, call.n)
        BY DEF Bytes, Direct, Present
      <3>2. SUFFICES ASSUME o.err # "error"
                     PROVE /\ o.n = Present(0, call.n)
                           /\ \A b \in Bytes : call.off + b < call.size => buf'[b]
        BY <2>1, <3>1 DEF ResultFilled
      <3>3. /\ o.n = Present(0, call.n)
            /\ \A b \in Bytes : call.off + b < call.size => b \in 0..(0 + o.n - 1)
        BY <1>0, <2>1, <3>2, FullRead DEF TypeOK, Bytes
      <3> QED
        BY <2>1, <3>3
    <2> QED
      BY <2>3, <2>4, <2>5, <2>6
  <1>2. CASE StartChunk
    <2> USE <1>2 DEF StartChunk
    <2>0. next \in Bytes
      BY <1>0 DEF TypeOK, Bytes
    <2>1. TypeOK'
      BY <1>0, <2>0 DEF TypeOK, Bytes, Requested
    <2>2. Covered'
      <3> SUFFICES ASSUME NEW b \in Bytes, b < next'
                   PROVE \E s \in Bytes : status'[s] # "none" /\ s <= b /\ b < End(s)
        BY DEF Covered, Bytes, Direct, End
      <3>1. CASE b < next
        <4>1. PICK s \in Bytes : status[s] # "none" /\ s <= b /\ b < End(s)
          BY <3>1 DEF Covered
        <4>2. status'[s] # "none"
          BY <4>1, <2>0 DEF TypeOK
        <4> QED
          BY <4>1, <4>2
      <3>2. CASE ~(b < next)
        <4>1. End(next) = IF next + call.chunk > call.n THEN call.n ELSE next + call.chunk
          BY <1>0, <2>0, EndBounds
        <4>2. next <= b /\ b < End(next)
          BY <1>0, <2>0, <3>2, <4>1 DEF Bytes, TypeOK
        <4>3. status'[next] # "none"
          BY <2>0 DEF TypeOK
        <4> QED
          BY <2>0, <4>2, <4>3
      <3> QED
        BY <3>1, <3>2
    <2>3. DoneIsFilled'
      <3>1. Bytes' = Bytes /\ \A s : End(s)' = End(s)
        BY DEF Bytes, End, Direct
      <3>2. \A s \in Bytes : status'[s] = "done" => status[s] = "done"
        BY <2>0 DEF TypeOK
      <3> QED
        BY <3>1, <3>2 DEF DoneIsFilled
    <2>4. ResultFilled'
      BY DEF ResultFilled, Bytes, Direct, Present
    <2> QED
      BY <2>1, <2>2, <2>3, <2>4
  <1>3. ASSUME NEW s \in Bytes, ChunkDone(s) PROVE IInv'
    <2> USE <1>3 DEF ChunkDone
    <2>0. /\ status' = [status EXCEPT ![s] = "done"] /\ s \in Running
          /\ UNCHANGED <<call, next, result>>
      OBVIOUS
    <2>1. PICK o \in Outcomes(s, End(s), status[s] = "clamped") :
            /\ buf' = [b \in Bytes |-> buf[b] \/ b \in s..(s + o.n - 1)]
            /\ firstErr' = (firstErr \/ o.err = "error")
            /\ Learn(o)
      BY DEF Fill
    <2>2. s \in Nat /\ End(s) \in Nat /\ s < End(s) /\ End(s) <= call.n
      BY <1>0, EndBounds
    <2>3. Bytes' = Bytes /\ (\A x : End(x)' = End(x)) /\ Direct' = Direct
      BY <2>0 DEF Bytes, End, Direct
    <2>4. TypeOK'
      BY <2>0, <2>1, <2>3 DEF TypeOK, Learn
    <2>5. Covered'
      BY <2>0, <2>3 DEF Covered, TypeOK
    <2>6. DoneIsFilled'
      <3> SUFFICES ASSUME ~firstErr', NEW x \in Bytes, status'[x] = "done",
                          NEW b \in x..(End(x) - 1), call.off + b < call.size
                   PROVE buf'[b]
        BY <2>0, <2>3 DEF DoneIsFilled
      <3>1. b \in Bytes
        BY <1>0, EndBounds DEF Bytes
      <3>2. CASE x = s
        <4>1. o.err # "error"
          BY <2>1
        <4>2. PICK e \in Nat : e = End(s)
          BY <2>2
        <4>3. PICK c \in BOOLEAN : c = (status[s] = "clamped")
          OBVIOUS
        <4>4. o \in Outcomes(s, e, c) /\ s <= e /\ e <= call.n
          BY <2>1, <2>2, <4>2, <4>3
        <4>6. b \in s..(s + o.n - 1)
          BY <2>2, <3>2, <4>1, <4>2, <4>4, FullRead DEF TypeOK
        <4> QED
          BY <2>1, <3>1, <4>6
      <3>3. CASE x # s
        <4>1. status[x] = "done" /\ ~firstErr
          BY <2>0, <2>1, <3>3 DEF TypeOK
        <4> QED
          BY <2>1, <3>1, <4>1 DEF DoneIsFilled
      <3> QED
        BY <3>2, <3>3
    <2>7. ResultFilled'
      BY <2>0, <2>1, <2>3 DEF ResultFilled, Present
    <2> QED
      BY <2>4, <2>5, <2>6, <2>7
  <1>4. CASE Return
    <2> USE <1>4 DEF Return, Outcome
    <2>1. TypeOK'
      BY <1>0 DEF TypeOK, Bytes
    <2>2. Covered' /\ DoneIsFilled'
      BY DEF Covered, DoneIsFilled, Bytes, Direct, End
    <2>3. ResultFilled'
      <3> SUFFICES ASSUME ~firstErr, NEW b \in Bytes, call.off + b < call.size
                   PROVE buf[b]
        BY DEF ResultFilled, Bytes, Direct
      <3>1. b < next
        BY <1>0 DEF Bytes, TypeOK
      <3>2. PICK s \in Bytes : status[s] # "none" /\ s <= b /\ b < End(s)
        BY <3>1 DEF Covered
      <3>3. status[s] = "done"
        BY <3>2 DEF TypeOK, Running
      <3>4. b \in s..(End(s) - 1)
        BY <1>0, <3>2, EndBounds DEF Bytes
      <3> QED
        BY <3>3, <3>4 DEF DoneIsFilled
    <2> QED
      BY <2>1, <2>2, <2>3
  <1>5. CASE UNCHANGED vars
    BY <1>5 DEF vars, TypeOK, Covered, DoneIsFilled, ResultFilled, Bytes, Direct, End, Present
  <1> QED
    BY <1>1, <1>2, <1>3, <1>4, <1>5 DEF Next, Step

\* The inductive invariant of parallelReadAt.
THEOREM Invariance == Safety => []IInv
  BY InitIInv, StepIInv, PTL DEF Safety

\* Type correctness: a count never passes the length of the buffer.
THEOREM TypeCorrect == Safety => []TypeOK
  <1>1. IInv => TypeOK
    BY DEF IInv
  <1> QED
    BY <1>1, Invariance, PTL

\* A read inside the object that returns no error has filled its buffer.
THEOREM Filled == Safety => []FilledInsideObject
  <1>1. IInv => FilledInsideObject
    <2> SUFFICES ASSUME IInv, result.err = "nil", call.off + call.n <= call.size
                 PROVE result.n = call.n /\ \A b \in Bytes : buf[b]
      BY DEF FilledInsideObject
    <2>1. call.n \in Nat /\ call.off \in Nat /\ call.size \in Nat
      BY CallsAssumption DEF IInv, TypeOK
    <2>2. Present(0, call.n) = call.n /\ \A b \in Bytes : call.off + b < call.size
      BY <2>1 DEF Present, Bytes
    <2> QED
      BY <2>2 DEF IInv, ResultFilled
  <1> QED
    BY <1>1, Invariance, PTL

-----------------------------------------------------------------------------
(* The semaphore *)

\* The chunks under way are finitely many: the semaphore's count is a number.
LEMMA RunningFinite == TypeOK => IsFiniteSet(Running) /\ Cardinality(Running) \in Nat
  <1> SUFFICES ASSUME TypeOK PROVE IsFiniteSet(Running)
    BY FS_CardinalityType
  <1>1. IsFiniteSet(Bytes)
    BY FS_Interval, CallsAssumption DEF Bytes, TypeOK
  <1> QED
    BY <1>1, FS_Subset DEF Running

\* A slot is taken only when one is free, and given back when a chunk is done.
LEMMA StepAtMostConc == TypeOK /\ AtMostConc /\ [Next]_vars => AtMostConc'
  <1> SUFFICES ASSUME TypeOK, AtMostConc, [Next]_vars PROVE AtMostConc'
    OBVIOUS
  <1>0. call.conc \in Nat /\ Cardinality(Running) \in Nat /\ IsFiniteSet(Running)
    BY RunningFinite, CallsAssumption DEF TypeOK
  <1>1. CASE StartChunk
    <2>1. Running' \subseteq Running \cup {next}
      BY <1>1 DEF StartChunk, Running, Bytes, TypeOK
    <2>2. /\ IsFiniteSet(Running \cup {next})
          /\ Cardinality(Running \cup {next}) <= Cardinality(Running) + 1
      <3>1. PICK R : R = Running
        OBVIOUS
      <3>2. /\ IsFiniteSet(R \cup {next})
            /\ Cardinality(R \cup {next}) =
                 IF next \in R THEN Cardinality(R) ELSE Cardinality(R) + 1
        BY <1>0, <3>1, FS_AddElement
      <3> QED
        BY <1>0, <3>1, <3>2
    <2>3. Cardinality(Running') <= Cardinality(Running \cup {next})
      BY <2>1, <2>2, FS_Subset
    <2>4. Cardinality(Running) < call.conc /\ call' = call
      BY <1>1 DEF StartChunk
    <2>5. /\ Cardinality(Running') \in Nat
          /\ Cardinality(Running \cup {next}) \in Nat
      BY <2>1, <2>2, FS_Subset, FS_CardinalityType
    <2> QED
      BY <1>0, <2>2, <2>3, <2>4, <2>5 DEF AtMostConc
  <1>2. CASE ReadDirect \/ Return \/ (\E s \in Bytes : ChunkDone(s)) \/ UNCHANGED vars
    <2>1. Running' \subseteq Running /\ call' = call
      BY <1>2 DEF ReadDirect, Return, ChunkDone, vars, Running, Bytes, TypeOK, Requested
    <2>2. Cardinality(Running') <= Cardinality(Running) /\ Cardinality(Running') \in Nat
      BY <1>0, <2>1, FS_Subset, FS_CardinalityType
    <2> QED
      BY <1>0, <2>1, <2>2 DEF AtMostConc
  <1> QED
    BY <1>1, <1>2 DEF Next, Step

\* At most tileFetchConcurrency range requests of one read are under way.
THEOREM Bounded == Safety => []AtMostConc
  <1>1. Init => AtMostConc
    <2> SUFFICES ASSUME Init PROVE AtMostConc
      OBVIOUS
    <2>1. Running = {}
      BY DEF Init, Running, Requested
    <2>2. Cardinality(Running) = 0 /\ call.conc \in Nat
      BY <2>1, FS_EmptySet, CallsAssumption DEF Init
    <2> QED
      BY <2>2 DEF AtMostConc
  <1> QED
    BY <1>1, TypeCorrect, StepAtMostConc, PTL DEF Safety
\* The loop and the goroutines are over before the read is.
LEMMA StepNoLateWrite ==
  ASSUME TypeOK, NoLateWrite, Direct => Running = {}, [Next]_vars
  PROVE NoLateWrite' /\ (Direct' => Running' = {})
  <1>1. call' = call /\ (Direct' <=> Direct)
    BY DEF Next, Step, ReadDirect, StartChunk, Return, ChunkDone, vars, Direct
  <1>2. CASE StartChunk
    <2>1. next \in Nat /\ call.n \in Nat /\ next < call.n /\ ~Direct /\ result' = result
      BY <1>2, CallsAssumption DEF StartChunk, TypeOK
    <2>2. result = Pending
      BY <2>1 DEF NoLateWrite
    <2> QED
      BY <1>1, <2>1, <2>2 DEF NoLateWrite
  <1>3. CASE ReadDirect
    <2>1. Running' = Running
      BY <1>3 DEF ReadDirect, Running, Bytes
    <2> QED
      BY <1>1, <1>3, <2>1 DEF ReadDirect, NoLateWrite
  <1>4. CASE Return
    <2>1. Running' = Running
      BY <1>4 DEF Return, Running, Bytes
    <2> QED
      BY <1>1, <1>4, <2>1 DEF Return, NoLateWrite
  <1>5. CASE \E s \in Bytes : ChunkDone(s)
    <2>1. Running # {} /\ result' = result
      BY <1>5 DEF ChunkDone
    <2> QED
      BY <1>1, <2>1 DEF NoLateWrite
  <1>6. CASE UNCHANGED vars
    BY <1>1, <1>6 DEF vars, NoLateWrite, Running, Bytes
  <1> QED
    BY <1>2, <1>3, <1>4, <1>5, <1>6 DEF Next, Step

\* A buffer that is given back is written by nobody any more.
THEOREM WrittenAlone == Safety => []NoLateWrite
  <1>1. Init => NoLateWrite /\ (Direct => Running = {})
    BY DEF Init, NoLateWrite, Running, Requested
  <1>2. TypeOK /\ (NoLateWrite /\ (Direct => Running = {})) /\ [Next]_vars
           => (NoLateWrite /\ (Direct => Running = {}))'
    BY StepNoLateWrite
  <1> QED
    BY <1>1, <1>2, TypeCorrect, PTL DEF Safety

\* What a step may do to the count: take one away, or move two from the loop
\* to a goroutine.
LEMMA StepCounts == TypeOK /\ Next => Left' < Left
  <1> SUFFICES ASSUME TypeOK, Next PROVE Left' < Left
    OBVIOUS
  <1> DEFINE ahead == IF next < call.n THEN call.n - next ELSE 0
             pending == IF result = Pending THEN 1 ELSE 0
             count == Cardinality(Running)
  <1>0. /\ call.n \in Nat /\ call.chunk \in Nat \ {0} /\ next \in Nat
        /\ IsFiniteSet(Running) /\ count \in Nat /\ call' = call
        /\ ahead \in Nat /\ pending \in Nat
    <2>1. call \in [n : Nat, off : Nat, size : Nat, chunk : Nat \ {0}, conc : Nat \ {0},
                    lazy : BOOLEAN]
      BY CallsAssumption DEF TypeOK
    <2>2. call' = call
      BY DEF Next, Step, ReadDirect, StartChunk, Return, ChunkDone
    <2>3. call.n \in Nat /\ call.chunk \in Nat \ {0} /\ next \in Nat
      BY <2>1 DEF TypeOK
    <2> QED
      BY <2>2, <2>3, RunningFinite
  <1>1. /\ Left = pending + 2 * ahead + count
        /\ Left' = pending' + 2 * ahead' + count'
    BY DEF Left
  <1>2. CASE ReadDirect \/ Return
    <2>1. pending = 1 /\ pending' = 0 /\ next' = next /\ status' = status
      <3>1. \A o : result' = o /\ o.err # "pending" => result' # Pending
        BY DEF Pending
      <3>2. \A o \in Outcomes(0, call.n, sizeKnown) : o.err # "pending"
        BY DEF Outcomes, Outcome
      <3>3. Outcome(0, "error").err # "pending" /\ Outcome(call.n, "nil").err # "pending"
        BY DEF Outcome
      <3> QED
        BY <1>2, <3>1, <3>2, <3>3 DEF ReadDirect, Return
    <2>2. count' = count /\ ahead' = ahead
      BY <1>0, <2>1 DEF Running, Bytes
    <2> HIDE DEF ahead, pending, count
    <2> QED
      BY <1>0, <1>1, <2>1, <2>2
  <1>3. CASE StartChunk
    <2>1. pending' = pending /\ next' = next + call.chunk /\ next < call.n
      BY <1>3 DEF StartChunk
    <2>2. ahead' \in Nat /\ ahead' < ahead
      BY <1>0, <2>1
    <2>3. count' \in Nat /\ count' <= count + 1
      <3>1. Running' \subseteq Running \cup {next}
        BY <1>3 DEF StartChunk, Running, Bytes, TypeOK
      <3>2. PICK R : R = Running
        OBVIOUS
      <3>3. /\ IsFiniteSet(R \cup {next})
            /\ Cardinality(R \cup {next}) =
                 IF next \in R THEN Cardinality(R) ELSE Cardinality(R) + 1
        BY <1>0, <3>2, FS_AddElement
      <3>4. /\ IsFiniteSet(Running') /\ Cardinality(Running') <= Cardinality(R \cup {next})
        BY <3>1, <3>2, <3>3, FS_Subset
      <3>5. Cardinality(Running') \in Nat
        BY <3>4, FS_CardinalityType
      <3> QED
        BY <1>0, <3>2, <3>3, <3>4, <3>5
    <2> HIDE DEF ahead, pending, count
    <2>4. \A a, b, c, d, e \in Nat : b < a /\ d <= c + 1 => e + 2 * b + d < e + 2 * a + c
      OBVIOUS
    <2>5. pending + 2 * ahead' + count' < pending + 2 * ahead + count
      BY <1>0, <2>2, <2>3, <2>4
    <2> QED
      BY <1>1, <2>1, <2>5
  <1>4. CASE \E s \in Bytes : ChunkDone(s)
    <2>1. PICK s \in Bytes : ChunkDone(s)
      BY <1>4
    <2>2. pending' = pending /\ next' = next /\ s \in Running
      BY <2>1 DEF ChunkDone
    <2>3. Running' = Running \ {s}
      BY <2>1 DEF ChunkDone, Running, Bytes, Requested, TypeOK
    <2>4. count' = count - 1
      <3>1. PICK R : R = Running
        OBVIOUS
      <3>2. Cardinality(R \ {s}) = Cardinality(R) - 1
        BY <1>0, <2>2, <3>1, FS_RemoveElement
      <3> QED
        BY <2>3, <3>1, <3>2
    <2>5. ahead' = ahead
      BY <1>0, <2>2
    <2> HIDE DEF ahead, pending, count
    <2> QED
      BY <1>0, <1>1, <2>2, <2>4, <2>5
  <1> QED
    BY <1>2, <1>3, <1>4 DEF Next, Step

\* A read of any size, with any chunks and slots, is over after finitely many
\* steps: the part of EveryReadReturns that needs no fairness.
THEOREM StepsCount == Safety => EveryStepCounts
  <1>1. TypeOK /\ [Next]_vars => [Left' < Left]_vars
    BY StepCounts
  <1> QED
    BY <1>1, TypeCorrect, PTL DEF Safety, EveryStepCounts

-----------------------------------------------------------------------------
(* What OpenWithCache takes parallelReadAt for *)

\* What a read returns, when it returns no error but io.EOF, is what Fetched says
\* of its range: the count, and every byte that Fetched knows was written.
ReadAsFetched ==
    LET data == Fetched([start |-> call.off, end |-> call.off + call.n])
    IN result.err \in {"nil", "eof"} /\ call.size = ObjectSize /\ (Direct <=> call.n <= ChunkSize)
         => /\ result.n = Len(data)
            /\ \A b \in Bytes : b < result.n /\ data[b + 1] # None => buf[b]

\* So the reads of OpenWithCache may be taken for one step each.
THEOREM ReadsAsTaken == Safety => []ReadAsFetched
  <1>1. IInv => ReadAsFetched
    <2> DEFINE r == [start |-> call.off, end |-> call.off + call.n]
               data == Fetched(r)
    <2> SUFFICES ASSUME IInv, result.err \in {"nil", "eof"}, call.size = ObjectSize,
                        Direct <=> call.n <= ChunkSize
                 PROVE /\ result.n = Len(data)
                       /\ \A b \in Bytes : b < result.n /\ data[b + 1] # None => buf[b]
      BY DEF ReadAsFetched
    <2>1. /\ call.n \in Nat /\ call.off \in Nat /\ ObjectSize \in Nat
          /\ result.n = (IF Direct THEN Present(0, call.n) ELSE call.n)
          /\ \A b \in Bytes : call.off + b < call.size => buf[b]
      BY CallsAssumption DEF IInv, TypeOK, ResultFilled
    <2>2. /\ r \in Ranges /\ r.start <= r.end /\ r.end - r.start = call.n /\ r.start = call.off
          /\ r.end = call.off + call.n
      BY <2>1 DEF Ranges
    <2>3. /\ \A i \in 1..Len(data) : r.start + i - 1 >= ObjectSize => data[i] = None
          /\ Len(data) = IF r.end - r.start <= ChunkSize
                         THEN Larger(r.start, Smaller(r.end, ObjectSize)) - r.start
                         ELSE r.end - r.start
      BY <2>2, FetchedRight
    <2> HIDE DEF data, r
    <2>4. result.n = Len(data)
      BY <2>1, <2>2, <2>3 DEF Present, Larger, Smaller
    <2>5. ASSUME NEW b \in Bytes, b < result.n, data[b + 1] # None PROVE buf[b]
      <3>1. b \in Nat /\ b + 1 \in 1..Len(data)
        <4>1. result.n \in Nat
          BY <2>1 DEF IInv, TypeOK
        <4> QED
          BY <2>1, <2>4, <2>5, <4>1 DEF Bytes
      <3>2. ~(r.start + (b + 1) - 1 >= ObjectSize)
        BY <2>3, <2>5, <3>1
      <3>3. call.off + b < call.size
        BY <2>1, <2>2, <3>1, <3>2
      <3> QED
        BY <2>1, <3>3
    <2> QED
      BY <2>4, <2>5
  <1> QED
    BY <1>1, Invariance, PTL
=============================================================================
