---------------------------- MODULE PrefixReader ----------------------------
(***************************************************************************)
(* Opening a GeoTIFF: its first bytes are read in one go, then the         *)
(* directory, then the values of its tags, those that lie outside of what  *)
(* is in memory as a few merged ranges by goroutines of their own.  What   *)
(* is in memory is never read again.  A byte of the object is its own      *)
(* position; None is a byte of a buffer that was never written.            *)
(***************************************************************************)
EXTENDS Integers, Sequences, FiniteSets, Functions

CONSTANTS
    ObjectSize,      \* the object's true size
    PrefetchSizes,   \* what headerPrefetchSize may be set to
    MaxMergeSpan,    \* maxMergeSpan
    ChunkSize,       \* longer reads of parallelReadAt are cut in chunks
    Directories,     \* where the directory may lie
    Entries,         \* what it may say: the ranges of its out-of-line values
    None             \* a byte that was never written

Ranges == [start : Nat, end : Nat]

ASSUME SizesAssumption ==
    /\ ObjectSize \in Nat /\ MaxMergeSpan \in Nat
    /\ PrefetchSizes \subseteq Nat /\ ChunkSize \in Nat \ {0}
ASSUME RangesAssumption ==
    /\ Directories \subseteq {r \in Ranges : r.start < r.end}
    /\ Entries \subseteq Seq({r \in Ranges : r.start < r.end})
ASSUME NoneAssumption == None \notin Nat

VARIABLES
    pc,              \* where OpenWithCache is
    directory,       \* where the directory lies
    entries,         \* the ranges of its values
    wrapped,         \* there is a prefixReader
    prefix,          \* its first bytes
    extra,           \* its extents
    missing,         \* the array behind missing and groups
    groups,          \* the length of groups
    at,              \* where the loop over missing, groups or entries is
    running,         \* groups whose goroutine is not done
    results,         \* the bytes of each group
    values,          \* the bytes of the tags so far
    fallbacks        \* tags that went to the network one by one

memory == <<wrapped, prefix, extra>>
merging == <<missing, groups, running, results>>
reading == <<values, fallbacks>>
openVars == <<pc, directory, entries, memory, merging, at, reading>>

Smaller(a, b) == IF a < b THEN a ELSE b
Larger(a, b) == IF a > b THEN a ELSE b

OpenInit ==
    /\ pc = "prefix"
    /\ directory \in Directories
    /\ entries \in Entries
    /\ wrapped = FALSE /\ prefix = << >> /\ extra = << >>
    /\ missing = << >> /\ groups = 0 /\ at = 1 /\ running = {} /\ results = << >>
    /\ values = << >> /\ fallbacks = {}

-----------------------------------------------------------------------------
(* The bytes of a range, from the object and from memory *)

BytesOf(r) == [i \in 1..(r.end - r.start) |-> r.start + i - 1]
Inside(r) == r.end <= ObjectSize

\* What parallelReadAt, without an error but io.EOF, leaves of buf: buf[:n].  One
\* request stops at the end of the object; chunks are taken for whole.
Fetched(r) ==
    LET present == BytesOf([r EXCEPT !.end = Larger(r.start, Smaller(r.end, ObjectSize))])
        rest == r.end - r.start - Len(present)
    IN IF r.end - r.start <= ChunkSize THEN present
       ELSE present \o [i \in 1..rest |-> None]

Block(off, data) == [off |-> off, data |-> data]
Holds(x, r) == r.start >= x.off /\ r.end <= x.off + Len(x.data)
Part(x, r) == SubSeq(x.data, r.start - x.off + 1, r.end - x.off)

Blocks == <<Block(0, prefix)>> \o extra

Covers(r) == wrapped /\ \E i \in DOMAIN Blocks : Holds(Blocks[i], r)

FirstHolding(r) ==
    CHOOSE i \in DOMAIN Blocks :
        Holds(Blocks[i], r) /\ \A j \in 1..(i - 1) : ~Holds(Blocks[j], r)

\* MUTANT of Served: a part of an extent is cut as if the extent began the file.
ServedUnshifted(r) ==
    LET x == Blocks[FirstHolding(r)]
    IN SubSeq([i \in 1..r.end |-> IF i \in DOMAIN x.data THEN x.data[i] ELSE None],
              r.start + 1, r.end)

\* From the first block that has all of r.
Served(r) == Part(Blocks[FirstHolding(r)], r)

\* io.ReadFull of r: all of it or an error.
Reads(r) == IF Covers(r) THEN {Served(r)} ELSE IF Inside(r) THEN {BytesOf(r)} ELSE {}

-----------------------------------------------------------------------------
(* newPrefixReader and readTags up to the directory *)

\* The object's first bytes, cut at its size.  If the read fails, or the size
\* cannot be learned, everything is read from the network.
Prefetch ==
    /\ pc = "prefix"
    /\ \/ \E size \in PrefetchSizes :
             /\ wrapped' = TRUE
             /\ prefix' = LET data == Fetched([start |-> 0, end |-> size])
                          IN SubSeq(data, 1, Smaller(Len(data), ObjectSize))
       \/ UNCHANGED <<wrapped, prefix>>
    /\ pc' = "directory"
    /\ UNCHANGED <<directory, entries, extra, merging, at, reading>>

\* readHeader, the count of the entries and the entries.
ReadDirectory ==
    /\ pc = "directory"
    /\ \E bytes \in Reads(directory) :
          extra' = IF wrapped THEN Append(extra, Block(directory.start, bytes)) ELSE extra
    /\ pc' = IF wrapped THEN "collect" ELSE "tags"
    /\ UNCHANGED <<directory, entries, wrapped, prefix, merging, at, reading>>

DirectoryFails ==
    /\ pc = "directory" /\ ~Covers(directory)
    /\ pc' = "failed"
    /\ UNCHANGED <<directory, entries, memory, merging, at, reading>>

-----------------------------------------------------------------------------
(* prefetchMissingRanges *)

ByStart(s) == \A i, j \in DOMAIN s : i < j => s[i].start <= s[j].start

Uncovered == {t \in DOMAIN entries : ~Covers(entries[t])}

\* In an order sort.Slice may leave: ranges with one start in any.
Collect ==
    /\ pc = "collect"
    /\ \E f \in Bijection(1..Cardinality(Uncovered), Uncovered) :
          missing' = [i \in 1..Cardinality(Uncovered) |-> entries[f[i]]]
    /\ ByStart(missing')
    /\ groups' = Smaller(Len(missing'), 1)
    /\ IF missing' = << >> THEN pc' = "tags" /\ at' = 1 ELSE pc' = "merge" /\ at' = 2
    /\ UNCHANGED <<directory, entries, memory, running, results, reading>>

\* MUTANT of Merge: the group ends where its last range does.
MergeShrinks ==
    /\ pc = "merge" /\ at <= Len(missing)
    /\ IF missing[at].end - missing[groups].start <= MaxMergeSpan
       THEN missing' = [missing EXCEPT ![groups].end = missing[at].end] /\ UNCHANGED groups
       ELSE missing' = [missing EXCEPT ![groups + 1] = missing[at]] /\ groups' = groups + 1
    /\ at' = at + 1
    /\ UNCHANGED <<pc, directory, entries, memory, running, results, reading>>

\* groups is missing[:1] to begin with, so it grows over missing, from behind
\* the loop that reads it.
Merge ==
    /\ pc = "merge" /\ at <= Len(missing)
    /\ IF missing[at].end - missing[groups].start <= MaxMergeSpan
       THEN /\ missing' = [missing EXCEPT ![groups].end = Larger(@, missing[at].end)]
            /\ UNCHANGED groups
       ELSE missing' = [missing EXCEPT ![groups + 1] = missing[at]] /\ groups' = groups + 1
    /\ at' = at + 1
    /\ UNCHANGED <<pc, directory, entries, memory, running, results, reading>>

StartFetches ==
    /\ pc = "merge" /\ at > Len(missing)
    /\ running' = 1..groups
    /\ results' = [g \in 1..groups |-> << >>]
    /\ pc' = "fetch"
    /\ at' = 1
    /\ UNCHANGED <<directory, entries, memory, missing, groups, reading>>

\* A group that fails is left out.
FetchGroup(g) ==
    /\ pc = "fetch" /\ g \in running
    /\ running' = running \ {g}
    /\ \/ results' = [results EXCEPT ![g] = Fetched(missing[g])]
       \/ UNCHANGED results
    /\ UNCHANGED <<pc, directory, entries, memory, missing, groups, at, reading>>

\* wg.Wait is through: addExtent of each group in turn, which leaves an empty
\* one out.
AddExtent ==
    /\ pc = "fetch" /\ running = {}
    /\ extra' = IF results[at] = << >> THEN extra
                ELSE Append(extra, Block(missing[at].start, results[at]))
    /\ IF at < groups THEN at' = at + 1 /\ UNCHANGED pc ELSE at' = 1 /\ pc' = "tags"
    /\ UNCHANGED <<directory, entries, wrapped, prefix, merging, reading>>

-----------------------------------------------------------------------------
(* The values of the tags *)

Fallback(t) == IF wrapped /\ ~Covers(entries[t]) THEN fallbacks \cup {t} ELSE fallbacks

ReadTag ==
    /\ pc = "tags" /\ at <= Len(entries)
    /\ \E bytes \in Reads(entries[at]) : values' = Append(values, bytes)
    /\ fallbacks' = Fallback(at)
    /\ at' = at + 1
    /\ UNCHANGED <<pc, directory, entries, memory, merging>>

TagFails ==
    /\ pc = "tags" /\ at <= Len(entries) /\ ~Covers(entries[at])
    /\ fallbacks' = Fallback(at)
    /\ pc' = "failed"
    /\ UNCHANGED <<directory, entries, memory, merging, at, values>>

\* A tag the GeoTIFF needs may be missing.
Opened ==
    /\ pc = "tags" /\ at > Len(entries)
    /\ pc' \in {"opened", "failed"}
    /\ UNCHANGED <<directory, entries, memory, merging, at, reading>>

MergeRanges == Collect \/ Merge \/ StartFetches \/ AddExtent

OpenNext ==
    \/ Prefetch \/ ReadDirectory \/ DirectoryFails
    \/ MergeRanges \/ \E g \in running : FetchGroup(g)
    \/ ReadTag \/ TagFails \/ Opened

OpenSpec == OpenInit /\ [][OpenNext]_openVars

-----------------------------------------------------------------------------
(* Properties *)

\* A tag whose value lies in the object has that value, from whichever read and
\* whatever else was read with it, if the GeoTIFF opens.
TagsRight == \A t \in DOMAIN values : Inside(entries[t]) => values[t] = BytesOf(entries[t])

\* "one merged extent": no tag in the object is read on its own unless
\* the read of the group it belongs to was refused.
NoTagReadAlone ==
    \A t \in fallbacks : Inside(entries[t]) =>
        \E g \in DOMAIN results :
            /\ results[g] = << >>
            /\ missing[g].start <= entries[t].start /\ entries[t].end <= missing[g].end
=============================================================================
