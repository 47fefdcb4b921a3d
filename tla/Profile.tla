------------------------------ MODULE Profile -------------------------------
(***************************************************************************)
(* A request of the API: the elevation at a point, or along a path whose   *)
(* segments are walked pixel by pixel.  A GeoTIFF and a VRT walk alike,    *)
(* but a segment that leaves a VRT is skipped, and one that leaves a       *)
(* GeoTIFF ends the request.                                               *)
(***************************************************************************)
EXTENDS Raster

CONSTANTS
    Paths(_),        \* the paths that are asked for, of each raster
    Points(_),       \* the points that are asked for
    MaxFailures,     \* bound: samples that cannot be read
    None             \* in a path: what is no pair of numbers; no answer yet

ASSUME PathsAssumption ==
    \A r \in Rasters : Paths(r) \subseteq Seq([lat : Int, lon : Int] \cup {None})
ASSUME PointsAssumption == \A r \in Rasters : Points(r) \subseteq [lat : Int, lon : Int]
ASSUME NoneAssumption == None \notin Samples \cup {Outside, NoSample}
ASSUME FailuresAssumption == MaxFailures \in Nat

VARIABLES
    raster,          \* the raster that is served
    request,         \* a point, or a path
    pc,              \* where the request is
    seg,             \* i
    line,            \* the ends of the segment and numSteps
    j,               \* steps of the loop done
    at,              \* the pixel of the last step
    visited,         \* visitedPixels
    profile,         \* profile
    answer,          \* of a point: a sample, Outside or NoSample
    failures         \* samples that could not be read

input == <<raster, request>>
vars == <<input, pc, seg, line, j, at, visited, profile, answer, failures>>

Abs(n) == IF n < 0 THEN -n ELSE n
Larger(a, b) == IF a > b THEN a ELSE b

NoLine == [from |-> Pixel(0, 0), to |-> Pixel(0, 0), steps |-> 1]

Init ==
    /\ raster \in Rasters
    /\ \/ \E p \in Points(raster) : request = [kind |-> "point", point |-> p]
       \/ \E path \in Paths(raster) : request = [kind |-> "path", path |-> path]
    /\ pc = "start" /\ seg = 1 /\ line = NoLine /\ j = 0 /\ at = Pixel(0, 0)
    /\ visited = {} /\ profile = << >> /\ answer = None /\ failures = 0

Fails == failures < MaxFailures /\ failures' = failures + 1

-----------------------------------------------------------------------------
(* AtCoord *)

\* AtCoord gets as far as the file: to a tile, or in a VRT to the opening of the
\* source, which comes before the question whether the source has the point.
ReadsFile(p) ==
    /\ InBounds(raster, p) /\ InRaster(raster, CoordToPixel(p))
    /\ raster.kind = "vrt" => FindSource(raster, CoordToPixel(p)) # 0

AnswerPoint ==
    /\ pc = "start" /\ request.kind = "point"
    /\ \/ answer' = AtCoord(raster, request.point) /\ UNCHANGED failures
       \/ ReadsFile(request.point) /\ Fails /\ answer' = NoSample
    /\ pc' = "done"
    /\ UNCHANGED <<input, seg, line, j, at, visited, profile>>

-----------------------------------------------------------------------------
(* Profile *)

Begin ==
    /\ pc = "start" /\ request.kind = "path"
    /\ pc' = IF Len(request.path) < 2 THEN "refused" ELSE "segment"
    /\ UNCHANGED <<input, seg, line, j, at, visited, profile, answer, failures>>

\* Both ends are pairs of numbers.
WellFormed(i) == request.path[i] # None /\ request.path[i + 1] # None

Walkable(i) == /\ WellFormed(i)
               /\ InBounds(raster, request.path[i]) /\ InBounds(raster, request.path[i + 1])

\* MUTANT of Steps: the line is taken for one that runs east or west.
StepsEast(from, to) == Larger(Abs(to.x - from.x), 1)

\* The longer side in pixels, one at least.
Steps(from, to) == Larger(Larger(Abs(to.x - from.x), Abs(to.y - from.y)), 1)

Segment ==
    /\ pc = "segment" /\ seg < Len(request.path) /\ Walkable(seg)
    /\ LET from == CoordToPixel(request.path[seg])
           to == CoordToPixel(request.path[seg + 1])
       IN line' = [from |-> from, to |-> to, steps |-> Steps(from, to)]
    /\ j' = 0
    /\ pc' = "walk"
    /\ UNCHANGED <<input, seg, at, visited, profile, answer, failures>>

\* MUTANT of SkipSegment: the rest of the path is skipped with it.
SkipRest ==
    /\ pc = "segment" /\ seg < Len(request.path) /\ ~Walkable(seg)
    /\ IF raster.kind = "vrt" /\ WellFormed(seg) THEN seg' = Len(request.path) /\ UNCHANGED pc
       ELSE pc' = "refused" /\ UNCHANGED seg
    /\ UNCHANGED <<input, line, j, at, visited, profile, answer, failures>>

SkipSegment ==
    /\ pc = "segment" /\ seg < Len(request.path) /\ ~Walkable(seg)
    /\ IF raster.kind = "vrt" /\ WellFormed(seg) THEN seg' = seg + 1 /\ UNCHANGED pc
       ELSE pc' = "refused" /\ UNCHANGED seg
    /\ UNCHANGED <<input, line, j, at, visited, profile, answer, failures>>

\* d / steps is a float without rounding: a whole number, or a binary fraction.
Exact(d, steps) == d % steps = 0 \/ \E k \in 1..steps : (d * 2^k) % steps = 0

\* MUTANT of Along: the increment is cut, not the sum.
AlongWhole(d, steps, n) == {n * (IF d < 0 THEN -(Abs(d) \div steps) ELSE d \div steps)}

\* int(float64(n) * (d / steps)): towards zero, and one short if the product is
\* a whole number but the increment was rounded down.
Along(d, steps, n) ==
    LET whole == (n * Abs(d)) \div steps
        short == whole > 0 /\ (n * Abs(d)) % steps = 0 /\ ~Exact(d, steps)
        sign == IF d < 0 THEN -1 ELSE 1
    IN {sign * k : k \in {whole} \cup (IF short THEN {whole - 1} ELSE {})}

Entry(q, sample) == [coord |-> PixelToCoord(q), elevation |-> sample]

\* A pixel is visited once, whether it has an elevation or not.
Visit(q) ==
    LET sample == Loc(raster, q) IN
    /\ visited' = visited \cup {q}
    /\ \/ q \in visited /\ UNCHANGED <<profile, failures>>
       \/ /\ q \notin visited
          /\ profile' = (IF sample \in {Outside, NoSample} THEN profile ELSE Append(profile, Entry(q, sample)))
          /\ UNCHANGED failures
       \/ q \notin visited /\ Fails /\ UNCHANGED profile

Step ==
    /\ pc = "walk" /\ j <= line.steps
    /\ \E x \in Along(line.to.x - line.from.x, line.steps, j),
          y \in Along(line.to.y - line.from.y, line.steps, j) :
          /\ at' = Pixel(line.from.x + x, line.from.y + y)
          /\ Visit(at')
    /\ j' = j + 1
    /\ UNCHANGED <<input, pc, seg, line, answer>>

EndSegment ==
    /\ pc = "walk" /\ j > line.steps
    /\ seg' = seg + 1
    /\ pc' = "segment"
    /\ UNCHANGED <<input, line, j, at, visited, profile, answer, failures>>

Finish ==
    /\ pc = "segment" /\ seg = Len(request.path)
    /\ pc' = "done"
    /\ UNCHANGED <<input, seg, line, j, at, visited, profile, answer, failures>>

Next == \/ AnswerPoint \/ Begin \/ Segment \/ SkipSegment \/ Step \/ EndSegment \/ Finish

Spec == Init /\ [][Next]_vars
-----------------------------------------------------------------------------
(* Properties *)

\* Distances of a pixel from where it should be on its segment, in units of a
\* pixel over the number of steps.
Off(q) == Abs((line.to.x - line.from.x) * (q.y - line.from.y)
              - (line.to.y - line.from.y) * (q.x - line.from.x))
Exactly(d) == IF Abs(d) = line.steps THEN {(j - 1) * (IF d < 0 THEN -1 ELSE 1)} ELSE Int

\* The walk keeps to the line: a pixel for each step on the longer side, and
\* never more than one pixel away on the other, whatever the rounding.
OnTheLine ==
    pc = "walk" /\ j > 0 =>
        /\ at.x - line.from.x \in Exactly(line.to.x - line.from.x)
        /\ at.y - line.from.y \in Exactly(line.to.y - line.from.y)
        /\ Off(at) <= line.steps

Near(a, b) == Abs(a.x - b.x) <= 1 /\ Abs(a.y - b.y) <= 1

\* "samples the elevation at a resolution equivalent to the raster's native
\* pixel grid": no step of a segment leaves a pixel out.
Unbroken == [][pc = "walk" /\ j \in 1..line.steps => Near(at, at')]_vars

\* What the raster has at a pixel.  In a VRT the pixel of the first source that
\* has it, in the same place of its rectangle.
Shown(q, sample) ==
    IF raster.kind = "tiff" THEN sample = FileSample(raster.file, q)
    ELSE \E i \in DOMAIN raster.sources :
            LET s == raster.sources[i] IN
            /\ Has(s, q) /\ \A k \in 1..(i - 1) : ~Has(raster.sources[k], q)
            /\ \E dx \in 0..(s.src.width - 1), dy \in 0..(s.src.height - 1) :
                  /\ sample = FileSample(s.file, Pixel(s.src.x + dx, s.src.y + dy))
                  /\ dx * s.dst.width <= (q.x - s.dst.x) * s.src.width
                  /\ (q.x - s.dst.x) * s.src.width < (dx + 1) * s.dst.width
                  /\ dy * s.dst.height <= (q.y - s.dst.y) * s.src.height
                  /\ (q.y - s.dst.y) * s.src.height < (dy + 1) * s.dst.height

HalfAPixel(q, p) == /\ 2 * Abs(p.lon - q.x * Parts) <= Parts
                    /\ 2 * Abs(p.lat - q.y * Parts) <= Parts

ReadRight == IF raster.kind = "tiff" THEN ~Misread(raster.file)
             ELSE \A i \in DOMAIN raster.sources : ~Misread(raster.sources[i].file)

\* An elevation is the one the file has, in the unit and format it has it, at a
\* pixel no further than half a pixel from the point it is given for, and that
\* of a profile is what AtCoord gives there.
ElevationsRight ==
    ReadRight =>
    /\ answer \notin {None, Outside, NoSample} =>
          \E x \in 0..raster.width, y \in 0..raster.height :
              /\ InRaster(raster, Pixel(x, y)) /\ HalfAPixel(Pixel(x, y), request.point)
              /\ Shown(Pixel(x, y), answer)
    /\ \A k \in DOMAIN profile :
          \E q \in visited :
              InRaster(raster, q) /\ HalfAPixel(q, profile[k].coord) /\ Shown(q, profile[k].elevation)
    /\ \A k \in DOMAIN profile : AtCoord(raster, profile[k].coord) = profile[k].elevation

Walked(i) == /\ CoordToPixel(request.path[i]) \in visited
             /\ \E q \in visited : Near(q, CoordToPixel(request.path[i + 1]))

\* A path is answered with all its segments that lie in the raster, one that
\* leaves a GeoTIFF or has an end that is no pair with an error.
SegmentsWalked ==
    pc = "done" /\ request.kind = "path" =>
        \A i \in 1..(Len(request.path) - 1) :
            Walked(i) \/ (raster.kind = "vrt" /\ WellFormed(i) /\ ~Walkable(i))
=============================================================================
