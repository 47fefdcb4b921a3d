------------------------------- MODULE Raster -------------------------------
(***************************************************************************)
(* From a coordinate to a sample: the pixel, in a VRT the source file and  *)
(* its pixel, the tile and the place in it.  A coordinate counts in parts  *)
(* of a pixel from the upper left corner, latitudes downwards.             *)
(***************************************************************************)
EXTENDS Samples, SequencesExt

CONSTANTS
    Parts,           \* parts of a pixel that coordinates tell apart
    Mosaics,         \* VRTs: their size and their sources
    Outside          \* the error that says "does not fall inside"

\* As a VRT may say: OpenVRT checks none of them.
Rects == [x : Int, y : Int, width : Int, height : Int]

ASSUME PartsAssumption == Parts \in Nat \ {0}
\* A source reads something; where it goes in the mosaic may be empty.
ASSUME MosaicsAssumption ==
    \A m \in Mosaics :
        /\ m.width \in Nat \ {0} /\ m.height \in Nat \ {0}
        /\ m.sources \in Seq({s \in [file : DOMAIN Files, src : Rects, dst : Rects] :
                                 s.src.width > 0 /\ s.src.height > 0})
ASSUME OutsideAssumption == Outside \notin Samples \cup {NoSample}

\* A GeoTIFF by itself, or a VRT.
Tiff(f) == [kind |-> "tiff", file |-> f, width |-> Files[f].width, height |-> Files[f].height]
VRT(m) == [kind |-> "vrt", sources |-> m.sources, width |-> m.width, height |-> m.height]
Rasters == {Tiff(f) : f \in DOMAIN Files} \cup {VRT(m) : m \in Mosaics}

-----------------------------------------------------------------------------
(* Coordinates and pixels *)

Point(lat, lon) == [lat |-> lat, lon |-> lon]

\* The edges of the last row and column are inside.
InBounds(r, p) == p.lat \in 0..(r.height * Parts) /\ p.lon \in 0..(r.width * Parts)

\* math.Round of a length in pixels: a half goes up.
Round(length) == (2 * length + Parts) \div (2 * Parts)
CoordToPixel(p) == Pixel(Round(p.lon), Round(p.lat))

PixelToCoord(q) == Point(q.y * Parts, q.x * Parts)

InRaster(r, q) == q.x \in 0..(r.width - 1) /\ q.y \in 0..(r.height - 1)

-----------------------------------------------------------------------------
(* A GeoTIFF: tiles in rows, each its samples in rows, padded to the full size *)

TileNum(f, q) == Across(f) * (q.y \div Files[f].tileLength) + (q.x \div Files[f].tileWidth)
Index(f, q) == (q.y % Files[f].tileLength) * Files[f].tileWidth + (q.x % Files[f].tileWidth)

\* MUTANT of TiffLoc: what rounding puts past the last pixel is outside.
TiffLocEdge(f, q) ==
    IF InRaster(Files[f], q) THEN SampleAt(f, TileNum(f, q), Index(f, q)) ELSE Outside

\* loc.  A pixel past the last is another error than a point outside the bounds.
TiffLoc(f, q) ==
    IF InRaster(Files[f], q) THEN SampleAt(f, TileNum(f, q), Index(f, q)) ELSE NoSample
TiffAtCoord(f, p) == IF InBounds(Files[f], p) THEN TiffLoc(f, CoordToPixel(p)) ELSE Outside

-----------------------------------------------------------------------------
(* A VRT: the first source that has the pixel, at the pixel scaled to it *)

Has(s, q) == /\ q.x \in s.dst.x..(s.dst.x + s.dst.width - 1)
             /\ q.y \in s.dst.y..(s.dst.y + s.dst.height - 1)

FindSource(r, q) == SelectInSeq(r.sources, LAMBDA s : Has(s, q))

\* MUTANT of SourcePixel: the offset in the mosaic stays in.
SourcePixelUnshifted(s, q) ==
    Pixel(s.src.x + (q.x * s.src.width) \div s.dst.width,
          s.src.y + (q.y * s.src.height) \div s.dst.height)

SourcePixel(s, q) ==
    Pixel(s.src.x + ((q.x - s.dst.x) * s.src.width) \div s.dst.width,
          s.src.y + ((q.y - s.dst.y) * s.src.height) \div s.dst.height)

VRTLoc(r, q) ==
    LET i == FindSource(r, q)
    IN IF ~InRaster(r, q) \/ i = 0 THEN NoSample
       ELSE TiffAtCoord(r.sources[i].file, PixelToCoord(SourcePixel(r.sources[i], q)))

-----------------------------------------------------------------------------

Loc(r, q) == IF r.kind = "tiff" THEN TiffLoc(r.file, q) ELSE VRTLoc(r, q)
AtCoord(r, p) == IF InBounds(r, p) THEN Loc(r, CoordToPixel(p)) ELSE Outside
=============================================================================
