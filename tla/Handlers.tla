------------------------------ MODULE Handlers ------------------------------
(***************************************************************************)
(* What the handlers of the two APIs make of an elevation, a profile or an *)
(* error: the status of REST and the code of gRPC.                         *)
(***************************************************************************)
EXTENDS Profile

Reply(status, body) == [status |-> status, body |-> body]

\* getElevationHandler, of a well-formed URL.
getElevationHandler ==
    CASE answer = Outside -> Reply(404, None)
      [] answer = NoSample -> Reply(500, None)
      [] OTHER -> Reply(200, answer)

\* getProfileHandler, of a body that is JSON.
getProfileHandler ==
    CASE pc = "refused" -> Reply(500, None)
      [] pc = "done" /\ profile = << >> -> Reply(404, None)
      [] OTHER -> Reply(200, profile)

GetElevation ==
    CASE answer = Outside -> Reply("NotFound", None)
      [] answer = NoSample -> Reply("Internal", None)
      [] OTHER -> Reply("OK", answer)

\* A point of gRPC is a pair by its type.
GetProfile ==
    CASE Len(request.path) < 2 -> Reply("InvalidArgument", None)
      [] Len(request.path) > 1 /\ pc = "refused" -> Reply("Internal", None)
      [] OTHER -> Reply("OK", profile)

Answered == pc \in {"done", "refused"}
OnePoint == request.kind = "point"

Rest == IF OnePoint THEN getElevationHandler ELSE getProfileHandler
Grpc == IF OnePoint THEN GetElevation ELSE GetProfile

\* The source a VRT takes a point from, if it has one, and the pixel there.
TheSource(p) == raster.sources[FindSource(raster, CoordToPixel(p))]
ThePixel(p) == SourcePixel(TheSource(p), CoordToPixel(p))

\* A point the raster has no elevation for, though it is inside: no source, a
\* format that cannot be read, or the half pixel past the last.
Nothing(p) ==
    \/ ~InRaster(raster, CoordToPixel(p))
    \/ raster.kind = "tiff" /\ ~Supported(raster.file)
    \/ raster.kind = "vrt" /\ \/ FindSource(raster, CoordToPixel(p)) = 0
                              \/ ~InRaster(Files[TheSource(p).file], ThePixel(p))
                              \/ ~Supported(TheSource(p).file)

\* A point that is in a VRT, but not in the source that has its pixel.
BeyondSource(p) ==
    /\ raster.kind = "vrt" /\ InRaster(raster, CoordToPixel(p))
    /\ FindSource(raster, CoordToPixel(p)) # 0
    /\ ~InBounds(Files[TheSource(p).file], PixelToCoord(ThePixel(p)))

\* The two APIs tell a client the same: an elevation, or that something failed
\* when it did, or that the point is not in the data set when it is not, or not
\* in the file a VRT takes it from.  That is known once the file is open: if it
\* cannot be, the point beyond it is a failure.  The APIs differ on an empty
\* profile, and on a path too short.
RepliesRight ==
    /\ Answered /\ OnePoint =>
          /\ Rest.body = Grpc.body
          /\ Rest.status = 404 =>
                ~InBounds(raster, request.point) \/ BeyondSource(request.point)
          /\ ~InBounds(raster, request.point) => Rest.status = 404
          /\ BeyondSource(request.point) =>
                Rest.status = 404 \/ (Rest.status = 500 /\ failures > 0)
          /\ Rest.status = 500 => failures > 0 \/ Nothing(request.point)
          /\ <<Rest.status, Grpc.status>> \in {<<200, "OK">>, <<404, "NotFound">>, <<500, "Internal">>}
    /\ Answered /\ ~OnePoint =>
          /\ Rest.body = Grpc.body \/ profile = << >>
          /\ Rest.status = 404 =>
                \A i \in 1..(Len(request.path) - 1) :
                    Walkable(i) => failures > 0 \/ Nothing(request.path[i])
          /\ Rest.status = 500 =>
                \/ Len(request.path) < 2
                \/ \E p \in ToSet(request.path) :
                      p = None \/ (raster.kind = "tiff" /\ ~InBounds(raster, p))
=============================================================================
