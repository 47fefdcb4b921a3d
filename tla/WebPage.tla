------------------------------ MODULE WebPage ------------------------------
(***************************************************************************)
(* The page of static/app.js.  Each click adds a point, changes the map    *)
(* and asks the server for the elevation of the first point or the profile *)
(* of all; the answers come back in any order, between and after further   *)
(* clicks and resets.  Points are longitudes; an answer is the points it   *)
(* is about, or what the page tells apart of one that brings no data.      *)
(***************************************************************************)
EXTENDS Integers, Sequences

CONSTANTS
    Longitudes,      \* where the map is clicked: beyond +-180 on a copy of the world
    MaxClicks,       \* bound: clicks in all
    MaxResets,       \* bound: resets in all
    None             \* no polyline, no chart

ASSUME LongitudesAssumption == Longitudes \subseteq Int
ASSUME BoundsAssumption == MaxClicks \in Nat /\ MaxResets \in Nat

VARIABLES
    points,          \* the clicked points, in order
    markers,         \* the markers on the map
    polyline,        \* the points the line on the map runs through, or None
    profileChart,    \* the points the chart is the profile of, or None
    info,            \* the text of infoDiv, in kind and subject
    requests,        \* the fetches under way
    resets,          \* history: how often the page was reset
    clicks,          \* history: how often the map was clicked
    waited           \* history: nothing was done over a pending fetch since
                     \* the page was last empty

map == <<points, markers, polyline>>
pageVars == <<map, profileChart, info, requests, resets, clicks, waited>>

Text(kind, about) == [kind |-> kind, about |-> about]
StartText == Text("start", << >>)
Fetching == Text("fetching", << >>)

\* JavaScript's %, which takes the sign of its left operand.
Rem(a, b) == IF a < 0 THEN -((-a) % b) ELSE a % b

\* MUTANT of wrappedLng: the sign of the remainder is forgotten.
wrappedLngOnce(lng) == Rem(lng + 180, 360) - 180

wrappedLng(lng) == Rem(Rem(lng + 180, 360) + 360, 360) - 180

PageInit ==
    /\ points = << >> /\ markers = << >> /\ polyline = None
    /\ profileChart = None
    /\ info = StartText
    /\ requests = {}
    /\ resets = 0 /\ clicks = 0 /\ waited = TRUE

\* onMapClick, up to the fetch.  The body of a profile request is the points of
\* this moment; the first point alone is an elevation request.
Click(lng) ==
    /\ clicks < MaxClicks /\ clicks' = clicks + 1
    /\ points' = Append(points, wrappedLng(lng))
    /\ markers' = Append(markers, wrappedLng(lng))
    /\ polyline' = IF Len(points') = 1 THEN polyline ELSE points'
    /\ info' = Fetching
    /\ requests' = requests \cup {[points |-> points', resets |-> resets]}
    /\ waited' = (waited /\ requests = {})
    /\ UNCHANGED <<profileChart, resets>>

Done(r) == r \in requests /\ requests' = requests \ {r}

\* The elevation of one point, or "No data available".
ElevationAnswered(r) ==
    /\ Done(r) /\ Len(r.points) = 1
    /\ info' \in {Text("elevation", r.points), Text("nodata", r.points)}
    /\ UNCHANGED <<map, profileChart, resets, clicks, waited>>

\* MUTANT of ProfileAnswered: the chart that is there is not replaced.
ProfileAnsweredOnce(r) ==
    /\ Done(r) /\ Len(r.points) > 1
    /\ info' = Text("profile", Len(points))
    /\ profileChart' = IF profileChart = None THEN r.points ELSE profileChart
    /\ UNCHANGED <<map, resets, clicks, waited>>

\* renderChart; the text counts the points there are now.
ProfileAnswered(r) ==
    /\ Done(r) /\ Len(r.points) > 1
    /\ info' = Text("profile", Len(points))
    /\ profileChart' = r.points
    /\ UNCHANGED <<map, resets, clicks, waited>>

\* An empty profile, or null.
EmptyProfile(r) ==
    /\ Done(r) /\ Len(r.points) > 1
    /\ info' = Text("empty", << >>)
    /\ UNCHANGED <<map, profileChart, resets, clicks, waited>>

\* The network, a status that is not ok, or an answer that is not JSON.
FetchFails(r) ==
    /\ Done(r)
    /\ info' = Text("error", << >>)
    /\ UNCHANGED <<map, profileChart, resets, clicks, waited>>

\* MUTANT of resetAll: fetches are aborted, and what they would say is not said.
resetAllAborts ==
    /\ resets < MaxResets /\ resets' = resets + 1
    /\ points' = << >> /\ markers' = << >> /\ polyline' = None
    /\ profileChart' = None
    /\ requests' = {}
    /\ info' = IF requests = {} THEN StartText ELSE info
    /\ waited' = (requests = {})
    /\ UNCHANGED clicks

resetAll ==
    /\ resets < MaxResets /\ resets' = resets + 1
    /\ points' = << >> /\ markers' = << >> /\ polyline' = None
    /\ profileChart' = None
    /\ info' = StartText
    /\ waited' = (requests = {})
    /\ UNCHANGED <<requests, clicks>>

Answered(r) == ElevationAnswered(r) \/ ProfileAnswered(r) \/ EmptyProfile(r) \/ FetchFails(r)

PageNext ==
    \/ \E lng \in Longitudes : Click(lng)
    \/ \E r \in requests : Answered(r)
    \/ resetAll

PageSafety == PageInit /\ [][PageNext]_pageVars

\* Every fetch ends, if only because the browser gives up.
PageSpec == PageSafety /\ WF_pageVars(\E r \in requests : Answered(r))

-----------------------------------------------------------------------------
(* Properties *)

\* The map shows the points, no more and no less, across clicks and resets: a
\* marker each, at a longitude a raster can have, and a line from two on.
MapShowsPoints ==
    /\ markers = points
    /\ \A i \in DOMAIN points : points[i] \in -180..179
    /\ polyline = IF Len(points) < 2 THEN None ELSE points

\* A user who waits for each answer before the next click or reset reads the
\* elevation of the point, or sees the chart of exactly the points of the map,
\* or is told that there is none.
WaitedPageCurrent ==
    waited /\ requests = {} =>
        \/ points = << >> /\ info = StartText /\ profileChart = None
        \/ /\ Len(points) = 1 /\ profileChart = None
           /\ info.kind = "error" \/ (info.kind \in {"elevation", "nodata"} /\ info.about = points)
        \/ /\ Len(points) > 1
           /\ \/ info.kind \in {"empty", "error"}
              \/ info = Text("profile", Len(points)) /\ profileChart = points

\* "Fetching..." goes away: no interleaving of answers, clicks and resets, and
\* no failure, leaves it behind with nothing under way.
FetchingEnds == info = Fetching ~> info # Fetching
=============================================================================
