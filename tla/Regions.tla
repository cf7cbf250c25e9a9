------------------------------- MODULE Regions ------------------------------
(***************************************************************************)
(* Regions of interest, slsDetectorDefs::ROI: a rectangle of pixels given  *)
(* by its inclusive limits, for strip detectors by those in x only.  Two   *)
(* rectangles are reserved, one for "all pixels" and one for "no pixel".   *)
(* Coordinates are public, so any limits can stand in a region, crossed    *)
(* ones too; the properties say what the predicates mean for which of them.*)
(***************************************************************************)
EXTENDS Integers, FiniteSets

CONSTANT LastCoordinate           \* bound: the last coordinate

ASSUME LastAssumption == LastCoordinate \in Nat \ {0}

VARIABLES
    region, other,      \* two regions
    made                \* history: how region came about

regionsVars == <<region, other, made>>

-----------------------------------------------------------------------------
Coordinates == -1 .. LastCoordinate
Regions == [xmin : Coordinates, xmax : Coordinates,
            ymin : Coordinates, ymax : Coordinates]

Rectangle(x1, x2, y1, y2) ==
    [xmin |-> x1, xmax |-> x2, ymin |-> y1, ymax |-> y2]

AllPixels == Rectangle(-1, -1, -1, -1)

Strip(x1, x2) == [AllPixels EXCEPT !.xmin = x1, !.xmax = x2]

\* What setNoRoi makes of a region.
Nothing(r) == Rectangle(0, 0, 0, 0)

RegionsTypeOK ==
    /\ region \in Regions /\ other \in Regions
    /\ made \in {"complete", "strip", "rectangle", "nothing"}
    /\ made = "strip" => region.ymin = -1 /\ region.ymax = -1

RegionsInit ==
    /\ region = AllPixels /\ other = AllPixels
    /\ made = "complete"

width(r)  == r.xmax - r.xmin + 1
height(r) == r.ymax - r.ymin + 1

completeRoi(r) == r = AllPixels

noRoi(r) ==
    /\ r.xmin = 0 /\ r.xmax = 0
    /\ \/ r.ymin = 0 /\ r.ymax = 0
       \/ r.ymin = -1 /\ r.ymax = -1

overlap(r, o) ==
    /\ r.xmin <= o.xmax /\ r.xmax >= o.xmin
    /\ r.ymin <= o.ymax /\ r.ymax >= o.ymin

-----------------------------------------------------------------------------
ConstructStrip(x1, x2) ==
    /\ region' = Strip(x1, x2) /\ made' = "strip"
    /\ UNCHANGED other

ConstructRectangle(x1, x2, y1, y2) ==
    /\ region' = Rectangle(x1, x2, y1, y2) /\ made' = "rectangle"
    /\ UNCHANGED other

setNoRoi ==
    /\ region' = Nothing(region) /\ made' = "nothing"
    /\ UNCHANGED other

\* The region is copied, to be compared with the next ones.
Copy == other' = region /\ UNCHANGED <<region, made>>

RegionsNext ==
    \/ \E x1, x2 \in Coordinates :
        \/ ConstructStrip(x1, x2)
        \/ \E y1, y2 \in Coordinates : ConstructRectangle(x1, x2, y1, y2)
    \/ setNoRoi \/ Copy

RegionsSpec == RegionsInit /\ [][RegionsNext]_regionsVars

-----------------------------------------------------------------------------
Proper(r) == r.xmin <= r.xmax /\ r.ymin <= r.ymax
Pixels(r) == (r.xmin .. r.xmax) \X (r.ymin .. r.ymax)

\* Regions whose limits do not cross overlap if and only if they share a pixel,
\* and overlapping is mutual whatever the limits; a strip's region, in row -1,
\* shares none with a rectangle's, nor does the region that stands for all.
OverlapIsCommonPixel ==
    /\ overlap(region, other) <=> overlap(other, region)
    /\ Proper(region) /\ Proper(other) =>
        (overlap(region, other) <=> Pixels(region) \cap Pixels(other) # {})
    /\ made = "strip" /\ other.ymin >= 0 => ~overlap(region, other)
    /\ completeRoi(region) /\ other.xmin >= 0 => ~overlap(region, other)

\* Width and height count the pixels of a region whose limits do not cross.
SizeCountsPixels ==
    Proper(region) =>
        width(region) * height(region) = Cardinality(Pixels(region))

\* After setNoRoi a region is known to be none, whatever it was; all and none
\* are told apart; and besides it only the first pixel, alone, is taken for
\* none.
NoneIsKnown ==
    /\ made = "nothing" => noRoi(region)
    /\ ~(noRoi(region) /\ completeRoi(region))
    /\ noRoi(region) => width(region) = 1 /\ height(region) = 1

\* The predicates on regions and the pixels that they enclose go together.
RegionsArePixels == OverlapIsCommonPixel /\ SizeCountsPixels /\ NoneIsKnown
=============================================================================
