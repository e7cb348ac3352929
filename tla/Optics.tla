------------------------------- MODULE Optics -------------------------------
(***************************************************************************)
(* Zoom ratios, units of the zoom control, and magnifications: aim.py's    *)
(* and protocol.py's functions, and the fit of a region.                   *)
(*                                                                         *)
(* A ratio, 1 to 2, is in thousandths; a magnification, 1 to 4, is a       *)
(* fraction <<n, d>>; the zoom of the status is in percent of its range.   *)
(***************************************************************************)
EXTENDS Integers

(* Python's round of n / d + 0.001, for an n / d + 0.001 that is no tie.   *)
Rounded(n, d) == n \div d + (IF 2 * (1000 * (n % d) + d) > 1000 * d THEN 1 ELSE 0)

RatioWhole(n, d, lo, hi) == Rounded(d * lo + (hi - lo) * n, d)  \* mutant: from 0
ZoomUnits(n, d, lo, hi) == Rounded(d * lo + (hi - lo) * (n - d), d)

(* magnification_from_zoom_ratio of 1 + percent / 100.                     *)
MagnificationOf(percent) == <<100 + 3 * percent, 100>>

(* zoom_ratio_from_magnification                                           *)
RatioFor(m) == <<m[1] + 2 * m[2], 3 * m[2]>>

Within(m, lo, hi) ==
    IF m[1] < lo * m[2] THEN <<lo, 1>> ELSE IF m[1] > hi * m[2] THEN <<hi, 1>> ELSE m

(* fit_magnification: the axis that needs less zoom decides.               *)
LooserAxis(width, height, w, h) ==  \* mutant: max for min
    IF width * h >= height * w THEN <<width, w>> ELSE <<height, h>>
TighterAxis(width, height, w, h) ==
    IF width * h <= height * w THEN <<width, w>> ELSE <<height, h>>
FitMagnification(m, width, height, w, h, margin) ==
    LET axis == TighterAxis(width, height, w, h)
    IN Within(<<m[1] * axis[1] * 100, m[2] * axis[2] * (100 + margin)>>, 1, 4)

-----------------------------------------------------------------------------
(* Whatever ratio is asked for, a zoom that has arrived is reported as     *)
(* settled, within ZOOM_SETTLE_TOLERANCE_PCT, and gives the next aim a     *)
(* plausible magnification, within 0.02 of the ratio's.                    *)
Plausible(ratio) ==
    LET percent == ZoomUnits(ratio, 1000, 0, 100)
        m == MagnificationOf(percent)
    IN /\ 10 * percent - (ratio - 1000) \in -10..10
       /\ Within(m, 1, 4) = m
       /\ 10 * m[1] - (3 * ratio - 2000) \in -20..20
Misread == {ratio \in 1000..2000 : ~ Plausible(ratio)}

(* The unit of zoom, of three hundredths of magnification, that zoom_to_fit*)
(* commands for a region of a frame taken at the zoom from.                *)
FitPercent(width, height, w, h, from, margin) ==
    LET ratio == RatioFor(FitMagnification(MagnificationOf(from),
                                           width, height, w, h, margin))
    IN ZoomUnits(ratio[1], ratio[2], 0, 100)

(* The region is inside the frame when the frame shows now hundredths.     *)
Inside(width, height, w, h, from, now) ==
    LET was == MagnificationOf(from)[1]
    IN w * now <= width * was /\ h * now <= height * was

(* zoom_to_fit: wherever the zoom stands, the region is in the frame at the*)
(* zoom that is commanded for it, the whole of it if the margin is 2% or   *)
(* more and else but for half a unit of zoom; and it fills the frame but   *)
(* for the margin and half a unit, unless the zoom is at its end.          *)
Fits(width, height, w, h, from, margin) ==
    LET was == MagnificationOf(from)[1]
        percent == FitPercent(width, height, w, h, from, margin)
        now == MagnificationOf(percent)[1]
    IN /\ Inside(width, height, w, h, from, now - 2)
       /\ margin >= 2 => Inside(width, height, w, h, from, now)
       /\ percent < 100 =>
             \/ (w * (100 + margin)) * (now + 2) >= 100 * (width * was)
             \/ (h * (100 + margin)) * (now + 2) >= 100 * (height * was)
Regions ==
    [w : 1..16, h : 1..9, from : {0, 15, 50, 100}, margin : {0, 1, 2, 10, 50}]
Misfit == {s \in Regions : ~ Fits(16, 9, s.w, s.h, s.from, s.margin)}

(* The regions that are not wholly in the frame afterwards.                *)
Overflowing ==
    {s \in Regions :
       ~ Inside(16, 9, s.w, s.h, s.from,
                MagnificationOf(FitPercent(16, 9, s.w, s.h, s.from, s.margin))[1])}
=============================================================================
