------------------------------ MODULE MCCamera ------------------------------
(* Camera for TLC, with the optics that its aims rest on, and the values of*)
(* its constants that a .cfg cannot write.                                 *)
EXTENDS Camera, Optics, TLC

OneNap == [k \in Axes |-> 1]
SlowWake == [OneNap EXCEPT !["run"] = 2]
SlowZoom == [OneNap EXCEPT !["zoom"] = 3]

Alike == Permutations(Clients)

-----------------------------------------------------------------------------
(* The functions of Optics over their sample inputs, which do not depend on*)
(* the state: said of the states in which no call is worked on.            *)
AtRest == pc = "idle"

(* A zoom that was set is read back as settled and as a plausible          *)
(* magnification (camera.py:161, server.py:127).                           *)
ZoomReadsBack == AtRest => Misread = {}

(* zoom_to_fit's zoom holds the region, all of it at a margin of 2% or more*)
(* and all but half a unit of zoom at any, and fills the frame with it     *)
(* (aim.py:112).                                                           *)
FitFits == AtRest => Misfit = {}

(* "zooms so the whole region fits with the given margin", whatever the    *)
(* margin that the tool takes (server.py:394).                             *)
WholeRegionFits == AtRest => Overflowing = {}
=============================================================================
