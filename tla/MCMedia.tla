------------------------------ MODULE MCMedia -------------------------------
(* Media for TLC, with the functions on the pictures that it grabs.  They  *)
(* do not depend on the state: what they promise over their sample inputs  *)
(* is said of the states in which the worker rests.                        *)
EXTENDS Media, Picture

AtRest == pc = "idle"

(* A picture that was cut short is never taken for a complete one, nor a   *)
(* padded one for a cut one (capture.py:39).                               *)
CutIsNoticed == AtRest => Misjudged = {}

(* The size that is reported is the picture's own, not a thumbnail's.      *)
SizeIsOwn == AtRest => Missized = {}

(* Every snapshot of a 16:9 stream can be aimed by (aim.py:130), and none  *)
(* of the 4:3 streams that a grab of no given size may get (capture.py:72).*)
EverySnapshotAims == AtRest => Misshapen = {}
=============================================================================
