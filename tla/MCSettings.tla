----------------------------- MODULE MCSettings -----------------------------
(* Settings for TLC: the values of its constants that a .cfg cannot write. *)
EXTENDS Settings, TLC

(* The camera before its own second node, behind another camera, and alone *)
(* under the node that the scan tries last.                                *)
SomeBuses ==
    {0 :> "camera" @@ 1 :> "meta" @@ 2 :> "none",
     0 :> "other" @@ 1 :> "camera" @@ 2 :> "meta",
     0 :> "none" @@ 1 :> "none" @@ 2 :> "camera"}

(* Every tool in each of its forms, with levels and temperatures in the    *)
(* range and past its ends.                                                *)
SomeLevels == {-5, 33, 120}
SomeRequests ==
    {[tool |-> "track_speed", sport |-> TRUE],
     [tool |-> "focus", mode |-> "manual", level |-> 120, face |-> "on"],
     [tool |-> "focus", mode |-> "auto", level |-> 33, face |-> "off"],
     [tool |-> "exposure", mode |-> "manual", level |-> 33, face |-> "omitted"],
     [tool |-> "exposure", mode |-> "manual", level |-> 33, face |-> "on"],
     [tool |-> "exposure", mode |-> "auto", level |-> -5, face |-> "on"],
     [tool |-> "image_adjust", level |-> 33],
     [tool |-> "image_mode", hdr |-> "on", fov |-> "narrow", wb |-> "manual", kelvin |-> 10],
     [tool |-> "image_mode", hdr |-> "off", fov |-> "omitted", wb |-> "manual", kelvin |-> 43],
     [tool |-> "image_mode", hdr |-> "omitted", fov |-> "omitted", wb |-> "auto", kelvin |-> 43],
     [tool |-> "image_mode", hdr |-> "omitted", fov |-> "omitted", wb |-> "omitted", kelvin |-> 43]}

(* A range without room for a hundred steps and one half below zero.       *)
ShortRange == <<1, 7>>
SignedRange == <<-64, 64>>
Temperatures == <<28, 65>>  \* hundreds of Kelvin

-----------------------------------------------------------------------------
(* The functions of Codec over their sample inputs, which do not depend on *)
(* the state: said of the states in which nothing has been asked yet.      *)
Unasked == calls = MaxCalls

(* Whatever is sent with a vendor command is what parse_frame finds in it. *)
ParseInvertsBuild == Unasked => Misparsed = {}

(* A frame with one or two neighbouring bits damaged is rejected, or says  *)
(* the same, but for a length that is damaged to 0 (protocol.py:110).      *)
DamageIsCaught == Unasked => Unnoticed = {}

(* A setting is read back under the name it was set by (protocol.py:179),  *)
(* a mode switch under way under none; percentages keep the ends and the   *)
(* order of the device's range and, if it has the room, return unchanged   *)
(* (protocol.py:227).                                                      *)
ValuesReturn == Unasked => Misnamed = {} /\ Transients = {} /\ BadRanges = {}
=============================================================================
