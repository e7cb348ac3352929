------------------------------ MODULE Settings ------------------------------
(***************************************************************************)
(* The settings tools: ai_track_speed, focus, exposure, image_adjust and   *)
(* image_mode of server.py over the methods of camera.py.  A call finds the*)
(* camera and then makes its accesses one by one: a vendor frame, a        *)
(* settings buffer, a V4L2 control, or a query of a control's range.  Each *)
(* may fail, and the bus may change between any two of them.               *)
(***************************************************************************)
EXTENDS Discovery, Codec

CONSTANTS
    SeqMax,       \* 0xFFFF of camera.py
    FocusRange, ImageRange, KelvinRange,  \* <<lowest, highest>>, of the device
    Levels,       \* the percentages a client may pass
    Kelvins,      \* the temperatures a client may pass
    Asked,        \* bound: the requests the clients make
    MaxCalls      \* bound: calls worked on

(* The calls, with an optional switch as None, True or False.              *)
Optional == {"omitted", "on", "off"}
Requests ==
    [tool : {"track_speed"}, sport : BOOLEAN]
    \cup [tool : {"focus", "exposure"}, mode : {"auto", "manual"}, level : Levels,
          face : Optional]
    \cup [tool : {"image_adjust"}, level : Levels]
    \cup [tool : {"image_mode"}, hdr : Optional, fov : {"omitted", "narrow"},
          wb : {"omitted", "auto", "manual"}, kelvin : Kelvins]

ASSUME SettingsAssumption ==
    /\ SeqMax \in Nat \ {0, 1}
    /\ \A r \in {FocusRange, ImageRange, KelvinRange} :
          r \in Int \X Int /\ r[1] <= r[2]
    /\ Levels \subseteq Int /\ Kelvins \subseteq Int
    /\ Asked \subseteq Requests
    /\ MaxCalls \in Nat

(* protocol.py asserts it when it is imported.                             *)
ASSUME CheckValue == Crc16(<<49, 50, 51, 52, 53, 54, 55, 56, 57>>) = 46280

VARIABLES
    force,   \* the settings in force in the camera
    call,    \* the call worked on
    plan,    \* the accesses it has still to make
    reply,
    lastSeq,  \* _seq
    wire,    \* history: the numbers in the frames built
    before,  \* history: the settings when this call found the camera
    astray,  \* history: whether this call wrote to another device
    calls    \* bound: calls left

tool == <<force, call, plan, reply, lastSeq, wire, before, astray, calls>>
vars == <<discovery, tool>>

-----------------------------------------------------------------------------
(* The settings, switches as 0 and 1.                                      *)
Switches == {"sport", "faceFocus", "focusAuto", "manual", "faceAe", "hdr", "wbAuto"}
Keys == Switches \cup {"fov", "raw", "focus", "image", "wb"}
RangeOf ==
    [k \in Keys |->
       CASE k \in Switches -> <<0, 1>>
         [] k = "fov" -> <<0, 3>>
         [] k = "raw" -> ExposureRange
         [] k = "focus" -> FocusRange
         [] k = "image" -> ImageRange
         [] k = "wb" -> KelvinRange]
PowerOn ==
    [k \in Keys |-> IF k \in {"focusAuto", "wbAuto"} THEN 1 ELSE RangeOf[k][1]]

On(b) == IF b THEN 1 ELSE 0
Unclamped(v, lo, hi) == v  \* mutant: no clamp
Clamped(v, lo, hi) == IF v < lo THEN lo ELSE IF v > hi THEN hi ELSE v
Scaled(level, range) == PercentToRange(Clamped(level, 0, 100), range[1], range[2])

-----------------------------------------------------------------------------
(* The methods of camera.py, as the accesses they make.  A vendor frame and*)
(* a settings buffer open the node each; the controls of one method share  *)
(* one open device.                                                        *)
Vendor(sets) == <<[via |-> "vendor", opens |-> TRUE, sets |-> sets]>>
Buffer(sets) == <<[via |-> "buffer", opens |-> TRUE, sets |-> sets]>>
Control(sets) == <<[via |-> "control", opens |-> FALSE, sets |-> sets]>>
Query == <<[via |-> "query", opens |-> FALSE, sets |-> <<>>]>>
Opening(accesses) == [accesses EXCEPT ![1].opens = TRUE]

TrackSpeed(sport) == Vendor([sport |-> On(sport)])
FocusAuto == Opening(Control([focusAuto |-> 1]))
FocusManual(level) ==
    Opening(Control([focusAuto |-> 0]) \o Query
            \o Control([focus |-> Scaled(level, FocusRange)]))
FaceFocus(enable) == Vendor([faceFocus |-> On(enable)])
Exposure(manual, level) ==
    Vendor([manual |-> On(manual), raw |-> Scaled(level, ExposureRange)])
HdrTag(face) == Buffer([hdr |-> On(face)])  \* mutant: the tag of another setting
FaceAe(face) == Buffer([faceAe |-> On(face)])
Hdr(on) == Buffer([hdr |-> On(on)])
Fov(fov) == Buffer([fov |-> FovValue[fov]])
ImageAdjust(level) == Opening(Query \o Control([image |-> Scaled(level, ImageRange)]))

WbAuto == Opening(Control([wbAuto |-> 1]))
Kelvin(k) == Clamped(k, KelvinRange[1], KelvinRange[2])
WbTooEarly(k) ==  \* mutant: the temperature is written before auto is off
    Opening(Query \o Control([wb |-> Kelvin(k)]) \o Control([wbAuto |-> 0]))
WbManual(k) ==
    Opening(Query \o Control([wbAuto |-> 0]) \o Control([wb |-> Kelvin(k)]))

(* The work() of the tools.                                                *)
If(cond, accesses) == IF cond THEN accesses ELSE <<>>
Given(option) == option # "omitted"

FocusWork(r) ==
    (IF r.mode = "auto" THEN FocusAuto ELSE FocusManual(r.level))
    \o If(Given(r.face), FaceFocus(r.face = "on"))

ExposureWork(r) ==
    Exposure(r.mode = "manual", r.level) \o If(Given(r.face), FaceAe(r.face = "on"))

ModeWork(r) ==
    If(Given(r.hdr), Hdr(r.hdr = "on"))
    \o If(Given(r.fov), Fov(r.fov))
    \o If(Given(r.wb), IF r.wb = "auto" THEN WbAuto ELSE WbManual(r.kelvin))

WorkOf(r) ==
    CASE r.tool = "track_speed" -> TrackSpeed(r.sport)
      [] r.tool = "focus" -> FocusWork(r)
      [] r.tool = "exposure" -> ExposureWork(r)
      [] r.tool = "image_adjust" -> ImageAdjust(r.level)
      [] r.tool = "image_mode" -> ModeWork(r)

(* What a write does to the camera: a face priority in manual exposure, and*)
(* a position or temperature while the automatic rules, have no effect.    *)
Ignored == (IF force.manual = 1 THEN {"faceAe"} ELSE {})
           \cup (IF force.focusAuto = 1 THEN {"focus"} ELSE {})
           \cup (IF force.wbAuto = 1 THEN {"wb"} ELSE {})
Taken(sets) ==
    [k \in Keys |-> IF k \in DOMAIN sets \ Ignored THEN sets[k] ELSE force[k]]

-----------------------------------------------------------------------------
TypeOK ==
    /\ ScanTypeOK
    /\ DOMAIN force = Keys /\ DOMAIN before = Keys
    /\ \A k \in Keys : force[k] \in RangeOf[k][1]..RangeOf[k][2]
    /\ call \in Requests
    /\ \A i \in DOMAIN plan :
          /\ plan[i].via \in {"vendor", "buffer", "control", "query"}
          /\ plan[i].opens \in BOOLEAN /\ DOMAIN plan[i].sets \subseteq Keys
    /\ reply \in {"none", "ok", "refused", "error", "unavailable"}
    /\ lastSeq \in 0..SeqMax
    /\ astray \in BOOLEAN
    /\ calls \in 0..MaxCalls

Init ==
    /\ ScanInit
    /\ force = PowerOn /\ before = PowerOn
    /\ call \in [tool : {"track_speed"}, sport : {FALSE}]
    /\ plan = <<>> /\ reply = "none"
    /\ lastSeq \in {0, SeqMax} /\ wire = <<>>  \* started just now, or long ago
    /\ astray = FALSE
    /\ calls = MaxCalls

Answered(r) == step' = "no" /\ reply' = r /\ plan' = <<>> /\ fd' = "none"

(* A call's work starts, and its answer is given.                          *)
Begin(r) ==
    /\ step = "no" /\ reply = "none" /\ calls > 0
    /\ call' = r
    /\ step' = "list"
    /\ calls' = calls - 1
    /\ UNCHANGED <<bus, ready, todo, saw, node, fd, luck, left, faults, changes,
                   force, plan, reply, lastSeq, wire, before, astray>>

Deliver ==
    /\ reply # "none"
    /\ Forget
    /\ reply' = "none" /\ before' = PowerOn /\ astray' = FALSE
    /\ UNCHANGED <<bus, ready, faults, changes, force, call, plan, lastSeq, wire, calls>>

NotFound ==
    /\ step \in {"absent", "resetting"}
    /\ Answered("unavailable")
    /\ UNCHANGED <<bus, ready, todo, saw, node, luck, left, faults, changes,
                   force, call, lastSeq, wire, before, astray, calls>>

(* The camera is found: exposure refuses a face priority in manual mode,   *)
(* and image_mode without a parameter has nothing to do.                   *)
Refused(r) == r.tool = "exposure" /\ r.mode = "manual" /\ Given(r.face)

Enter ==
    /\ step = "found"
    /\ before' = force
    /\ IF Refused(call) THEN Answered("refused")
       ELSE IF WorkOf(call) = <<>> THEN Answered("ok")
       ELSE step' = "work" /\ plan' = WorkOf(call) /\ UNCHANGED <<reply, fd>>
    /\ UNCHANGED <<bus, ready, todo, saw, node, luck, left, faults, changes,
                   force, call, lastSeq, wire, astray, calls>>

-----------------------------------------------------------------------------
(* One access.  What it meets: what is at the node if it opens it, else the*)
(* open device unless that has left.  An extension unit that hangs stalls, *)
(* a node without capture knows no control, another device may take them.  *)
At(a) == IF a.opens \/ fd = "live" THEN bus[node] ELSE "none"
Outcomes(a) ==
    LET faulty == IF faults = 0 THEN {}
                  ELSE Faults \ (IF a.opens THEN {} ELSE {"denied"})
    IN CASE At(a) = "none" -> {"gone"}
         [] At(a) = "meta" -> {"pipe"}
         [] At(a) = "other" -> {"fine", "pipe"}
         [] At(a) = "camera" ->
              faulty \cup (IF ready \/ a.via \in {"control", "query"}
                           THEN {"fine"} ELSE {"pipe"})

Raised(e) ==
    Answered(IF e \in {"gone", "eio", "denied"} THEN "unavailable" ELSE "error")

Proceed ==
    IF Len(plan) = 1 THEN Answered("ok")
    ELSE /\ plan' = Tail(plan)
         /\ fd' = IF Head(plan).opens THEN "live" ELSE fd
         /\ UNCHANGED <<step, reply>>

(* A vendor frame takes its number before the node is opened, and carries  *)
(* it in 16 bits.                                                          *)
Access ==
    /\ step = "work"
    /\ LET a == Head(plan)
           there == At(a)
       IN \E e \in Outcomes(a) :
             /\ IF e = "fine" THEN Proceed ELSE Raised(e)
             /\ faults' = IF e \in Faults /\ faults > 0 THEN faults - 1 ELSE faults
             /\ lastSeq' = IF a.via = "vendor" THEN NextSeq(lastSeq, SeqMax) ELSE lastSeq
             /\ wire' = IF a.via = "vendor"
                        THEN Append(wire, lastSeq' % (SeqMax + 1)) ELSE wire
             /\ force' = IF e = "fine" /\ there = "camera" THEN Taken(a.sets) ELSE force
             /\ astray' = (astray \/ (e = "fine" /\ there = "other" /\ a.via # "query"))
    /\ UNCHANGED <<bus, ready, todo, saw, node, luck, left, changes,
                   call, before, calls>>

-----------------------------------------------------------------------------
(* The bus; a camera loses its settings with its power.                    *)
worker == <<call, plan, reply, lastSeq, wire, before, astray, calls>>
BusLeaves == (\E n \in Nodes : Leave(n)) /\ UNCHANGED tool
BusComes ==
    /\ \E n \in Nodes, kind \in Kinds :
          /\ Come(n, kind)
          /\ force' = IF kind = "camera" THEN PowerOn ELSE force
    /\ UNCHANGED worker
BusHangs == (Hang \/ Recover) /\ UNCHANGED tool

Work == (Scan /\ UNCHANGED tool) \/ NotFound \/ Enter \/ Access \/ Deliver

Next ==
    \/ \E r \in Asked : Begin(r)
    \/ Work
    \/ BusLeaves \/ BusComes \/ BusHangs

Spec == Init /\ [][Next]_vars
FairSpec == Spec /\ WF_vars(Work)

-----------------------------------------------------------------------------
(* What a call that was answered ok has asked for is in force, each level  *)
(* and temperature as close as the range of the control allows, unless the *)
(* camera has lost its power since the call found it.                      *)
Near(key, level) ==
    LET r == RangeOf[key]
        err == 100 * (force[key] - r[1]) - (r[2] - r[1]) * Clamped(level, 0, 100)
    IN -50 <= err /\ err <= 50
Apart(m, n) == IF m < n THEN n - m ELSE m - n
Obeyed(key, option) == ~Given(option) \/ force[key] = On(option = "on")

InForce ==
    reply = "ok" /\ ~left =>
       CASE call.tool = "track_speed" -> force.sport = On(call.sport)
         [] call.tool = "focus" ->
               /\ force.focusAuto = On(call.mode = "auto")
               /\ call.mode = "manual" => Near("focus", call.level)
               /\ Obeyed("faceFocus", call.face)
         [] call.tool = "exposure" ->
               /\ force.manual = On(call.mode = "manual")
               /\ Near("raw", call.level)
               /\ Obeyed("faceAe", call.face)
         [] call.tool = "image_adjust" -> Near("image", call.level)
         [] call.tool = "image_mode" ->
               /\ Obeyed("hdr", call.hdr)
               /\ Given(call.fov) => force.fov = FovValue[call.fov]
               /\ Given(call.wb) => force.wbAuto = On(call.wb = "auto")
               /\ call.wb = "manual" =>
                     \A k \in KelvinRange[1]..KelvinRange[2] :
                        Apart(call.kelvin, force.wb) <= Apart(call.kelvin, k)

(* A call, also one that fails half way, changes no setting but those that *)
(* were passed: "only the parameters you pass are changed" (server.py:506).*)
Passed(r) ==
    LET Of(option, keys) == IF Given(option) THEN keys ELSE {}
    IN CASE r.tool = "track_speed" -> {"sport"}
         [] r.tool = "focus" ->
               {"focusAuto"} \cup (IF r.mode = "manual" THEN {"focus"} ELSE {})
               \cup Of(r.face, {"faceFocus"})
         [] r.tool = "exposure" -> {"manual", "raw"} \cup Of(r.face, {"faceAe"})
         [] r.tool = "image_adjust" -> {"image"}
         [] r.tool = "image_mode" ->
               Of(r.hdr, {"hdr"}) \cup Of(r.fov, {"fov"}) \cup Of(r.wb, {"wbAuto"})
               \cup (IF r.wb = "manual" THEN {"wb"} ELSE {})
OnlyPassed ==
    (step = "work" \/ reply \in {"ok", "refused", "error"}) /\ ~left =>
       \A k \in Keys :
          force[k] = before[k] \/ (k \in Passed(call) /\ reply # "refused")

(* Another device gets a write only if the one that was found has left its *)
(* node: the name is matched, and it is not matched again.                 *)
OnlyTheCamera == astray => left

(* No frame is numbered 0, and SeqMax frames in a row have numbers of their*)
(* own, over the wrap too and whatever of them failed.                     *)
NumbersDiffer ==
    \A i \in DOMAIN wire :
       /\ wire[i] # 0
       /\ \A j \in i + 1..i + SeqMax - 1 :
             j \in DOMAIN wire => wire[j] # wire[i]

(* Every call is answered, whatever comes, leaves or hangs.                *)
SettingsAnswered == (step # "no") ~> (reply # "none")
=============================================================================
