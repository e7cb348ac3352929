------------------------------- MODULE Camera -------------------------------
(***************************************************************************)
(* The camera tools: the work() closures of server.py over the methods of  *)
(* camera.py, one action for each access to the device with the code up to *)
(* the next one.  One call is worked on at a time, which Dispatch shows of *)
(* server.py's lock; between two calls of a client any other client's call *)
(* may be worked on, and the camera moves by itself at every moment.       *)
(*                                                                         *)
(* A client sees the camera through its last snapshot only and points at a *)
(* pixel of it; pixel x of a frame taken at zoom z lies x * Span(z) away   *)
(* from the frame's centre.                                                *)
(***************************************************************************)
EXTENDS Device

CONSTANTS
    Clients,
    Tools,        \* the tools the clients call
    WakePolls,    \* status reads of ensure_awake before WAKE_TIMEOUT_S is over
    ZoomPolls,    \* status reads of zoom_set before ZOOM_SETTLE_TIMEOUT_S is
    VerifyPolls,  \* FRAMING_VERIFY_ATTEMPTS
    NoFrame,      \* the frame of a client without a snapshot
    MaxCalls,     \* bound: calls worked on
    MaxFaults     \* bound: faults, unplugs and replugs, of one behaviour

Pointing == {"aim", "fit"}
AllTools == {"snapshot", "status", "wake", "sleep", "move", "position", "zoom",
             "track"} \cup Pointing

(* What a snapshot shows of the camera.                                    *)
Frames == [pose : Poses \cup {Stowed}, zoom : Zooms]

ASSUME CameraAssumption ==
    /\ Tools \subseteq AllTools
    /\ {WakePolls, ZoomPolls, VerifyPolls} \subseteq Nat \ {0}
    /\ {MaxCalls, MaxFaults} \subseteq Nat
    /\ NoFrame \notin Frames

VARIABLES
    pc,      \* where the worker is: a step below, "done" or "idle"
    call,    \* the call it works on: its client, tool and argument
    reg,     \* the locals of work() and of the methods it is in
    reply,   \* what the call is answered
    frame,   \* what each client's last snapshot shows
    wrote,   \* history: the axes this call has commanded
    errs,    \* history: the errors this call's device accesses met
    calls,   \* bound: calls left
    faults   \* bound: faults left

vars == <<cam, pc, call, reg, reply, frame, wrote, errs, calls, faults>>

Pixels == -1..1
Outside == 2           \* a pixel that is not in the frame
Span(z) == ZoomLimit + 1 - z
Object(f, x) == f.pose + x * Span(f.zoom)
Shown == [pose |-> cam.now.pose, zoom |-> cam.now.zoom]

(* Positions beyond the range are legal arguments; recenter is move to 0.  *)
ArgsOf(tool) ==
    CASE tool = "move" -> -(PoseLimit + 1)..(PoseLimit + 1)
      [] tool = "zoom" -> 0..(ZoomLimit + 1)
      [] tool = "track" -> Modes \cup {NoTracking}
      [] tool \in Pointing -> Pixels \cup {Outside}
      [] OTHER -> {0}

Steps == {"find", "look", "wake", "wakepoll", "settle", "report", "sleep",
          "readback", "gimbal", "zoom", "zoompoll", "aibefore", "aiwrite",
          "aipoll", "steady", "again", "grab"}
Replies == {"none", "ok", "refused", "error", "unavailable"}

NoRegs == [node |-> 1, left |-> 0, zoom |-> 0, ai |-> NoTracking,
           target |-> 0, clamped |-> FALSE, good |-> FALSE]
Regs == [node : {1, 2}, left : Nat, zoom : Zooms,
         ai : Modes \cup {NoTracking, Unknown}, target : Poses,
         clamped : BOOLEAN, good : BOOLEAN]
Errors == CameraLoss \cup {"pipe", "denied"}

TypeOK ==
    /\ cam \in Cameras
    /\ pc \in Steps \cup {"idle", "done"}
    /\ call = [client |-> call.client, tool |-> call.tool, arg |-> call.arg]
    /\ call.client \in Clients /\ call.tool \in AllTools
    /\ call.arg \in ArgsOf(call.tool)
    /\ reg \in Regs
    /\ reply \in Replies
    /\ frame \in [Clients -> Frames \cup {NoFrame}]
    /\ wrote \in SUBSET Axes
    /\ errs \in SUBSET Errors
    /\ calls \in Nat /\ faults \in Nat

Init ==
    /\ cam = Fresh(1)
    /\ pc = "idle"
    /\ call \in [client : Clients, tool : {"status"}, arg : {0}]
    /\ reg = NoRegs
    /\ reply = "none"
    /\ frame = [c \in Clients |-> NoFrame]
    /\ wrote = {} /\ errs = {}
    /\ calls = MaxCalls /\ faults = MaxFaults

-----------------------------------------------------------------------------
(* One access opens the device node and does one ioctl.                    *)
Reachable == cam.plugged /\ cam.node = reg.node
Outcomes == {"fine", "gone"} \cup Faults

Try(there, e) ==
    /\ e \in IF there THEN {"fine"} \cup (IF faults > 0 THEN Faults ELSE {})
                      ELSE {"gone"}
    /\ faults' = IF e \in Faults THEN faults - 1 ELSE faults
    /\ errs' = errs \cup ({e} \ {"fine"})
    /\ UNCHANGED <<call, calls>>

Goto(step) == pc' = step /\ UNCHANGED reply
Answer(r) == pc' = "done" /\ reply' = r

(* _run's except clauses.  A failed open carries the node's name, so one   *)
(* that is denied counts as a lost camera too.                             *)
Raise(e) == Answer(IF e \in CameraLoss \cup {"denied"} THEN "unavailable"
                                                       ELSE "error")
Fails(e) == e # "fine" /\ Raise(e) /\ UNCHANGED <<cam, frame, wrote, reg>>

Order(axis, ordered) ==
    cam' = ordered /\ wrote' = wrote \cup {axis} /\ UNCHANGED frame
Set(field, v) == reg' = [reg EXCEPT ![field] = v]
Looks == UNCHANGED <<cam, frame, wrote>>
Naps == Nap /\ UNCHANGED <<frame, wrote>>

Unclamped(v, lo, hi) == v  \* mutant: no clamp
Clamp(v, lo, hi) == IF v < lo THEN lo ELSE IF v > hi THEN hi ELSE v

-----------------------------------------------------------------------------
(* A request's work starts, and its answer is given.                       *)
Begin(c, tool, arg) ==
    /\ pc = "idle" /\ calls > 0
    /\ tool \in Pointing => frame[c] # NoFrame
    /\ pc' = "find"
    /\ call' = [client |-> c, tool |-> tool, arg |-> arg]
    /\ calls' = calls - 1
    /\ UNCHANGED <<cam, reg, reply, frame, wrote, errs, faults>>

Deliver ==
    /\ pc = "done"
    /\ pc' = "idle"
    /\ reply' = "none" /\ reg' = NoRegs /\ wrote' = {} /\ errs' = {}
    /\ UNCHANGED <<cam, call, frame, calls, faults>>

(* Camera.find scans the nodes anew; an error on a node skips that node.   *)
(* Then the pixel and the frame's shape are checked.                       *)
Entry(tool) ==
    CASE tool = "status" -> "report"
      [] tool = "sleep" -> "sleep"
      [] tool = "position" -> "readback"
      [] OTHER -> "look"

Find ==
    /\ pc = "find"
    /\ \E e \in Outcomes :
          /\ Try(cam.plugged, e)
          /\ IF e # "fine" THEN Answer("unavailable")
             ELSE IF call.tool \in Pointing /\ call.arg = Outside
                  THEN Answer("refused")
                  ELSE Goto(Entry(call.tool))
    /\ Set("node", cam.node)
    /\ Looks

-----------------------------------------------------------------------------
(* ensure_awake: what follows it, given whether it woke the camera.        *)
Proceed(woke) ==
    CASE call.tool \in Pointing -> IF woke THEN Answer("refused")
                                           ELSE Goto("steady")
      [] call.tool = "wake" -> Answer("ok")
      [] call.tool = "snapshot" -> Goto("grab")
      [] call.tool = "move" -> Goto("gimbal")
      [] call.tool = "zoom" -> Goto("zoom")
      [] call.tool = "track" -> Goto("aibefore")

(* A status that cannot be read counts as awake.                           *)
NeverAsleep(e) == FALSE  \* mutant: the status is not looked at
FoundAsleep(e) == e = "fine" /\ ~Awake

LookForever ==           \* mutant: a status that cannot be read is read again
    /\ pc = "look"
    /\ \E e \in Outcomes :
          /\ Try(Reachable, e)
          /\ IF e = "fine" THEN Proceed(FALSE) ELSE Goto("look")
    /\ Looks /\ UNCHANGED reg

Look ==
    /\ pc = "look"
    /\ \E e \in Outcomes :
          /\ Try(Reachable, e)
          /\ IF FoundAsleep(e) THEN Goto("wake") ELSE Proceed(FALSE)
    /\ Looks /\ UNCHANGED reg

SendWake ==
    /\ pc = "wake"
    /\ \E e \in Outcomes :
          /\ Try(Reachable, e)
          /\ \/ Fails(e)
             \/ /\ e = "fine"
                /\ Order("run", Ordered("run", "awake"))
                /\ Set("left", WakePolls)
                /\ Goto("wakepoll")

(* The poll ends with the deadline as it does with an awake camera.        *)
WakeUnpolled(e) == TRUE  \* mutant: the first read ends the poll
WakeOver(e) == (e = "fine" /\ Awake) \/ reg.left = 1

WakePoll ==
    /\ pc = "wakepoll"
    /\ Naps
    /\ \E e \in Outcomes :
          /\ Try(Reachable, e)
          /\ IF WakeOver(e) THEN Goto("settle") ELSE Goto("wakepoll")
    /\ Set("left", reg.left - 1)

WakeSettle ==
    /\ pc = "settle"
    /\ Naps
    /\ Proceed(TRUE)
    /\ UNCHANGED <<call, reg, calls, faults, errs>>

Sleep ==
    /\ pc = "sleep"
    /\ \E e \in Outcomes :
          /\ Try(Reachable, e)
          /\ \/ Fails(e)
             \/ /\ e = "fine"
                /\ Order("run", SleepOrdered)
                /\ Answer("ok") /\ UNCHANGED reg

-----------------------------------------------------------------------------
(* _aim_preconditions after the wake: two status reads, a nap apart, must  *)
(* show the same zoom, and the second one no AI mode, nor one that does not*)
(* decode.                                                                 *)
Steady ==
    /\ pc = "steady"
    /\ \E e \in Outcomes :
          /\ Try(Reachable, e)
          /\ \/ Fails(e)
             \/ /\ e = "fine"
                /\ Set("zoom", cam.now.zoom) /\ Goto("again") /\ Naps

ZoomIgnored == TRUE            \* mutant: the zoom is read only once
SameZoom == cam.now.zoom = reg.zoom
SteadyZoom == SameZoom         \* mutant: the AI mode does not matter
Unmoved == SameZoom /\ cam.now.ai = NoTracking

SteadyAgain ==
    /\ pc = "again"
    /\ \E e \in Outcomes :
          /\ Try(Reachable, e)
          /\ IF e # "fine" THEN Raise(e) /\ UNCHANGED reg
             ELSE /\ Set("zoom", cam.now.zoom)
                  /\ IF Unmoved THEN Goto("readback") ELSE Answer("refused")
    /\ Looks

(* obsbot_status reads the block, then the pose.                           *)
Report ==
    /\ pc = "report"
    /\ \E e \in Outcomes :
          /\ Try(Reachable, e)
          /\ \/ Fails(e)
             \/ e = "fine" /\ Goto("readback") /\ Looks /\ UNCHANGED reg

(* gimbal_get, and the aim computed from it.  A target out of the range is *)
(* refused, if it is past vertical from here, or clamped, and said to be,  *)
(* if it is past the ends of the yaw: the axis stands for both.            *)
Aimed == cam.cache + call.arg * Span(reg.zoom)

Readback ==
    /\ pc = "readback"
    /\ \E e \in Outcomes :
          /\ Try(Reachable, e)
          /\ \/ Fails(e)
             \/ /\ e = "fine" /\ Looks
                /\ \/ /\ call.tool \notin Pointing
                      /\ Answer("ok") /\ UNCHANGED reg
                   \/ /\ call.tool \in Pointing /\ Aimed \notin Poses
                      /\ Answer("refused") /\ UNCHANGED reg
                   \/ /\ call.tool \in Pointing
                      /\ reg' = [reg EXCEPT
                                   !.target = Clamp(Aimed, -PoseLimit, PoseLimit),
                                   !.clamped = (Aimed \notin Poses)]
                      /\ Goto("gimbal")

OnlyMoved == Answer("ok")  \* mutant: zoom_to_fit forgets the zoom
AfterGimbal == IF call.tool = "fit" THEN Goto("zoom") ELSE Answer("ok")

(* gimbal_set clamps to the range and commands the pose.                   *)
Gimbal ==
    /\ pc = "gimbal"
    /\ \E e \in Outcomes :
          /\ Try(Reachable, e)
          /\ \/ Fails(e)
             \/ LET wanted == IF call.tool = "move" THEN call.arg ELSE reg.target
                IN /\ e = "fine"
                   /\ Order("pose", PoseOrdered(Clamp(wanted, -PoseLimit, PoseLimit)))
                   /\ AfterGimbal
                   /\ UNCHANGED reg

(* zoom_set commands the zoom, for a region one step closer than the frame,*)
(* then reads the status until it is there or the deadline has passed.  One*)
(* step of zoom stands for more than ZOOM_SETTLE_TOLERANCE_PCT.            *)
ZoomSet ==
    /\ pc = "zoom"
    /\ \E e \in Outcomes :
          /\ Try(Reachable, e)
          /\ \/ Fails(e)
             \/ LET wanted == IF call.tool = "fit" THEN reg.zoom + 1 ELSE call.arg
                    z == Clamp(wanted, 0, ZoomLimit)
                IN /\ e = "fine"
                   /\ Order("zoom", Ordered("zoom", z))
                   /\ reg' = [reg EXCEPT !.zoom = z, !.left = ZoomPolls]
                   /\ Goto("zoompoll")

ZoomNear == cam.now.zoom \in reg.zoom - 1..reg.zoom + 1  \* mutant: too lenient
ZoomThere == cam.now.zoom = reg.zoom

ZoomPoll ==
    /\ pc = "zoompoll"
    /\ \E e \in Outcomes :
          /\ Try(Reachable, e)
          /\ \/ /\ e = "fine" /\ ZoomThere
                /\ Set("good", TRUE) /\ Answer("ok") /\ Looks
             \/ /\ e # "fine" \/ ~ZoomThere
                /\ Set("left", reg.left - 1) /\ Naps
                /\ IF reg.left = 1 THEN Answer("ok") ELSE Goto("zoompoll")

-----------------------------------------------------------------------------
(* ai_track.  A mode that cannot be read is unknown.                       *)
AiBefore ==
    /\ pc = "aibefore"
    /\ \E e \in Outcomes :
          /\ Try(Reachable, e)
          /\ Set("ai", IF e = "fine" THEN cam.now.ai ELSE Unknown)
    /\ Goto("aiwrite") /\ Looks

AiWrite ==
    /\ pc = "aiwrite"
    /\ \E e \in Outcomes :
          /\ Try(Reachable, e)
          /\ \/ Fails(e)
             \/ /\ e = "fine"
                /\ Order("ai", Ordered("ai", call.arg))
                /\ Set("left", VerifyPolls) /\ Goto("aipoll")

(* It stops at the mode wanted, at any other that is not the one before,   *)
(* and after the last attempt.                                             *)
StableMatches(mode) == mode # Unknown  \* mutant: any mode is the wanted one
Matches(mode) == mode = call.arg

LandedAnywhere(mode) == mode # Unknown  \* mutant: the mode before counts too
Landed(mode) == mode \notin {Unknown, reg.ai}

AiPoll ==
    /\ pc = "aipoll"
    /\ IF reg.left < VerifyPolls THEN Naps ELSE Looks
    /\ \E e \in Outcomes :
          LET verified == IF e = "fine" THEN cam.now.ai ELSE Unknown IN
          /\ Try(Reachable, e)
          /\ \/ Matches(verified) /\ Set("good", TRUE) /\ Answer("ok")
             \/ /\ ~Matches(verified)
                /\ Set("left", reg.left - 1)
                /\ IF Landed(verified) \/ reg.left = 1
                   THEN Answer("ok") ELSE Goto("aipoll")

(* take_snapshot: a frame of what the camera sees now, or a CaptureError.  *)
Grab ==
    /\ pc = "grab"
    /\ \E e \in Outcomes :
          /\ Try(Reachable, e)
          /\ \/ e # "fine" /\ Answer("error") /\ UNCHANGED frame
             \/ /\ e = "fine" /\ Answer("ok")
                /\ frame' = [frame EXCEPT ![call.client] = Shown]
    /\ UNCHANGED <<cam, wrote, reg>>

-----------------------------------------------------------------------------
Work ==
    \/ Find \/ Look \/ SendWake \/ WakePoll \/ WakeSettle \/ Sleep
    \/ Steady \/ SteadyAgain \/ Report \/ Readback \/ Gimbal
    \/ ZoomSet \/ ZoomPoll \/ AiBefore \/ AiWrite \/ AiPoll \/ Grab

(* The camera's own steps.                                                 *)
worker == <<pc, call, reg, reply, frame, wrote, errs, calls>>
Settle == Settles /\ UNCHANGED <<worker, faults>>
Move == Moves /\ UNCHANGED <<worker, faults>>
PullOut == Unplug /\ faults > 0 /\ faults' = faults - 1 /\ UNCHANGED worker
PlugIn == Replug /\ UNCHANGED <<worker, faults>>

Next ==
    \/ \E c \in Clients, tool \in Tools :
          \E arg \in ArgsOf(tool) : Begin(c, tool, arg)
    \/ Work \/ Deliver
    \/ Settle \/ Move \/ PullOut \/ PlugIn

(* A thread at work goes on, and the camera gets where it was sent.        *)
Fairness == WF_vars(Work) /\ WF_vars(Deliver) /\ WF_vars(Settle)

Spec == Init /\ [][Next]_vars
FairSpec == Spec /\ Fairness

-----------------------------------------------------------------------------
Ends(tools) == pc = "done" /\ reply = "ok" /\ call.tool \in tools
Aiming == pc = "gimbal" /\ call.tool \in Pointing
FrameIsCurrent == frame[call.client] = Shown

(* The aim is right whenever the frame it was measured in is: if the camera*)
(* still stands as the client's snapshot shows it, the pose that           *)
(* obsbot_aim_at_pixel and obsbot_zoom_to_fit command is where the pixel   *)
(* is, whoever moved or zoomed the camera before the snapshot or goes on   *)
(* zooming; clamped is said just of a pixel that is out of reach, and then *)
(* the camera is sent to the end of its range on that side.                *)
AimHits ==
    Aiming /\ FrameIsCurrent /\ ~Pending("pose") =>
       LET object == Object(frame[call.client], call.arg)
       IN /\ reg.clamped = (object \notin Poses)
          /\ ~reg.clamped => reg.target = object
          /\ reg.clamped => reg.target = IF object < 0 THEN -PoseLimit ELSE PoseLimit

(* The frame an accepted aim was measured in is not stale.                 *)
NoStaleAim == Aiming => FrameIsCurrent

(* An aim never commands a gimbal that AI tracking moves or is about to.   *)
NoFight ==
    Aiming => cam.now.ai = NoTracking /\ cam.goal.ai = NoTracking

(* No tool commands the gimbal, nor takes a picture, of a camera that is   *)
(* asleep or on its way there.                                             *)
AwakeForUse ==
    pc \in {"gimbal", "grab"} => Awake /\ cam.goal.run = "awake"

(* obsbot_wake says awake of a camera that is awake and stays so.          *)
WakeHonest == Ends({"wake"}) => Awake /\ cam.goal.run = "awake"

(* settled and matched are true of the camera when the answer is formed.   *)
SettledIsThere ==
    Ends({"zoom", "fit"}) /\ reg.good => ~Pending("zoom")
MatchedIsThere ==
    Ends({"track"}) /\ reg.good
       => cam.now.ai = call.arg /\ cam.goal.ai = call.arg

(* obsbot_ai_track answers when the switch is over, not in the middle.     *)
TrackLands == Ends({"track"}) => ~Pending("ai")

(* A refusal has moved nothing, but for the wake that is its reason; a     *)
(* success has commanded everything the tool is for.                       *)
Purpose(tool) ==
    CASE tool \in {"aim", "move"} -> {"pose"}
      [] tool = "fit" -> {"pose", "zoom"}
      [] tool = "zoom" -> {"zoom"}
      [] tool = "track" -> {"ai"}
      [] tool = "sleep" -> {"run"}
      [] OTHER -> {}
AnswerTellsDeeds ==
    pc = "done" => /\ reply = "refused" => wrote \subseteq {"run"}
                   /\ reply = "ok" => Purpose(call.tool) \subseteq wrote

(* A call that finds the camera gone says so.                              *)
LossIsReported ==
    pc = "done" /\ "gone" \in errs => reply = "unavailable"

(* Every call is answered, whatever fails.                                 *)
EveryCallAnswered == (pc # "idle") ~> (pc = "idle")
=============================================================================
