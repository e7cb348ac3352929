------------------------------- MODULE Device -------------------------------
(***************************************************************************)
(* The camera as the daemon meets it: an external component, modelled from *)
(* what camera.py, server.py and the hardware notes in docs/ rely on.      *)
(*                                                                         *)
(* A command only sets a goal; the camera gets there later, at a moment of *)
(* its own, within Latency naps of the program (a nap is one time.sleep of *)
(* a polling loop).  The status block shows where it is, not its goal.     *)
(* The gimbal's pose cannot be read: uvcvideo answers with the last value  *)
(* commanded, whatever sleep, wake and AI tracking did since.              *)
(*                                                                         *)
(* One gimbal axis is kept, the one that sleep stows, and zoom and field   *)
(* of view are one scale.                                                  *)
(***************************************************************************)
EXTENDS Integers, FiniteSets

CONSTANTS
    PoseLimit,  \* the mechanical range is -PoseLimit..PoseLimit
    ZoomLimit,  \* zoom goes from 0, the widest, to ZoomLimit
    Latency,    \* axis -> naps the camera may need to reach a goal
    SleepShows, \* whether the status says asleep from the sleep command on
    ZoomShows,  \* whether a zoom under way is seen to move from nap to nap
    Modes,      \* the AI tracking modes the clients use
    Faults      \* what may go wrong with a device that is there

Axes == {"run", "pose", "zoom", "ai"}
Poses == -PoseLimit..PoseLimit
Stowed == PoseLimit + 1        \* face down, past what gimbal_set may command
Level == 0                     \* where waking leaves the gimbal
Zooms == 0..ZoomLimit
NoTracking == "no-tracking"
Unknown == "unknown"           \* an AI mode byte that does not decode
CameraLoss == {"gone", "eio"}  \* what server.py takes for a lost camera

ASSUME DeviceAssumption ==
    /\ PoseLimit \in Nat \ {0} /\ ZoomLimit \in Nat
    /\ Latency \in [Axes -> Nat]
    /\ {SleepShows, ZoomShows} \subseteq BOOLEAN
    /\ Modes \cap {NoTracking, Unknown} = {}
    /\ Faults \subseteq {"eio", "pipe", "denied"}

VARIABLE cam

(* The type of a camera: what is plugged in, under which device node, where *)
(* each axis is and is going, and the driver's memory of the pose.         *)
Places ==
    [run : {"awake", "asleep"}, pose : Poses \cup {Stowed}, zoom : Zooms,
     ai : Modes \cup {NoTracking, Unknown}]
Cameras ==
    [plugged : BOOLEAN, node : {1, 2}, now : Places, goal : Places,
     due : [Axes -> Nat], cache : Poses]

PowerOn == [run |-> "awake", pose |-> Level, zoom |-> 0, ai |-> NoTracking]
Fresh(node) ==
    [plugged |-> TRUE, node |-> node, now |-> PowerOn, goal |-> PowerOn,
     due |-> [k \in Axes |-> 0], cache |-> Level]

Pending(k) == cam.now[k] # cam.goal[k]
Awake == cam.now.run = "awake"
Tracking == cam.now.ai \in Modes

-----------------------------------------------------------------------------
(* What a command does to the camera.                                      *)
Ordered(k, v) ==
    [cam EXCEPT !.goal[k] = v,
                !.due[k] = IF cam.now[k] = v THEN 0 ELSE Latency[k]]

(* The driver remembers the pose; a camera that is asleep, or on its way   *)
(* there or back, does not move its gimbal.                                *)
PoseOrdered(v) ==
    IF Awake /\ ~Pending("run")
    THEN [Ordered("pose", v) EXCEPT !.cache = v]
    ELSE [cam EXCEPT !.cache = v]

SleepOrdered ==
    IF SleepShows
    THEN [Ordered("run", "asleep") EXCEPT
             !.now.run = "asleep", !.due.run = 0,
             !.now.pose = Stowed, !.goal.pose = Stowed, !.due.pose = 0]
    ELSE Ordered("run", "asleep")

(* Nearer to its goal than the zoom is, or there.                          *)
Ahead(z) ==
    \/ cam.now.zoom < z /\ z <= cam.goal.zoom
    \/ cam.goal.zoom <= z /\ z < cam.now.zoom

(* One nap goes by: nothing stays pending longer than its latency, and a   *)
(* zoom under way goes on.                                                 *)
Nap ==
    /\ \A k \in Axes : Pending(k) => cam.due[k] > 0
    /\ \E z \in Zooms :
          /\ IF Pending("zoom") /\ ZoomShows THEN Ahead(z) ELSE z = cam.now.zoom
          /\ cam' = [cam EXCEPT
                        !.now.zoom = z,
                        !.due = [k \in Axes |-> IF Pending(k) THEN @[k] - 1 ELSE 0]]

-----------------------------------------------------------------------------
(* What the camera does by itself, at any moment.                          *)

(* Asleep it hangs stowed.  Waking un-stows it to level and may start to   *)
(* track: "Tiny 2's default on wake" (docs/spec-tools.md:389).             *)
Stows ==
    /\ Pending("run") /\ cam.goal.run = "asleep"
    /\ cam' = [cam EXCEPT !.now.run = "asleep", !.due.run = 0,
                          !.now.pose = Stowed, !.goal.pose = Stowed,
                          !.due.pose = 0]

Wakes ==
    /\ Pending("run") /\ cam.goal.run = "awake"
    /\ LET level == [cam EXCEPT !.now.run = "awake", !.due.run = 0,
                                !.now.pose = Level, !.goal.pose = Level,
                                !.due.pose = 0]
       IN \/ cam' = level
          \/ \E mode \in Modes :
                cam' = [level EXCEPT !.now.ai = mode, !.goal.ai = mode,
                                     !.due.ai = 0]

Arrives(k) ==
    /\ Pending(k)
    /\ cam' = [cam EXCEPT !.now[k] = cam.goal[k], !.due[k] = 0]

(* The zoom travels through what lies between.                             *)
ZoomTravels ==
    \E z \in Zooms \ {cam.now.zoom, cam.goal.zoom} :
       /\ (cam.now.zoom < z) = (z < cam.goal.zoom)
       /\ cam' = [cam EXCEPT !.now.zoom = z]

(* A mode switch parks in a transient that does not decode.                *)
AiLeaves ==
    /\ Pending("ai") /\ cam.now.ai # Unknown
    /\ cam' = [cam EXCEPT !.now.ai = Unknown]

(* Tracking moves the gimbal to its subject.                               *)
Follows ==
    /\ cam.plugged /\ Tracking /\ Awake /\ ~Pending("run")
    /\ \E p \in Poses :
          /\ p # cam.now.pose
          /\ cam' = [cam EXCEPT !.now.pose = p, !.goal.pose = p,
                                !.due.pose = 0]

Settles == Stows \/ Wakes \/ \E k \in Axes \ {"run"} : Arrives(k)
Moves == ZoomTravels \/ AiLeaves \/ Follows

(* A camera loses its state with its power, and comes back as it is at     *)
(* power-on, perhaps under another node.                                   *)
Unplug ==
    /\ cam.plugged
    /\ cam' = [Fresh(cam.node) EXCEPT !.plugged = FALSE]

Replug ==
    /\ ~cam.plugged
    /\ \E node \in {1, 2} : cam' = Fresh(node)
=============================================================================
