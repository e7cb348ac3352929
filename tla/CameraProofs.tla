---------------------------- MODULE CameraProofs ----------------------------
(***************************************************************************)
(* Proofs about Camera, for every set of tools and clients, every range,   *)
(* number of polls, latency and kind of fault: type correctness, and that  *)
(* an answer tells what the call has done.                                 *)
(*                                                                         *)
(* Both need to know which tools a step of the worker may serve (AtWork)   *)
(* and that a poll under way has reads left (Counting); what an answer     *)
(* tells needs the commands issued by then at each step (Deeds).           *)
(***************************************************************************)
EXTENDS Camera, TLAPS

Waking == Pointing \cup {"wake", "snapshot", "move", "zoom", "track"}

AtWork ==
    /\ pc \in {"look", "wake", "wakepoll", "settle"} => call.tool \in Waking
    /\ pc \in {"steady", "again"} => call.tool \in Pointing
    /\ pc = "readback" => call.tool \in Pointing \cup {"status", "position"}
    /\ pc = "report" => call.tool = "status"
    /\ pc = "sleep" => call.tool = "sleep"
    /\ pc = "gimbal" => call.tool \in Pointing \cup {"move"}
    /\ pc \in {"zoom", "zoompoll"} => call.tool \in {"zoom", "fit"}
    /\ pc \in {"aibefore", "aiwrite", "aipoll"} => call.tool = "track"
    /\ pc = "grab" => call.tool = "snapshot"

Counting == pc \in {"wakepoll", "zoompoll", "aipoll"} => reg.left > 0

TypeInv == TypeOK /\ AtWork /\ Counting

-----------------------------------------------------------------------------
(* What the camera does leaves it a camera.                                *)
USE DEF NoTracking, Unknown

LEMMA OrderedType ==
    ASSUME cam \in Cameras
    PROVE  /\ \A v \in {"awake", "asleep"} : Ordered("run", v) \in Cameras
           /\ \A v \in Zooms : Ordered("zoom", v) \in Cameras
           /\ \A v \in Modes \cup {NoTracking} : Ordered("ai", v) \in Cameras
           /\ \A v \in Poses : PoseOrdered(v) \in Cameras
           /\ SleepOrdered \in Cameras
  <1>1. \A v \in {"awake", "asleep"} : Ordered("run", v) \in Cameras
    BY DeviceAssumption DEF Ordered, Cameras, Places, Axes
  <1>2. \A v \in Zooms : Ordered("zoom", v) \in Cameras
    BY DeviceAssumption DEF Ordered, Cameras, Places, Axes
  <1>3. \A v \in Modes \cup {NoTracking} : Ordered("ai", v) \in Cameras
    BY DeviceAssumption DEF Ordered, Cameras, Places, Axes
  <1>4. ASSUME NEW v \in Poses PROVE PoseOrdered(v) \in Cameras
    <2> DEFINE o == Ordered("pose", v)
    <2>1. o \in Cameras
      BY DeviceAssumption DEF Ordered, Cameras, Places, Axes
    <2> HIDE DEF o
    <2>2. [o EXCEPT !.cache = v] \in Cameras /\ [cam EXCEPT !.cache = v] \in Cameras
      BY <2>1 DEF Cameras
    <2> QED  BY <2>2 DEF PoseOrdered, o
  <1>5. SleepOrdered \in Cameras
    <2> DEFINE o == Ordered("run", "asleep")
    <2>1. o \in Cameras
      BY <1>1
    <2>2. SleepOrdered =
             IF SleepShows
             THEN [o EXCEPT !.now.run = "asleep", !.due.run = 0,
                            !.now.pose = Stowed, !.goal.pose = Stowed,
                            !.due.pose = 0]
             ELSE o
      BY DEF SleepOrdered
    <2> HIDE DEF o
    <2>3. CASE SleepShows
      <3> DEFINE now == [o.now EXCEPT !.run = "asleep", !.pose = Stowed]
                 goal == [o.goal EXCEPT !.pose = Stowed]
                 due == [o.due EXCEPT !.run = 0, !.pose = 0]
      <3>1. now \in Places /\ goal \in Places /\ due \in [Axes -> Nat]
        BY <2>1 DEF Cameras, Places, Axes
      <3>2. SleepOrdered = [o EXCEPT !.now = now, !.goal = goal, !.due = due]
        BY <2>1, <2>2, <2>3 DEF Cameras, Places, Axes
      <3> HIDE DEF now, goal, due
      <3> QED  BY <2>1, <3>1, <3>2 DEF Cameras
    <2>4. CASE ~SleepShows
      BY <2>1, <2>2, <2>4
    <2> QED  BY <2>3, <2>4
  <1> QED  BY <1>1, <1>2, <1>3, <1>4, <1>5

LEMMA FreshType == \A node \in {1, 2} : Fresh(node) \in Cameras
  BY DeviceAssumption
  DEF Fresh, PowerOn, Cameras, Places, Axes, Poses, Zooms, Level

LEMMA NapType == ASSUME cam \in Cameras, Nap PROVE cam' \in Cameras
  <1> DEFINE due == [k \in Axes |-> IF Pending(k) THEN cam.due[k] - 1 ELSE 0]
  <1>1. PICK z \in Zooms : cam' = [cam EXCEPT !.now.zoom = z, !.due = due]
    BY DEF Nap
  <1>2. due \in [Axes -> Nat]
    BY DEF Nap, Cameras
  <1> HIDE DEF due
  <1> QED  BY <1>1, <1>2 DEF Cameras, Places

Levelled ==
    [cam EXCEPT !.now.run = "awake", !.due.run = 0,
                !.now.pose = Level, !.goal.pose = Level, !.due.pose = 0]

LEMMA WakesIs ==
    ASSUME cam \in Cameras, Wakes
    PROVE  /\ Levelled \in Cameras
           /\ \A k \in {"zoom", "ai"} : /\ Levelled.now[k] = cam.now[k]
                                      /\ Levelled.goal[k] = cam.goal[k]
           /\ \/ cam' = Levelled
              \/ \E mode \in Modes :
                    cam' = [Levelled EXCEPT !.now.ai = mode, !.goal.ai = mode,
                                            !.due.ai = 0]
  <1>1. Level \in Poses
    BY DeviceAssumption DEF Poses, Level
  <1> QED  BY <1>1 DEF Wakes, Levelled, Cameras, Places, Axes

LEMMA WakesType == ASSUME cam \in Cameras, Wakes PROVE cam' \in Cameras
  <1>1. Levelled \in Cameras
    BY WakesIs
  <1>2. ASSUME NEW mode \in Modes
        PROVE  [Levelled EXCEPT !.now.ai = mode, !.goal.ai = mode, !.due.ai = 0]
                  \in Cameras
    BY <1>1 DEF Cameras, Places, Axes
  <1> QED  BY <1>1, <1>2, WakesIs

LEMMA SettlesType == ASSUME cam \in Cameras, Settles PROVE cam' \in Cameras
  <1>1. CASE Stows
    BY <1>1 DEF Stows, Cameras, Places, Axes
  <1>2. CASE Wakes
    BY <1>2, WakesType
  <1>3. ASSUME NEW k \in Axes \ {"run"}, Arrives(k) PROVE cam' \in Cameras
    BY <1>3 DEF Arrives, Cameras, Places, Axes
  <1> QED  BY <1>1, <1>2, <1>3 DEF Settles

LEMMA MovesType == ASSUME cam \in Cameras, Moves PROVE cam' \in Cameras
  <1>1. CASE ZoomTravels
    BY <1>1 DEF ZoomTravels, Cameras, Places
  <1>2. CASE AiLeaves
    BY <1>2 DEF AiLeaves, Cameras, Places
  <1>3. CASE Follows
    <2>1. PICK p \in Poses : cam' = [cam EXCEPT !.now.pose = p, !.goal.pose = p,
                                               !.due.pose = 0]
      BY <1>3 DEF Follows
    <2> QED  BY <2>1 DEF Cameras, Places, Axes
  <1> QED  BY <1>1, <1>2, <1>3 DEF Moves

LEMMA PlugType ==
    ASSUME cam \in Cameras, Unplug \/ Replug
    PROVE  cam' \in Cameras
  <1>1. CASE Unplug
    <2>1. cam.node \in {1, 2}
      BY DEF Cameras
    <2> QED  BY <1>1, <2>1, FreshType DEF Unplug, Cameras
  <1> QED  BY <1>1, FreshType DEF Replug

-----------------------------------------------------------------------------
(* Type correctness, and what it rests on.                                 *)
LEMMA InitType == Init => TypeInv
  <1> SUFFICES ASSUME Init PROVE TypeInv
    OBVIOUS
  <1> USE DeviceAssumption, CameraAssumption DEF Init
  <1>1. cam \in Cameras
    BY FreshType
  <1>2. /\ call = [client |-> call.client, tool |-> call.tool, arg |-> call.arg]
        /\ call.client \in Clients /\ call.tool \in AllTools
        /\ call.arg \in ArgsOf(call.tool)
    BY DEF AllTools, ArgsOf, Pointing
  <1>3. reg \in Regs
    BY DEF NoRegs, Regs, Zooms, Poses
  <1>4. frame \in [Clients -> Frames \cup {NoFrame}]
    OBVIOUS
  <1>5. AtWork /\ Counting
    BY DEF AtWork, Counting
  <1> QED  BY <1>1, <1>2, <1>3, <1>4, <1>5 DEF TypeInv, TypeOK, Replies

(* Every access keeps the call, and its outcome is one of the errors.      *)
LEMMA TryType ==
    ASSUME TypeOK, NEW there, NEW e, Try(there, e)
    PROVE  /\ faults' \in Nat
           /\ errs' \in SUBSET Errors
           /\ call' = call /\ calls' = calls
  <1>1. e \in {"fine", "gone"} \cup Faults
    BY DEF Try
  <1>2. e \in Faults => faults > 0
    BY DeviceAssumption DEF Try
  <1> QED  BY <1>1, <1>2, DeviceAssumption DEF Try, TypeOK, Errors, CameraLoss

LEMMA ArgsType ==
    /\ ArgsOf("move") = -(PoseLimit + 1)..(PoseLimit + 1)
    /\ ArgsOf("zoom") = 0..(ZoomLimit + 1)
    /\ ArgsOf("track") = Modes \cup {NoTracking}
  BY DEF ArgsOf, Pointing

LEMMA ClampType ==
    ASSUME NEW lo \in Int, NEW hi \in Int, lo =< hi, NEW v \in Int
    PROVE  Clamp(v, lo, hi) \in lo..hi
  BY DEF Clamp

-----------------------------------------------------------------------------
(* Every step keeps the type invariant.                                    *)
LEMMA FindType == ASSUME TypeInv, Find PROVE TypeInv'
  <1>1. PICK e \in Outcomes :
           /\ Try(cam.plugged, e)
           /\ IF e # "fine" THEN Answer("unavailable")
              ELSE IF call.tool \in Pointing /\ call.arg = Outside
                   THEN Answer("refused")
                   ELSE Goto(Entry(call.tool))
    BY DEF Find
  <1>2. /\ faults' \in Nat /\ errs' \in SUBSET Errors
        /\ call' = call /\ calls' = calls
    BY <1>1, TryType DEF TypeInv
  <1>3. /\ UNCHANGED <<cam, frame, wrote>>
        /\ reg' \in Regs
    BY DEF Find, Looks, Set, TypeInv, TypeOK, Regs, Cameras
  <1>4. /\ pc' \in {"done", "report", "sleep", "readback", "look"}
        /\ reply' \in Replies
        /\ AtWork' /\ Counting'
    BY <1>1, <1>2 DEF Find, Answer, Goto, Entry, TypeInv, TypeOK, Replies,
       AtWork, Counting, AllTools, Waking, Pointing
  <1> QED  BY <1>2, <1>3, <1>4 DEF TypeInv, TypeOK, Steps

LEMMA LookType == ASSUME TypeInv, Look PROVE TypeInv'
  <1>1. PICK e \in Outcomes :
           /\ Try(Reachable, e)
           /\ IF FoundAsleep(e) THEN Goto("wake") ELSE Proceed(FALSE)
    BY DEF Look
  <1>2. /\ faults' \in Nat /\ errs' \in SUBSET Errors
        /\ call' = call /\ calls' = calls
    BY <1>1, TryType DEF TypeInv
  <1>3. UNCHANGED <<cam, frame, wrote, reg>>
    BY DEF Look, Looks
  <1>4. /\ pc' \in Steps \cup {"done"}
        /\ reply' \in Replies
        /\ AtWork' /\ Counting'
    BY <1>1, <1>2 DEF Look, Answer, Goto, Proceed, TypeInv, TypeOK, Replies,
       AtWork, Counting, AllTools, Waking, Pointing, Steps
  <1> QED  BY <1>2, <1>3, <1>4 DEF TypeInv, TypeOK, Steps

LEMMA SendWakeType == ASSUME TypeInv, SendWake PROVE TypeInv'
  <1>1. PICK e \in Outcomes :
           /\ Try(Reachable, e)
           /\ \/ Fails(e)
              \/ /\ Order("run", Ordered("run", "awake"))
                 /\ Set("left", WakePolls) /\ Goto("wakepoll")
    BY DEF SendWake
  <1>2. /\ faults' \in Nat /\ errs' \in SUBSET Errors
        /\ call' = call /\ calls' = calls
    BY <1>1, TryType DEF TypeInv
  <1>3. CASE Fails(e)
    BY <1>2, <1>3 DEF Fails, Raise, Answer, TypeInv, TypeOK, AtWork, Counting, Replies
  <1>4. CASE /\ Order("run", Ordered("run", "awake"))
             /\ Set("left", WakePolls) /\ Goto("wakepoll")
    BY <1>2, <1>4, OrderedType, CameraAssumption
    DEF SendWake, Order, Set, Goto, TypeInv, TypeOK, AtWork, Counting, Steps, Regs, Axes
  <1> QED  BY <1>1, <1>3, <1>4

LEMMA WakePollType == ASSUME TypeInv, WakePoll PROVE TypeInv'
  <1>1. PICK e \in Outcomes :
           /\ Try(Reachable, e)
           /\ IF WakeOver(e) THEN Goto("settle") ELSE Goto("wakepoll")
    BY DEF WakePoll
  <1>2. /\ faults' \in Nat /\ errs' \in SUBSET Errors
        /\ call' = call /\ calls' = calls
    BY <1>1, TryType DEF TypeInv
  <1>3. cam' \in Cameras
    BY NapType DEF WakePoll, Naps, TypeInv, TypeOK
  <1>4. reg' \in Regs /\ reg'.left = reg.left - 1 /\ reg.left > 0
    BY DEF WakePoll, Set, TypeInv, TypeOK, Regs, Counting
  <1>5. UNCHANGED <<reply, frame, wrote>> /\ pc' \in {"settle", "wakepoll"}
    BY <1>1 DEF WakePoll, Naps, Goto
  <1>6. Counting'
    BY <1>1, <1>4, <1>5 DEF Counting, WakeOver, Goto, TypeInv, TypeOK, Regs
  <1> QED
    BY <1>2, <1>3, <1>4, <1>5, <1>6
    DEF WakePoll, TypeInv, TypeOK, AtWork, Steps

LEMMA WakeSettleType == ASSUME TypeInv, WakeSettle PROVE TypeInv'
  <1>1. cam' \in Cameras
    BY NapType DEF WakeSettle, Naps, TypeInv, TypeOK
  <1>2. /\ pc' \in Steps \cup {"done"}
        /\ reply' \in Replies
        /\ AtWork' /\ Counting'
    BY DEF WakeSettle, Answer, Goto, Proceed, TypeInv, TypeOK, Replies,
       AtWork, Counting, AllTools, Waking, Pointing, Steps
  <1> QED  BY <1>1, <1>2 DEF WakeSettle, Naps, TypeInv, TypeOK

LEMMA SleepType == ASSUME TypeInv, Sleep PROVE TypeInv'
  <1>1. PICK e \in Outcomes :
           /\ Try(Reachable, e)
           /\ \/ Fails(e)
              \/ Order("run", SleepOrdered) /\ Answer("ok") /\ UNCHANGED reg
    BY DEF Sleep
  <1>2. /\ faults' \in Nat /\ errs' \in SUBSET Errors
        /\ call' = call /\ calls' = calls
    BY <1>1, TryType DEF TypeInv
  <1>3. CASE Fails(e)
    BY <1>2, <1>3 DEF Fails, Raise, Answer, TypeInv, TypeOK, AtWork, Counting, Replies
  <1>4. CASE Order("run", SleepOrdered) /\ Answer("ok") /\ UNCHANGED reg
    BY <1>2, <1>4, OrderedType
    DEF Order, Answer, TypeInv, TypeOK, AtWork, Counting, Replies, Axes
  <1> QED  BY <1>1, <1>3, <1>4

LEMMA SteadyType == ASSUME TypeInv, Steady \/ SteadyAgain PROVE TypeInv'
  <1>1. CASE Steady
    <2>1. PICK e \in Outcomes :
             /\ Try(Reachable, e)
             /\ \/ Fails(e)
                \/ Set("zoom", cam.now.zoom) /\ Goto("again") /\ Naps
      BY <1>1 DEF Steady
    <2>2. /\ faults' \in Nat /\ errs' \in SUBSET Errors
          /\ call' = call /\ calls' = calls
      BY <2>1, TryType DEF TypeInv
    <2>3. cam.now.zoom \in Zooms
      BY DEF TypeInv, TypeOK, Cameras, Places
    <2>4. CASE Fails(e)
      BY <2>2, <2>4 DEF Fails, Raise, Answer, TypeInv, TypeOK, AtWork, Counting, Replies
    <2>5. CASE Set("zoom", cam.now.zoom) /\ Goto("again") /\ Naps
      <3>1. cam' \in Cameras
        BY <2>5, NapType DEF Naps, TypeInv, TypeOK
      <3> QED
        BY <1>1, <2>2, <2>3, <2>5, <3>1
        DEF Steady, Naps, Set, Goto, TypeInv, TypeOK, AtWork, Counting, Steps, Regs
    <2> QED  BY <2>1, <2>4, <2>5
  <1>2. CASE SteadyAgain
    <2>1. PICK e \in Outcomes :
             /\ Try(Reachable, e)
             /\ UNCHANGED reg \/ Set("zoom", cam.now.zoom)
             /\ Raise(e) \/ Goto("readback") \/ Answer("refused")
      BY <1>2 DEF SteadyAgain
    <2>2. /\ faults' \in Nat /\ errs' \in SUBSET Errors
          /\ call' = call /\ calls' = calls
      BY <2>1, TryType DEF TypeInv
    <2>3. reg' \in Regs
      BY <2>1 DEF Set, TypeInv, TypeOK, Regs, Cameras, Places
    <2>4. pc' \in {"done", "readback"} /\ reply' \in Replies
      BY <2>1 DEF Raise, Goto, Answer, TypeInv, TypeOK, Replies
    <2> QED
      BY <1>2, <2>2, <2>3, <2>4
      DEF SteadyAgain, Looks, TypeInv, TypeOK, AtWork, Counting, Steps
  <1> QED  BY <1>1, <1>2

LEMMA ReportType == ASSUME TypeInv, Report PROVE TypeInv'
  <1>1. PICK e \in Outcomes :
           /\ Try(Reachable, e)
           /\ Fails(e) \/ (Goto("readback") /\ Looks /\ UNCHANGED reg)
    BY DEF Report
  <1>2. /\ faults' \in Nat /\ errs' \in SUBSET Errors
        /\ call' = call /\ calls' = calls
    BY <1>1, TryType DEF TypeInv
  <1>3. CASE Fails(e)
    BY <1>2, <1>3 DEF Fails, Raise, Answer, TypeInv, TypeOK, AtWork, Counting, Replies
  <1>4. CASE Goto("readback") /\ Looks /\ UNCHANGED reg
    BY <1>2, <1>4 DEF Report, Looks, Goto, TypeInv, TypeOK, AtWork, Counting, Steps
  <1> QED  BY <1>1, <1>3, <1>4

LEMMA AimedType ==
    ASSUME TypeInv, call.tool \in Pointing
    PROVE  /\ Aimed \in Int
           /\ Clamp(Aimed, -PoseLimit, PoseLimit) \in Poses
  <1>1. call.arg \in Int
    BY DEF TypeInv, TypeOK, ArgsOf, Pointing, Pixels, Outside
  <1>2. cam.cache \in Int /\ Span(reg.zoom) \in Int
    BY DeviceAssumption
    DEF TypeInv, TypeOK, Cameras, Regs, Poses, Zooms, Span
  <1>3. Aimed \in Int
    <2> DEFINE span == Span(reg.zoom)
    <2>1. span \in Int
      BY <1>2
    <2> HIDE DEF span
    <2>2. cam.cache + call.arg * span \in Int
      BY <1>1, <1>2, <2>1
    <2> QED  BY <2>2 DEF Aimed, span
  <1>4. -PoseLimit \in Int /\ PoseLimit \in Int /\ -PoseLimit =< PoseLimit
    BY DeviceAssumption
  <1> QED  BY <1>3, <1>4, ClampType DEF Poses

LEMMA ReadbackType == ASSUME TypeInv, Readback PROVE TypeInv'
  <1> DEFINE target == Clamp(Aimed, -PoseLimit, PoseLimit)
             beyond == Aimed \notin Poses
  <1>1. PICK e \in Outcomes :
           /\ Try(Reachable, e)
           /\ \/ Fails(e)
              \/ /\ Looks
                 /\ \/ UNCHANGED reg /\ (Answer("ok") \/ Answer("refused"))
                    \/ /\ call.tool \in Pointing
                       /\ reg' = [reg EXCEPT !.target = target, !.clamped = beyond]
                       /\ Goto("gimbal")
    BY DEF Readback
  <1>2. /\ faults' \in Nat /\ errs' \in SUBSET Errors
        /\ call' = call /\ calls' = calls
    BY <1>1, TryType DEF TypeInv
  <1>3. CASE Fails(e)
    BY <1>2, <1>3 DEF Fails, Raise, Answer, TypeInv, TypeOK, AtWork, Counting, Replies
  <1>4. CASE /\ Looks /\ UNCHANGED reg
             /\ Answer("ok") \/ Answer("refused")
    BY <1>2, <1>4 DEF Looks, Answer, TypeInv, TypeOK, AtWork, Counting, Replies
  <1>5. CASE /\ Looks /\ call.tool \in Pointing
             /\ reg' = [reg EXCEPT !.target = target, !.clamped = beyond]
             /\ Goto("gimbal")
    <2>1. target \in Poses
      BY <1>5, AimedType
    <2>2. beyond \in BOOLEAN
      OBVIOUS
    <2> HIDE DEF target, beyond
    <2>3. reg' \in Regs
      BY <1>5, <2>1, <2>2 DEF TypeInv, TypeOK, Regs
    <2> QED
      BY <1>2, <1>5, <2>3
      DEF Looks, Goto, TypeInv, TypeOK, AtWork, Counting, Steps
  <1> QED  BY <1>1, <1>3, <1>4, <1>5

LEMMA GimbalType == ASSUME TypeInv, Gimbal PROVE TypeInv'
  <1> DEFINE wanted == IF call.tool = "move" THEN call.arg ELSE reg.target
             pose == Clamp(wanted, -PoseLimit, PoseLimit)
  <1>1. PICK e \in Outcomes :
           /\ Try(Reachable, e)
           /\ \/ Fails(e)
              \/ Order("pose", PoseOrdered(pose)) /\ AfterGimbal /\ UNCHANGED reg
    BY DEF Gimbal
  <1>2. /\ faults' \in Nat /\ errs' \in SUBSET Errors
        /\ call' = call /\ calls' = calls
    BY <1>1, TryType DEF TypeInv
  <1>3. CASE Fails(e)
    BY <1>2, <1>3 DEF Fails, Raise, Answer, TypeInv, TypeOK, AtWork, Counting, Replies
  <1>4. CASE Order("pose", PoseOrdered(pose)) /\ AfterGimbal /\ UNCHANGED reg
    <2>1. call.tool = "move" => call.arg \in -(PoseLimit + 1)..(PoseLimit + 1)
      BY ArgsType DEF TypeInv, TypeOK
    <2>2. wanted \in Int
      BY <2>1, DeviceAssumption DEF TypeInv, TypeOK, Regs, Poses
    <2>3. pose \in Poses
      <3>1. -PoseLimit \in Int /\ PoseLimit \in Int /\ -PoseLimit =< PoseLimit
        BY DeviceAssumption
      <3> HIDE DEF wanted
      <3> QED  BY <2>2, <3>1, ClampType DEF Poses
    <2>4. cam' \in Cameras
      BY <1>4, <2>3, OrderedType DEF Order, TypeInv, TypeOK
    <2>5. pc' \in {"done", "zoom"} /\ reply' \in Replies /\ AtWork'
      BY <1>2, <1>4
      DEF Gimbal, AfterGimbal, Answer, Goto, TypeInv, TypeOK, AtWork, Replies
    <2> QED
      BY <1>2, <1>4, <2>4, <2>5
      DEF Order, TypeInv, TypeOK, Counting, Steps, Axes
  <1> QED  BY <1>1, <1>3, <1>4

LEMMA ZoomSetType == ASSUME TypeInv, ZoomSet PROVE TypeInv'
  <1> DEFINE wanted == IF call.tool = "fit" THEN reg.zoom + 1 ELSE call.arg
             z == Clamp(wanted, 0, ZoomLimit)
  <1>1. PICK e \in Outcomes :
           /\ Try(Reachable, e)
           /\ \/ Fails(e)
              \/ /\ Order("zoom", Ordered("zoom", z))
                 /\ reg' = [reg EXCEPT !.zoom = z, !.left = ZoomPolls]
                 /\ Goto("zoompoll")
    BY DEF ZoomSet
  <1>2. /\ faults' \in Nat /\ errs' \in SUBSET Errors
        /\ call' = call /\ calls' = calls
    BY <1>1, TryType DEF TypeInv
  <1>3. CASE Fails(e)
    BY <1>2, <1>3 DEF Fails, Raise, Answer, TypeInv, TypeOK, AtWork, Counting, Replies
  <1>4. CASE /\ Order("zoom", Ordered("zoom", z))
             /\ reg' = [reg EXCEPT !.zoom = z, !.left = ZoomPolls]
             /\ Goto("zoompoll")
    <2>1. call.tool \in {"zoom", "fit"}
      BY DEF ZoomSet, TypeInv, AtWork
    <2>2. wanted \in Int
      <3>1. call.tool = "zoom" => call.arg \in 0..(ZoomLimit + 1)
        BY ArgsType DEF TypeInv, TypeOK
      <3>2. reg.zoom \in Int
        BY DEF TypeInv, TypeOK, Regs, Zooms
      <3> QED  BY <2>1, <3>1, <3>2
    <2>3. z \in Zooms
      <3>1. ZoomLimit \in Int /\ 0 =< ZoomLimit
        BY DeviceAssumption
      <3> HIDE DEF wanted
      <3> QED  BY <2>2, <3>1, ClampType DEF Zooms
    <2>4. cam' \in Cameras
      BY <1>4, <2>3, OrderedType DEF Order, TypeInv, TypeOK
    <2>5. reg' \in Regs /\ reg'.left > 0
      <3>1. ZoomPolls \in Nat /\ ZoomPolls > 0
        BY CameraAssumption
      <3> HIDE DEF z
      <3> QED  BY <1>4, <2>3, <3>1 DEF TypeInv, TypeOK, Regs
    <2> QED
      BY <1>2, <1>4, <2>1, <2>4, <2>5
      DEF Order, Goto, TypeInv, TypeOK, AtWork, Counting, Steps, Axes
  <1> QED  BY <1>1, <1>3, <1>4

LEMMA ZoomPollType == ASSUME TypeInv, ZoomPoll PROVE TypeInv'
  <1>1. PICK e \in Outcomes :
           /\ Try(Reachable, e)
           /\ \/ Set("good", TRUE) /\ Answer("ok") /\ Looks
              \/ /\ Set("left", reg.left - 1) /\ Naps
                 /\ IF reg.left = 1 THEN Answer("ok") ELSE Goto("zoompoll")
    BY DEF ZoomPoll
  <1>2. /\ faults' \in Nat /\ errs' \in SUBSET Errors
        /\ call' = call /\ calls' = calls
    BY <1>1, TryType DEF TypeInv
  <1>3. CASE Set("good", TRUE) /\ Answer("ok") /\ Looks
    BY <1>2, <1>3
    DEF Set, Answer, Looks, TypeInv, TypeOK, AtWork, Counting, Replies, Regs
  <1>4. CASE /\ Set("left", reg.left - 1) /\ Naps
             /\ IF reg.left = 1 THEN Answer("ok") ELSE Goto("zoompoll")
    <2>1. cam' \in Cameras
      BY <1>4, NapType DEF Naps, TypeInv, TypeOK
    <2>2. reg' \in Regs /\ (reg.left # 1 => reg'.left > 0)
      BY <1>4 DEF ZoomPoll, Set, TypeInv, TypeOK, Regs, Counting
    <2> QED
      BY <1>2, <1>4, <2>1, <2>2
      DEF ZoomPoll, Naps, Goto, Answer, TypeInv, TypeOK, AtWork, Counting, Steps, Replies
  <1> QED  BY <1>1, <1>3, <1>4

LEMMA AiBeforeType == ASSUME TypeInv, AiBefore PROVE TypeInv'
  <1>1. PICK e \in Outcomes :
           /\ Try(Reachable, e)
           /\ Set("ai", IF e = "fine" THEN cam.now.ai ELSE Unknown)
    BY DEF AiBefore
  <1>2. /\ faults' \in Nat /\ errs' \in SUBSET Errors
        /\ call' = call /\ calls' = calls
    BY <1>1, TryType DEF TypeInv
  <1>3. reg' \in Regs
    BY <1>1 DEF Set, TypeInv, TypeOK, Regs, Cameras, Places
  <1> QED
    BY <1>2, <1>3 DEF AiBefore, Goto, Looks, TypeInv, TypeOK, AtWork, Counting, Steps

LEMMA AiWriteType == ASSUME TypeInv, AiWrite PROVE TypeInv'
  <1>1. PICK e \in Outcomes :
           /\ Try(Reachable, e)
           /\ \/ Fails(e)
              \/ /\ Order("ai", Ordered("ai", call.arg))
                 /\ Set("left", VerifyPolls) /\ Goto("aipoll")
    BY DEF AiWrite
  <1>2. /\ faults' \in Nat /\ errs' \in SUBSET Errors
        /\ call' = call /\ calls' = calls
    BY <1>1, TryType DEF TypeInv
  <1>3. CASE Fails(e)
    BY <1>2, <1>3 DEF Fails, Raise, Answer, TypeInv, TypeOK, AtWork, Counting, Replies
  <1>4. CASE /\ Order("ai", Ordered("ai", call.arg))
             /\ Set("left", VerifyPolls) /\ Goto("aipoll")
    <2>1. call.tool = "track" /\ call.arg \in Modes \cup {NoTracking}
      BY ArgsType DEF AiWrite, TypeInv, TypeOK, AtWork
    <2>2. cam' \in Cameras
      BY <1>4, <2>1, OrderedType DEF Order, TypeInv, TypeOK
    <2>3. reg' \in Regs /\ reg'.left > 0
      <3>1. VerifyPolls \in Nat /\ VerifyPolls > 0
        BY CameraAssumption
      <3> QED  BY <1>4, <3>1 DEF Set, TypeInv, TypeOK, Regs
    <2> QED
      BY <1>2, <1>4, <2>1, <2>2, <2>3
      DEF Order, Goto, TypeInv, TypeOK, AtWork, Counting, Steps, Axes
  <1> QED  BY <1>1, <1>3, <1>4

LEMMA AiPollType == ASSUME TypeInv, AiPoll PROVE TypeInv'
  <1>1. PICK e \in Outcomes :
           LET verified == IF e = "fine" THEN cam.now.ai ELSE Unknown IN
           /\ Try(Reachable, e)
           /\ \/ Set("good", TRUE) /\ Answer("ok")
              \/ /\ Set("left", reg.left - 1)
                 /\ IF Landed(verified) \/ reg.left = 1
                    THEN Answer("ok") ELSE Goto("aipoll")
    BY DEF AiPoll
  <1>2. /\ faults' \in Nat /\ errs' \in SUBSET Errors
        /\ call' = call /\ calls' = calls
    BY <1>1, TryType DEF TypeInv
  <1>3. cam' \in Cameras /\ UNCHANGED <<frame, wrote>>
    BY NapType DEF AiPoll, Naps, Looks, TypeInv, TypeOK
  <1>4. CASE Set("good", TRUE) /\ Answer("ok")
    BY <1>2, <1>3, <1>4
    DEF Set, Answer, TypeInv, TypeOK, AtWork, Counting, Replies, Regs
  <1>5. CASE /\ Set("left", reg.left - 1)
             /\ Answer("ok") \/ (reg.left # 1 /\ Goto("aipoll"))
    <2>1. reg' \in Regs /\ (reg.left # 1 => reg'.left > 0)
      BY <1>5 DEF AiPoll, Set, TypeInv, TypeOK, Regs, Counting
    <2> QED
      BY <1>2, <1>3, <1>5, <2>1
      DEF AiPoll, Goto, Answer, TypeInv, TypeOK, AtWork, Counting, Steps, Replies
  <1> QED  BY <1>1, <1>4, <1>5

LEMMA GrabType == ASSUME TypeInv, Grab PROVE TypeInv'
  <1>1. PICK e \in Outcomes :
           /\ Try(Reachable, e)
           /\ \/ Answer("error") /\ UNCHANGED frame
              \/ /\ Answer("ok")
                 /\ frame' = [frame EXCEPT ![call.client] = Shown]
    BY DEF Grab
  <1>2. /\ faults' \in Nat /\ errs' \in SUBSET Errors
        /\ call' = call /\ calls' = calls
    BY <1>1, TryType DEF TypeInv
  <1>3. Shown \in Frames
    BY DEF Shown, Frames, TypeInv, TypeOK, Cameras, Places
  <1>4. frame' \in [Clients -> Frames \cup {NoFrame}]
    BY <1>1, <1>3 DEF TypeInv, TypeOK
  <1> QED
    BY <1>1, <1>2, <1>4 DEF Grab, Answer, TypeInv, TypeOK, AtWork, Counting, Replies

LEMMA BeginType ==
    ASSUME TypeInv, NEW c \in Clients, NEW tool \in Tools,
           NEW arg \in ArgsOf(tool), Begin(c, tool, arg)
    PROVE  TypeInv'
  <1>1. call' = [client |-> c, tool |-> tool, arg |-> arg]
    BY DEF Begin
  <1>2. tool \in AllTools
    BY CameraAssumption
  <1> QED
    BY <1>1, <1>2 DEF Begin, TypeInv, TypeOK, AtWork, Counting, Steps

LEMMA DeliverType == ASSUME TypeInv, Deliver PROVE TypeInv'
  <1>1. NoRegs \in Regs
    BY DeviceAssumption DEF NoRegs, Regs, Zooms, Poses
  <1> QED
    BY <1>1 DEF Deliver, TypeInv, TypeOK, AtWork, Counting, Replies

LEMMA CameraType ==
    ASSUME TypeInv, Settle \/ Move \/ PullOut \/ PlugIn
    PROVE  TypeInv'
  <1>1. cam' \in Cameras
    BY SettlesType, MovesType, PlugType
    DEF Settle, Move, PullOut, PlugIn, TypeInv, TypeOK
  <1>2. UNCHANGED worker /\ faults' \in Nat
    BY DEF Settle, Move, PullOut, PlugIn, TypeInv, TypeOK
  <1> QED
    BY <1>1, <1>2 DEF worker, TypeInv, TypeOK, AtWork, Counting

LEMMA NextType == TypeInv /\ [Next]_vars => TypeInv'
  <1> SUFFICES ASSUME TypeInv, [Next]_vars PROVE TypeInv'
    OBVIOUS
  <1>1. CASE Work
    BY <1>1, FindType, LookType, SendWakeType, WakePollType, WakeSettleType,
       SleepType, SteadyType, ReportType, ReadbackType, GimbalType,
       ZoomSetType, ZoomPollType, AiBeforeType, AiWriteType, AiPollType,
       GrabType
    DEF Work
  <1>2. CASE Deliver
    BY <1>2, DeliverType
  <1>3. CASE Settle \/ Move \/ PullOut \/ PlugIn
    BY <1>3, CameraType
  <1>4. CASE \E c \in Clients, tool \in Tools :
                \E arg \in ArgsOf(tool) : Begin(c, tool, arg)
    BY <1>4, BeginType
  <1>5. CASE UNCHANGED vars
    BY <1>5 DEF vars, TypeInv, TypeOK, AtWork, Counting
  <1> QED  BY <1>1, <1>2, <1>3, <1>4, <1>5 DEF Next

(* The daemon never holds or commands anything out of range: what gimbal_set *)
(* and zoom_set send is clamped, whatever the arguments.                   *)
THEOREM TypeCorrect == Spec => []TypeOK
  <1>1. TypeInv => TypeOK
    BY DEF TypeInv
  <1> QED  BY InitType, NextType, <1>1, PTL DEF Spec

-----------------------------------------------------------------------------
(* What has been commanded by each step.                                   *)
Deeds ==
    /\ pc \in {"idle", "find", "look", "wake", "wakepoll", "settle", "steady",
               "again", "report", "readback"}
          => wrote \subseteq {"run"}
    /\ pc = "zoom" /\ call.tool = "fit" => "pose" \in wrote
    /\ pc = "zoompoll"
          => "zoom" \in wrote /\ (call.tool = "fit" => "pose" \in wrote)
    /\ pc = "aipoll" => "ai" \in wrote
    /\ AnswerTellsDeeds

DeedsInv == TypeInv /\ Deeds

LEMMA Purposes ==
    /\ Purpose("aim") = {"pose"} /\ Purpose("move") = {"pose"}
    /\ Purpose("fit") = {"pose", "zoom"} /\ Purpose("zoom") = {"zoom"}
    /\ Purpose("track") = {"ai"} /\ Purpose("sleep") = {"run"}
    /\ \A t \in {"wake", "snapshot", "status", "position"} : Purpose(t) = {}
  BY DEF Purpose

LEMMA SameCall ==
    /\ \A there, e : Try(there, e) => call' = call
    /\ Work => call' = call
  <1>1. \A there, e : Try(there, e) => call' = call
    BY DEF Try
  <1>2. Work => call' = call
    BY <1>1 DEF Work, Find, Look, SendWake, WakePoll, WakeSettle, Sleep,
       Steady, SteadyAgain, Report, Readback, Gimbal, ZoomSet, ZoomPoll,
       AiBefore, AiWrite, AiPoll, Grab
  <1> QED  BY <1>1, <1>2

(* A failure promises nothing.                                             *)
LEMMA FailsDeeds == \A e : Fails(e) => Deeds'
  BY DEF Fails, Raise, Answer, Deeds, AnswerTellsDeeds

LEMMA ProceedDeeds ==
    ASSUME TypeInv, call' = call, call.tool \in Waking,
           wrote \subseteq {"run"}, wrote' = wrote,
           Proceed(TRUE) \/ Proceed(FALSE)
    PROVE  Deeds'
  BY Purposes DEF Proceed, Goto, Answer, Deeds, AnswerTellsDeeds, Waking, Pointing

LEMMA WakingDeeds ==
    ASSUME DeedsInv, Find \/ Look \/ SendWake \/ WakePoll \/ WakeSettle
    PROVE  Deeds'
  <1> USE SameCall DEF DeedsInv
  <1>1. CASE Find
    BY <1>1 DEF Find, Looks, Goto, Answer, Entry, Deeds, AnswerTellsDeeds
  <1>2. CASE Look
    BY <1>2, ProceedDeeds
    DEF Look, Looks, Goto, Deeds, AnswerTellsDeeds, TypeInv, AtWork
  <1>3. CASE SendWake
    BY <1>3, FailsDeeds DEF SendWake, Order, Goto, Deeds, AnswerTellsDeeds
  <1>4. CASE WakePoll
    BY <1>4 DEF WakePoll, Naps, Goto, Deeds, AnswerTellsDeeds
  <1>5. CASE WakeSettle
    BY <1>5, ProceedDeeds DEF WakeSettle, Naps, Deeds, TypeInv, AtWork
  <1> QED  BY <1>1, <1>2, <1>3, <1>4, <1>5

LEMMA AimingDeeds ==
    ASSUME DeedsInv, Steady \/ SteadyAgain \/ Report \/ Readback \/ Gimbal
    PROVE  Deeds'
  <1> USE SameCall, FailsDeeds DEF DeedsInv
  <1>1. CASE Steady
    BY <1>1 DEF Steady, Naps, Goto, Deeds, AnswerTellsDeeds
  <1>2. CASE SteadyAgain
    BY <1>2
    DEF SteadyAgain, Looks, Raise, Goto, Answer, Deeds, AnswerTellsDeeds
  <1>3. CASE Report
    BY <1>3 DEF Report, Looks, Goto, Deeds, AnswerTellsDeeds
  <1>4. CASE Readback
    BY <1>4, Purposes
    DEF Readback, Looks, Goto, Answer, Deeds, AnswerTellsDeeds, TypeInv, AtWork
  <1>5. CASE Gimbal
    BY <1>5, Purposes
    DEF Gimbal, Order, AfterGimbal, Goto, Answer, Deeds, AnswerTellsDeeds,
        TypeInv, AtWork, Pointing
  <1> QED  BY <1>1, <1>2, <1>3, <1>4, <1>5

LEMMA OtherDeeds ==
    ASSUME DeedsInv,
           \/ Sleep \/ ZoomSet \/ ZoomPoll
           \/ AiBefore \/ AiWrite \/ AiPoll \/ Grab
    PROVE  Deeds'
  <1>1. CASE Sleep
    BY <1>1, SameCall, FailsDeeds, Purposes
    DEF DeedsInv, Sleep, Order, Answer, Deeds, AnswerTellsDeeds, TypeInv, AtWork
  <1>2. CASE ZoomSet
    BY <1>2, SameCall, FailsDeeds, Purposes
    DEF DeedsInv, ZoomSet, Order, Goto, Deeds, AnswerTellsDeeds
  <1>3. CASE ZoomPoll
    <2>1. call' = call /\ wrote' = wrote /\ pc' \in {"done", "zoompoll"}
      BY <1>3, SameCall DEF ZoomPoll, Looks, Naps, Goto, Answer
    <2>2. /\ call.tool \in {"zoom", "fit"} /\ "zoom" \in wrote
          /\ call.tool = "fit" => "pose" \in wrote
      BY <1>3 DEF ZoomPoll, DeedsInv, Deeds, TypeInv, AtWork
    <2>3. pc' = "done" => reply' = "ok"
      BY <1>3 DEF ZoomPoll, Goto, Answer
    <2> QED  BY <2>1, <2>2, <2>3, Purposes DEF Deeds, AnswerTellsDeeds
  <1>4. CASE AiBefore
    BY <1>4, SameCall, FailsDeeds, Purposes
    DEF DeedsInv, AiBefore, Goto, Deeds, AnswerTellsDeeds
  <1>5. CASE AiWrite
    BY <1>5, SameCall, FailsDeeds, Purposes
    DEF DeedsInv, AiWrite, Order, Goto, Deeds, AnswerTellsDeeds
  <1>6. CASE AiPoll
    <2>1. call' = call /\ wrote' = wrote /\ pc' \in {"done", "aipoll"}
      BY <1>6, SameCall DEF AiPoll, Looks, Naps, Goto, Answer, DeedsInv
    <2>2. call.tool = "track" /\ "ai" \in wrote
      BY <1>6, Purposes DEF AiPoll, DeedsInv, Deeds, TypeInv, AtWork
    <2>3. pc' = "done" => reply' = "ok"
      BY <1>6 DEF AiPoll, Goto, Answer
    <2> QED  BY <2>1, <2>2, <2>3, Purposes DEF Deeds, AnswerTellsDeeds
  <1>7. CASE Grab
    BY <1>7, SameCall, FailsDeeds, Purposes
    DEF DeedsInv, Grab, Answer, Deeds, AnswerTellsDeeds, TypeInv, AtWork
  <1> QED  BY <1>1, <1>2, <1>3, <1>4, <1>5, <1>6, <1>7

LEMMA NextDeeds == DeedsInv /\ [Next]_vars => DeedsInv'
  <1> SUFFICES ASSUME DeedsInv, [Next]_vars PROVE Deeds'
    BY NextType DEF DeedsInv
  <1>1. CASE Work
    BY <1>1, WakingDeeds, AimingDeeds, OtherDeeds DEF Work
  <1>2. CASE Deliver
    BY <1>2 DEF Deliver, Deeds, AnswerTellsDeeds
  <1>3. CASE UNCHANGED <<pc, call, reply, wrote>>
    BY <1>3 DEF DeedsInv, Deeds, AnswerTellsDeeds
  <1>4. CASE Settle \/ Move \/ PullOut \/ PlugIn \/ UNCHANGED vars
    BY <1>3, <1>4 DEF Settle, Move, PullOut, PlugIn, worker, vars
  <1>5. CASE \E c \in Clients, tool \in Tools :
                \E arg \in ArgsOf(tool) : Begin(c, tool, arg)
    BY <1>5 DEF Begin, DeedsInv, Deeds, AnswerTellsDeeds
  <1> QED  BY <1>1, <1>2, <1>4, <1>5 DEF Next

(* A refused call has issued no command but the wake that is its reason,   *)
(* and a call that is answered ok has issued all that its tool is for, with *)
(* any faults, unplugs and replugs in between.                             *)
THEOREM AnswersHonest == Spec => []AnswerTellsDeeds
  <1>1. Init => DeedsInv
    BY InitType DEF Init, DeedsInv, Deeds, AnswerTellsDeeds
  <1>2. DeedsInv => AnswerTellsDeeds
    BY DEF DeedsInv, Deeds
  <1> QED  BY <1>1, NextDeeds, <1>2, PTL DEF Spec

-----------------------------------------------------------------------------
(* Where the zoom and the AI mode are sent while a method polls for them:  *)
(* to what it commanded, unless the camera lost its power since, and then  *)
(* it stands still.                                                        *)
Sent ==
    /\ pc # "done" => ~reg.good
    /\ pc = "zoompoll" => cam.goal.zoom = reg.zoom \/ ~Pending("zoom")
    /\ pc = "aipoll" => cam.goal.ai = call.arg \/ ~Pending("ai")
    /\ SettledIsThere

SentInv == TypeInv /\ Sent

LEMMA OnItsWay ==
    ASSUME cam \in Cameras, NEW k \in {"zoom", "ai"},
           Nap \/ Settles \/ Moves
    PROVE  /\ cam'.goal[k] = cam.goal[k] \/ ~Pending(k)'
           /\ ~Pending(k) => ~Pending(k)'
  <1>1. CASE Nap
    <2> DEFINE due == [j \in Axes |-> IF Pending(j) THEN cam.due[j] - 1 ELSE 0]
    <2>1. PICK z \in Zooms :
             /\ ~Pending("zoom") => z = cam.now.zoom
             /\ cam' = [cam EXCEPT !.now.zoom = z, !.due = due]
      BY <1>1 DEF Nap
    <2> HIDE DEF due
    <2> QED  BY <2>1 DEF Pending, Cameras, Places
  <1>2. CASE Stows
    BY <1>2 DEF Stows, Pending, Cameras, Places
  <1>3. CASE Wakes
    <2>1. /\ Levelled.now[k] = cam.now[k] /\ Levelled.goal[k] = cam.goal[k]
          /\ Levelled \in Cameras
      BY <1>3, WakesIs
    <2>2. CASE cam' = Levelled
      BY <2>1, <2>2 DEF Pending
    <2>3. ASSUME NEW mode \in Modes,
                 cam' = [Levelled EXCEPT !.now.ai = mode, !.goal.ai = mode,
                                         !.due.ai = 0]
          PROVE  /\ cam'.goal[k] = cam.goal[k] \/ ~Pending(k)'
                 /\ ~Pending(k) => ~Pending(k)'
      BY <2>1, <2>3 DEF Pending, Cameras, Places
    <2> QED  BY <1>3, <2>2, <2>3, WakesIs
  <1>4. ASSUME NEW j \in Axes \ {"run"}, Arrives(j)
        PROVE  cam'.goal[k] = cam.goal[k] /\ (~Pending(k) => ~Pending(k)')
    BY <1>4 DEF Arrives, Pending, Cameras, Places, Axes
  <1>5. CASE ZoomTravels
    <2>1. cam.now.zoom \in Int /\ cam.goal.zoom \in Int
      BY DEF Cameras, Places, Zooms
    <2>2. PICK z \in Zooms \ {cam.now.zoom, cam.goal.zoom} :
             /\ (cam.now.zoom < z) = (z < cam.goal.zoom)
             /\ cam' = [cam EXCEPT !.now.zoom = z]
      BY <1>5 DEF ZoomTravels
    <2>3. z \in Int
      BY DEF Zooms
    <2>4. Pending("zoom")
      BY <2>1, <2>2, <2>3 DEF Pending
    <2> QED  BY <2>2, <2>4 DEF Pending, Cameras, Places
  <1>6. CASE AiLeaves
    BY <1>6 DEF AiLeaves, Pending, Cameras, Places
  <1>7. CASE Follows
    <2>1. PICK p \in Poses : cam' = [cam EXCEPT !.now.pose = p, !.goal.pose = p,
                                               !.due.pose = 0]
      BY <1>7 DEF Follows
    <2> QED  BY <2>1 DEF Pending, Cameras, Places
  <1>8. CASE Settles
    BY <1>2, <1>3, <1>4, <1>8 DEF Settles
  <1>9. CASE Moves
    BY <1>5, <1>6, <1>7, <1>9 DEF Moves
  <1> QED  BY <1>1, <1>8, <1>9

LEMMA PowerCalms ==
    ASSUME Unplug \/ Replug, NEW k \in {"zoom", "ai"} PROVE ~Pending(k)'
  BY DEF Unplug, Replug, Fresh, PowerOn, Pending

(* A step of the camera leaves the worker where it is.                     *)
LEMMA CameraSent ==
    ASSUME SentInv, Settle \/ Move \/ PullOut \/ PlugIn
    PROVE  Sent'
  <1>1. UNCHANGED worker
    BY DEF Settle, Move, PullOut, PlugIn
  <1>2. CASE Settle \/ Move
    <2>1. \A k \in {"zoom", "ai"} :
             /\ cam'.goal[k] = cam.goal[k] \/ ~Pending(k)'
             /\ ~Pending(k) => ~Pending(k)'
      BY <1>2, OnItsWay DEF Settle, Move, SentInv, TypeInv, TypeOK
    <2> QED
      BY <1>1, <2>1 DEF worker, SentInv, Sent, SettledIsThere, Ends
  <1>3. CASE PullOut \/ PlugIn
    <2>1. \A k \in {"zoom", "ai"} : ~Pending(k)'
      BY <1>3, PowerCalms DEF PullOut, PlugIn
    <2> QED
      BY <1>1, <2>1 DEF worker, SentInv, Sent, SettledIsThere, Ends
  <1> QED  BY <1>2, <1>3

(* Every step but those of the polls starts none and settles nothing.      *)
LEMMA PlainSent ==
    ASSUME SentInv, pc' \notin {"zoompoll", "aipoll"}, reg'.good = reg.good,
           pc # "done"
    PROVE  Sent'
  BY DEF SentInv, Sent, SettledIsThere, Ends

LEMMA WorkSent == ASSUME SentInv, Work PROVE Sent'
  <1> USE DEF SentInv
  <1>1. CASE Find \/ Look \/ SendWake \/ WakePoll \/ WakeSettle
    <2>1. pc' \notin {"zoompoll", "aipoll"} /\ pc # "done"
      BY <1>1 DEF Find, Look, SendWake, WakePoll, WakeSettle, Fails, Raise,
         Proceed, Goto, Answer, Entry, TypeInv, AtWork, Waking, Pointing
    <2>2. reg'.good = reg.good
      BY <1>1 DEF Find, Look, SendWake, WakePoll, WakeSettle, Fails, Set,
         TypeInv, TypeOK, Regs
    <2> QED  BY <2>1, <2>2, PlainSent
  <1>2. CASE \/ Steady \/ SteadyAgain \/ Report \/ Readback \/ Gimbal
             \/ Sleep \/ AiBefore \/ Grab
    <2>1. pc' \notin {"zoompoll", "aipoll"} /\ pc # "done"
      BY <1>2 DEF Steady, SteadyAgain, Report, Readback, Gimbal, Sleep,
         AiBefore, Grab, AfterGimbal, Fails, Raise, Goto, Answer
    <2>2. reg'.good = reg.good
      BY <1>2 DEF Steady, SteadyAgain, Report, Readback, Gimbal, Sleep,
         AiBefore, Grab, Fails, Set, TypeInv, TypeOK, Regs
    <2> QED  BY <2>1, <2>2, PlainSent
  <1>3. CASE ZoomSet
    <2>1. CASE UNCHANGED reg /\ pc' = "done"
      BY <1>3, <2>1, PlainSent DEF ZoomSet
    <2>2. ASSUME NEW z, Order("zoom", Ordered("zoom", z)),
                 reg' = [reg EXCEPT !.zoom = z, !.left = ZoomPolls],
                 Goto("zoompoll")
          PROVE  Sent'
      BY <1>3, <2>2
      DEF ZoomSet, Order, Ordered, Goto, Sent, SettledIsThere, Ends, TypeInv,
          TypeOK, Regs, Cameras, Places, Axes
    <2> QED  BY <1>3, <2>1, <2>2 DEF ZoomSet, Fails, Raise, Answer
  <1>4. CASE AiWrite
    <2>1. CASE UNCHANGED reg /\ pc' = "done"
      BY <1>4, <2>1, PlainSent DEF AiWrite
    <2>2. CASE /\ Order("ai", Ordered("ai", call.arg))
               /\ Set("left", VerifyPolls) /\ Goto("aipoll") /\ call' = call
      BY <1>4, <2>2
      DEF AiWrite, Order, Ordered, Set, Goto, Sent, SettledIsThere, Ends,
          TypeInv, TypeOK, Regs, Cameras, Places, Axes
    <2> QED  BY <1>4, <2>1, <2>2, SameCall DEF AiWrite, Fails, Raise, Answer
  <1>5. CASE ZoomPoll
    <2>1. call' = call /\ reg'.zoom = reg.zoom
      BY <1>5, SameCall DEF Work, ZoomPoll, Set, TypeInv, TypeOK, Regs
    <2>2. CASE cam' = cam /\ ZoomThere /\ pc' = "done"
      <3>1. ~Pending("zoom")
        BY <1>5, <2>2
        DEF ZoomPoll, Sent, ZoomThere, Pending, TypeInv, TypeOK, Cameras, Places
      <3>2. ~Pending("zoom")'
        BY <2>2, <3>1 DEF Pending
      <3> QED  BY <2>2, <3>2 DEF Sent, SettledIsThere
    <2>3. CASE /\ Set("left", reg.left - 1) /\ Nap
               /\ pc' = "done" \/ pc' = "zoompoll"
      <3>1. /\ cam'.goal.zoom = cam.goal.zoom \/ ~Pending("zoom")'
            /\ ~Pending("zoom") => ~Pending("zoom")'
        BY <2>3, OnItsWay DEF TypeInv, TypeOK
      <3>2. reg'.good = reg.good
        BY <2>3 DEF Set, TypeInv, TypeOK, Regs
      <3> QED
        BY <1>5, <2>1, <2>3, <3>1, <3>2
        DEF ZoomPoll, Sent, SettledIsThere, Ends
    <2> QED
      BY <1>5, <2>2, <2>3 DEF ZoomPoll, Looks, Naps, Goto, Answer
  <1>6. CASE AiPoll
    <2>1. call' = call /\ call.tool = "track" /\ pc' \in {"done", "aipoll"}
      BY <1>6, SameCall DEF Work, AiPoll, Goto, Answer, TypeInv, AtWork
    <2>2. pc' = "aipoll" => reg'.good = reg.good
      BY <1>6 DEF AiPoll, Set, Goto, Answer, TypeInv, TypeOK, Regs
    <2>3. /\ cam'.goal.ai = cam.goal.ai \/ ~Pending("ai")'
          /\ ~Pending("ai") => ~Pending("ai")'
      BY <1>6, OnItsWay DEF AiPoll, Naps, Looks, TypeInv, TypeOK, Pending
    <2> QED
      BY <1>6, <2>1, <2>2, <2>3 DEF AiPoll, Sent, SettledIsThere, Ends
  <1> QED  BY <1>1, <1>2, <1>3, <1>4, <1>5, <1>6 DEF Work

LEMMA NextSent == SentInv /\ [Next]_vars => SentInv'
  <1> SUFFICES ASSUME SentInv, [Next]_vars PROVE Sent'
    BY NextType DEF SentInv
  <1>1. CASE Deliver
    BY <1>1 DEF Deliver, NoRegs, Sent, SettledIsThere, Ends
  <1>2. CASE \E c \in Clients, tool \in Tools :
                \E arg \in ArgsOf(tool) : Begin(c, tool, arg)
    BY <1>2 DEF Begin, SentInv, Sent, SettledIsThere, Ends
  <1>3. CASE UNCHANGED vars
    BY <1>3 DEF vars, SentInv, Sent, SettledIsThere, Ends, Pending
  <1> QED  BY WorkSent, CameraSent, <1>1, <1>2, <1>3 DEF Next

(* settled=true is true: no zoom is under way when obsbot_zoom or           *)
(* obsbot_zoom_to_fit says so, nor later, until the next command.          *)
THEOREM SettledHonest == Spec => []SettledIsThere
  <1>1. Init => SentInv
    BY InitType DEF Init, NoRegs, SentInv, Sent, SettledIsThere, Ends
  <1>2. SentInv => SettledIsThere
    BY DEF SentInv, Sent
  <1> QED  BY <1>1, NextSent, <1>2, PTL DEF Spec
=============================================================================
