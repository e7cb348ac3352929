------------------------- MODULE CameraTimelyProofs -------------------------
(***************************************************************************)
(* What the tools of Camera promise of a camera that keeps its times, for  *)
(* every set of clients, every range, latency and number of polls: that a  *)
(* wake, a zoom and a switch of the AI mode are over when the loop that    *)
(* waits for them is, and what follows from it.                            *)
(*                                                                         *)
(* The camera is reliable (MaxFaults = 0).  An axis is then under way only *)
(* while its loop polls, and the naps that are left to the loop cover what *)
(* is left of the latency (RunInTime, AiInTime).  A zoom may outlast its   *)
(* poll: the aims rest on its being seen to move (Measured).               *)
(*                                                                         *)
(* The last section has the arithmetic that the aims rest on, for any      *)
(* camera at all.                                                          *)
(***************************************************************************)
EXTENDS CameraProofs, MCCamera, FunctionProofs

(* Nothing fails any more, and the camera is where it was.                 *)
Reliable == faults = 0 /\ cam.plugged /\ cam.node = 1 /\ reg.node = 1

-----------------------------------------------------------------------------
(* What the camera does, axis by axis.  A nap takes one off the time left  *)
(* and moves no axis but a zoom under way; the camera's own steps change no*)
(* goal, disturb no axis at rest, and add no time, but that tracking may   *)
(* start when the camera wakes.                                            *)
Waited == {"run", "zoom", "ai"}

LEMMA NapCounts ==
    ASSUME cam \in Cameras, Nap
    PROVE  /\ cam'.goal = cam.goal /\ cam'.cache = cam.cache
           /\ cam'.plugged = cam.plugged /\ cam'.node = cam.node
           /\ cam'.now.run = cam.now.run /\ cam'.now.ai = cam.now.ai
           /\ ~Pending("zoom") => cam'.now.zoom = cam.now.zoom
           /\ ZoomShows /\ Pending("zoom") => Ahead(cam'.now.zoom)
           /\ \A k \in Axes : Pending(k) => /\ cam.due[k] > 0
                                            /\ cam'.due[k] = cam.due[k] - 1
  <1> DEFINE due == [k \in Axes |-> IF Pending(k) THEN cam.due[k] - 1 ELSE 0]
  <1>1. PICK z \in Zooms :
           /\ IF Pending("zoom") /\ ZoomShows THEN Ahead(z) ELSE z = cam.now.zoom
           /\ cam' = [cam EXCEPT !.now.zoom = z, !.due = due]
    BY DEF Nap
  <1>2. \A k \in Axes : Pending(k) => cam.due[k] > 0 /\ due[k] = cam.due[k] - 1
    BY DEF Nap
  <1> HIDE DEF due
  <1>3. cam'.now.zoom = z /\ cam'.due = due
    BY <1>1 DEF Cameras, Places
  <1> QED  BY <1>1, <1>2, <1>3 DEF Cameras, Places

LEMMA OwnSteps ==
    ASSUME cam \in Cameras, Settles \/ Moves, NEW k \in Waited
    PROVE  /\ cam'.plugged = cam.plugged /\ cam'.node = cam.node
           /\ cam'.cache = cam.cache
           /\ k # "ai" \/ ~Pending("run") =>
                 /\ cam'.goal[k] = cam.goal[k]
                 /\ ~Pending(k) => cam'.now[k] = cam.now[k]
           /\ Pending(k)' => Pending(k) /\ cam'.due[k] = cam.due[k]
           /\ ~Pending("run") => cam'.now.ai \in {cam.now.ai, Unknown, cam.goal.ai}
  <1> USE DEF Waited, Pending, Cameras, Places, Axes
  <1>1. CASE Stows
    BY <1>1 DEF Stows
  <1>2. CASE Wakes
    <2>0. /\ cam.now.run = "asleep" /\ cam.goal.run = "awake"
          /\ Levelled \in Cameras
      BY <1>2, WakesIs DEF Wakes
    <2>1. /\ Levelled.plugged = cam.plugged /\ Levelled.node = cam.node
          /\ Levelled.cache = cam.cache /\ Levelled.goal[k] = cam.goal[k]
          /\ Levelled.now[k] = IF k = "run" THEN "awake" ELSE cam.now[k]
          /\ k # "run" => Levelled.due[k] = cam.due[k]
      BY <2>0 DEF Levelled
    <2>2. CASE cam' = Levelled
      BY <2>0, <2>1, <2>2
    <2>3. ASSUME NEW mode \in Modes,
                 cam' = [Levelled EXCEPT !.now.ai = mode, !.goal.ai = mode,
                                         !.due.ai = 0]
          PROVE  /\ cam'.plugged = cam.plugged /\ cam'.node = cam.node
                 /\ cam'.cache = cam.cache
                 /\ k # "ai" => /\ cam'.goal[k] = cam.goal[k]
                                /\ ~Pending(k) => cam'.now[k] = cam.now[k]
                 /\ Pending(k)' => Pending(k) /\ cam'.due[k] = cam.due[k]
      BY <2>0, <2>1, <2>3
    <2> QED  BY <1>2, <2>0, <2>2, <2>3, WakesIs
  <1>3. ASSUME NEW j \in Axes \ {"run"}, Arrives(j)
        PROVE  /\ cam'.plugged = cam.plugged /\ cam'.node = cam.node
               /\ cam'.cache = cam.cache
               /\ cam'.goal[k] = cam.goal[k]
               /\ ~Pending(k) => cam'.now[k] = cam.now[k]
               /\ Pending(k)' => Pending(k) /\ cam'.due[k] = cam.due[k]
               /\ cam'.now.ai \in {cam.now.ai, Unknown, cam.goal.ai}
    BY <1>3 DEF Arrives
  <1>4. CASE ZoomTravels
    <2>1. cam.now.zoom \in Int /\ cam.goal.zoom \in Int
      BY DEF Zooms
    <2>2. PICK z \in Zooms \ {cam.now.zoom, cam.goal.zoom} :
             /\ (cam.now.zoom < z) = (z < cam.goal.zoom)
             /\ cam' = [cam EXCEPT !.now.zoom = z]
      BY <1>4 DEF ZoomTravels
    <2>3. z \in Int
      BY DEF Zooms
    <2>4. cam.now.zoom # cam.goal.zoom
      BY <2>1, <2>2, <2>3
    <2> QED  BY <2>2, <2>4
  <1>5. CASE AiLeaves
    BY <1>5 DEF AiLeaves
  <1>6. CASE Follows
    <2>1. PICK p \in Poses : cam' = [cam EXCEPT !.now.pose = p, !.goal.pose = p,
                                               !.due.pose = 0]
      BY <1>6 DEF Follows
    <2> QED  BY <2>1
  <1> QED  BY <1>1, <1>2, <1>3, <1>4, <1>5, <1>6 DEF Settles, Moves

LEMMA OrderedAxis ==
    ASSUME cam \in Cameras, NEW k \in Axes, NEW v, cam' = Ordered(k, v)
    PROVE  /\ cam'.now = cam.now /\ cam'.cache = cam.cache
           /\ cam'.plugged = cam.plugged /\ cam'.node = cam.node
           /\ cam'.goal[k] = v
           /\ cam'.due[k] = IF cam.now[k] = v THEN 0 ELSE Latency[k]
           /\ \A j \in Axes \ {k} : /\ cam'.goal[j] = cam.goal[j]
                                    /\ cam'.due[j] = cam.due[j]
  BY DEF Ordered, Cameras, Places, Axes

LEMMA PoseOrderedAxis ==
    ASSUME cam \in Cameras, NEW v, cam' = PoseOrdered(v)
    PROVE  /\ cam'.now = cam.now /\ cam'.cache = v
           /\ cam'.plugged = cam.plugged /\ cam'.node = cam.node
           /\ Awake /\ ~Pending("run") => cam'.goal.pose = v
           /\ \A j \in Waited : /\ cam'.goal[j] = cam.goal[j]
                                /\ cam'.due[j] = cam.due[j]
  <1>1. CASE Awake /\ ~Pending("run")
    BY <1>1 DEF PoseOrdered, Ordered, Cameras, Places, Axes, Waited
  <1>2. CASE ~(Awake /\ ~Pending("run"))
    BY <1>2 DEF PoseOrdered, Cameras, Waited
  <1> QED  BY <1>1, <1>2

LEMMA SleepOrderedAxis ==
    ASSUME cam \in Cameras, cam' = SleepOrdered
    PROVE  /\ cam'.plugged = cam.plugged /\ cam'.node = cam.node
           /\ SleepShows => ~Pending("run")'
           /\ \A j \in {"zoom", "ai"} :
                 /\ cam'.now[j] = cam.now[j] /\ cam'.goal[j] = cam.goal[j]
                 /\ cam'.due[j] = cam.due[j]
  <1> DEFINE o == Ordered("run", "asleep")
  <1>1. o \in Cameras
    BY OrderedType
  <1>2. /\ o.now = cam.now /\ o.plugged = cam.plugged /\ o.node = cam.node
        /\ o.goal.run = "asleep"
        /\ \A j \in {"zoom", "ai"} : o.goal[j] = cam.goal[j] /\ o.due[j] = cam.due[j]
    BY DEF Ordered, Cameras, Places, Axes
  <1>3. cam' = IF SleepShows
               THEN [o EXCEPT !.now.run = "asleep", !.due.run = 0,
                              !.now.pose = Stowed, !.goal.pose = Stowed,
                              !.due.pose = 0]
               ELSE o
    BY DEF SleepOrdered
  <1> HIDE DEF o
  <1> QED  BY <1>1, <1>2, <1>3 DEF Cameras, Places, Axes, Pending

-----------------------------------------------------------------------------
(* Without faults every access is fine and nothing is unplugged.           *)
LEMMA Fine ==
    ASSUME Reliable
    PROVE  \A e : Try(Reachable, e) \/ Try(cam.plugged, e)
                     => e = "fine" /\ faults' = faults /\ call' = call
  BY DeviceAssumption DEF Reliable, Reachable, Try

LEMMA WorkReliable == ASSUME TypeInv, Reliable, Work PROVE Reliable' /\ call' = call
  <1> USE Fine DEF Reliable
  <1>0. cam \in Cameras /\ reg \in Regs
    BY DEF TypeInv, TypeOK
  <1>1. CASE Find
    BY <1>0, <1>1 DEF Find, Set, Looks, Regs
  <1>2. CASE Look \/ Report \/ AiBefore \/ Grab \/ Readback \/ SteadyAgain
    BY <1>0, <1>2
    DEF Look, Report, AiBefore, Grab, Readback, SteadyAgain, Set, Looks, Fails, Regs
  <1>3. CASE WakePoll \/ WakeSettle \/ Steady
    BY <1>0, <1>3, NapCounts
    DEF WakePoll, WakeSettle, Steady, Set, Naps, Fails, Regs
  <1>4. CASE SendWake
    BY <1>0, <1>4, OrderedAxis DEF SendWake, Order, Set, Fails, Regs, Axes
  <1>5. CASE Sleep
    BY <1>0, <1>5, SleepOrderedAxis DEF Sleep, Order, Fails
  <1>6. CASE Gimbal
    BY <1>0, <1>6, PoseOrderedAxis DEF Gimbal, Order, Fails
  <1>7. CASE ZoomSet
    BY <1>0, <1>7, OrderedAxis DEF ZoomSet, Order, Fails, Regs, Axes
  <1>8. CASE AiWrite
    BY <1>0, <1>8, OrderedAxis DEF AiWrite, Order, Set, Fails, Regs, Axes
  <1>9. CASE ZoomPoll
    BY <1>0, <1>9, NapCounts DEF ZoomPoll, Set, Looks, Naps, Regs
  <1>10. CASE AiPoll
    BY <1>0, <1>10, NapCounts DEF AiPoll, Set, Looks, Naps, Regs
  <1> QED
    BY <1>1, <1>2, <1>3, <1>4, <1>5, <1>6, <1>7, <1>8, <1>9, <1>10 DEF Work

LEMMA NextReliable == TypeInv /\ Reliable /\ [Next]_vars => Reliable'
  <1> SUFFICES ASSUME TypeInv, Reliable, [Next]_vars PROVE Reliable'
    OBVIOUS
  <1>1. CASE Work
    BY <1>1, WorkReliable
  <1>2. CASE Settle \/ Move
    <2>1. cam'.plugged = cam.plugged /\ cam'.node = cam.node
      BY <1>2, OwnSteps DEF Settle, Move, TypeInv, TypeOK, Waited
    <2> QED  BY <1>2, <2>1 DEF Settle, Move, worker, Reliable
  <1>3. CASE PullOut \/ PlugIn
    BY <1>3 DEF PullOut, PlugIn, Replug, Reliable
  <1>4. CASE Deliver
    BY <1>4 DEF Deliver, NoRegs, Reliable
  <1>5. CASE \E c \in Clients, tool \in Tools :
                \E arg \in ArgsOf(tool) : Begin(c, tool, arg)
    BY <1>5 DEF Begin, Reliable
  <1>6. CASE UNCHANGED vars
    BY <1>6 DEF vars, Reliable
  <1> QED  BY <1>1, <1>2, <1>3, <1>4, <1>5, <1>6 DEF Next

LEMMA InitReliable == MaxFaults = 0 /\ Init => Reliable
  BY DEF Init, Fresh, NoRegs, Reliable

-----------------------------------------------------------------------------
(* Asleep or awake.  A camera is on its way only while it is being woken,  *)
(* and after the settle it is awake; whoever uses it has found it awake.   *)
Using == {"steady", "again", "gimbal", "zoom", "zoompoll", "aibefore", "aiwrite",
          "aipoll", "grab"}

RunInTime ==
    /\ Pending("run") => pc \in {"wakepoll", "settle"}
    /\ pc \in {"wakepoll", "settle"} => cam.goal.run = "awake"
    /\ pc = "wakepoll" =>
          /\ reg.left \in 0..WakePolls
          /\ Pending("run") =>
                cam.due.run + (WakePolls - reg.left) <= Latency["run"]
    /\ pc = "settle" /\ Pending("run") => cam.due.run = 0
    /\ pc \in Using => Awake
    /\ pc = "readback" /\ call.tool \in Pointing => Awake
    /\ Ends({"wake"}) => Awake

RunInv == TypeInv /\ Reliable /\ RunInTime

(* What every step of a call comes to that neither wakes nor sleeps.       *)
LEMMA OtherRun ==
    ASSUME RunInv,
           pc \notin {"wakepoll", "settle"}, pc' \notin {"wakepoll", "settle"},
           cam'.now.run = cam.now.run, cam'.goal.run = cam.goal.run,
           \/ Awake
           \/ /\ pc' \notin Using
              /\ pc' = "readback" => call'.tool \notin Pointing
              /\ pc' = "done" => call'.tool # "wake"
    PROVE  RunInTime'
  BY DEF RunInv, RunInTime, Pending, Awake, Ends

LEMMA WorkRun ==
    ASSUME RunInv, Work, SleepShows, Latency["run"] <= WakePolls
    PROVE  RunInTime'
  <1>0. /\ cam \in Cameras /\ reg \in Regs /\ call' = call
        /\ Reliable /\ AtWork /\ RunInTime
    BY WorkReliable DEF RunInv, TypeInv, TypeOK
  <1> USE Fine DEF RunInv
  <1>1. CASE Find \/ Report
    <2>1. /\ cam' = cam /\ pc \in {"find", "report"}
          /\ pc' \in {"look", "report", "sleep", "readback", "done"}
          /\ pc' = "readback" => call.tool \notin Pointing
          /\ pc' = "done" => call.tool # "wake"
      BY <1>0, <1>1
      DEF Find, Report, Looks, Fails, Goto, Answer, Raise, Entry, AtWork, Pointing
    <2> QED  BY <1>0, <2>1, OtherRun DEF Using
  <1>2. CASE Look
    <2>1. /\ cam' = cam /\ pc = "look"
          /\ pc' \in {"wake", "steady", "done", "grab", "gimbal", "zoom", "aibefore"}
          /\ pc' = "wake" \/ Awake
      BY <1>0, <1>2
      DEF Look, Looks, FoundAsleep, Goto, Answer, Proceed, AtWork, Waking
    <2> QED  BY <1>0, <2>1, OtherRun DEF Using
  <1>3. CASE SendWake
    <2>1. /\ pc = "wake" /\ pc' = "wakepoll"
          /\ cam' = Ordered("run", "awake")
          /\ reg' = [reg EXCEPT !.left = WakePolls]
      BY <1>0, <1>3 DEF SendWake, Order, Fails, Set, Goto
    <2>2. /\ cam'.now = cam.now /\ cam'.goal.run = "awake"
          /\ cam'.due.run = IF cam.now.run = "awake" THEN 0 ELSE Latency["run"]
      BY <1>0, <2>1, OrderedAxis DEF Axes
    <2>3. reg'.left = WakePolls /\ WakePolls \in Nat /\ Latency["run"] \in Nat
      BY <1>0, <2>1, CameraAssumption, DeviceAssumption DEF Regs, Axes
    <2> QED  BY <1>0, <2>1, <2>2, <2>3 DEF RunInTime, Pending, Using, Ends
  <1>4. CASE WakePoll
    <2>1. /\ pc = "wakepoll" /\ cam.goal.run = "awake" /\ Nap
          /\ cam'.now.run = cam.now.run /\ cam'.goal = cam.goal
          /\ reg' = [reg EXCEPT !.left = reg.left - 1]
          /\ IF Awake \/ reg.left = 1 THEN pc' = "settle" ELSE pc' = "wakepoll"
      BY <1>0, <1>4, NapCounts DEF WakePoll, Naps, WakeOver, Set, Goto, RunInTime
    <2>2. /\ reg.left \in 1..WakePolls /\ WakePolls \in Nat
          /\ Latency["run"] \in Nat /\ cam.due.run \in Nat
      BY <1>0, <2>1, DeviceAssumption, CameraAssumption
      DEF RunInTime, TypeInv, Counting, Axes, Cameras, Regs
    <2>3. reg'.left = reg.left - 1
      BY <1>0, <2>1 DEF Regs
    <2>4. Pending("run")' <=> Pending("run")
      BY <2>1 DEF Pending
    <2>5. Pending("run") =>
             /\ cam.due.run + (WakePolls - reg.left) <= Latency["run"]
             /\ cam.due.run > 0 /\ cam'.due.run = cam.due.run - 1
      BY <1>0, <2>1, NapCounts DEF RunInTime, Axes
    <2>6. Pending("run") => cam'.due.run + (WakePolls - reg'.left) <= Latency["run"]
      BY <2>2, <2>3, <2>5
    <2>7. Pending("run") /\ pc' = "settle" => cam'.due.run = 0
      <3>1. Pending("run") => ~Awake
        BY <2>1 DEF Pending, Awake
      <3> QED  BY <2>1, <2>2, <2>5, <3>1
    <2> QED
      BY <1>0, <2>1, <2>2, <2>3, <2>4, <2>6, <2>7 DEF RunInTime, Using, Ends
  <1>5. CASE WakeSettle
    <2>1. /\ pc = "settle" /\ cam.goal.run = "awake" /\ Nap
          /\ cam'.now.run = cam.now.run /\ cam'.goal = cam.goal
      BY <1>0, <1>5, NapCounts DEF WakeSettle, Naps, RunInTime
    <2>2. ~Pending("run")
      BY <1>0, <2>1, NapCounts DEF RunInTime, Axes
    <2>3. Awake
      BY <2>1, <2>2 DEF Pending, Awake
    <2>4. pc' \notin {"wakepoll", "settle"}
      BY <1>0, <1>5 DEF WakeSettle, Proceed, Goto, Answer, AtWork, Waking, Pointing
    <2> QED  BY <2>1, <2>2, <2>3, <2>4 DEF RunInTime, Pending, Awake
  <1>6. CASE Sleep
    <2>1. /\ pc' = "done" /\ call.tool = "sleep" /\ ~Pending("run")'
      BY <1>0, <1>6, SleepOrderedAxis DEF Sleep, Order, Fails, Answer, AtWork
    <2> QED  BY <1>0, <2>1 DEF RunInTime, Using, Ends
  <1>7. CASE Steady \/ SteadyAgain \/ AiBefore \/ Grab
    <2>1. /\ cam'.now.run = cam.now.run /\ cam'.goal = cam.goal
          /\ pc \in Using /\ pc' \notin {"wakepoll", "settle"}
      BY <1>0, <1>7, NapCounts
      DEF Steady, SteadyAgain, AiBefore, Grab, Naps, Looks, Fails, Goto, Answer,
          Raise, Using
    <2> QED  BY <1>0, <2>1, OtherRun DEF RunInTime, Using
  <1>8. CASE Readback
    <2>1. /\ cam' = cam /\ pc = "readback" /\ pc' \in {"gimbal", "done"}
          /\ call.tool \in Pointing \/ (pc' = "done" /\ call.tool # "wake")
      BY <1>0, <1>8
      DEF Readback, Looks, Fails, Goto, Answer, Raise, AtWork, Pointing
    <2> QED  BY <1>0, <2>1, OtherRun DEF RunInTime, Using
  <1>9. CASE Gimbal
    <2>1. /\ cam'.now = cam.now /\ cam'.goal.run = cam.goal.run
          /\ pc = "gimbal" /\ pc' \in {"zoom", "done"}
      BY <1>0, <1>9, PoseOrderedAxis
      DEF Gimbal, AfterGimbal, Order, Fails, Goto, Answer, Raise, Waited
    <2> QED  BY <1>0, <2>1, OtherRun DEF RunInTime, Using
  <1>10. CASE ZoomSet \/ AiWrite
    <2>1. /\ cam'.now = cam.now /\ cam'.goal.run = cam.goal.run
          /\ pc \in Using /\ pc' \notin {"wakepoll", "settle"}
      BY <1>0, <1>10, OrderedAxis
      DEF ZoomSet, AiWrite, Order, Fails, Goto, Answer, Raise, Axes, Using
    <2> QED  BY <1>0, <2>1, OtherRun DEF RunInTime, Using
  <1>11. CASE ZoomPoll \/ AiPoll
    <2>1. /\ cam'.now.run = cam.now.run /\ cam'.goal = cam.goal
          /\ pc \in Using /\ pc' \notin {"wakepoll", "settle"}
      BY <1>0, <1>11, NapCounts
      DEF ZoomPoll, AiPoll, Looks, Naps, Goto, Answer, Using
    <2> QED  BY <1>0, <2>1, OtherRun DEF RunInTime, Using
  <1> QED
    BY <1>1, <1>2, <1>3, <1>4, <1>5, <1>6, <1>7, <1>8, <1>9, <1>10, <1>11
    DEF Work

LEMMA NextRun ==
    ASSUME SleepShows, Latency["run"] <= WakePolls
    PROVE  RunInv /\ [Next]_vars => RunInv'
  <1> SUFFICES ASSUME RunInv, [Next]_vars PROVE RunInTime'
    BY NextType, NextReliable DEF RunInv
  <1>1. CASE Work
    BY <1>1, WorkRun
  <1>2. CASE Settle \/ Move
    <2>1. /\ UNCHANGED worker
          /\ cam'.goal.run = cam.goal.run
          /\ ~Pending("run") => cam'.now.run = cam.now.run
          /\ Pending("run")' => Pending("run") /\ cam'.due.run = cam.due.run
      BY <1>2, OwnSteps DEF Settle, Move, RunInv, TypeInv, TypeOK, Waited
    <2>2. UNCHANGED <<pc, call, reg, reply>>
      BY <2>1 DEF worker
    <2> QED  BY <2>1, <2>2 DEF RunInv, RunInTime, Using, Ends, Awake
  <1>3. ~PullOut /\ ~PlugIn
    BY DEF RunInv, Reliable, PullOut, PlugIn, Replug
  <1>4. CASE Deliver
    BY <1>4 DEF Deliver, RunInv, RunInTime, Pending, Using, Ends
  <1>5. CASE \E c \in Clients, tool \in Tools :
                \E arg \in ArgsOf(tool) : Begin(c, tool, arg)
    BY <1>5 DEF Begin, RunInv, RunInTime, Pending, Using, Ends
  <1>6. CASE UNCHANGED vars
    BY <1>6 DEF vars, RunInv, RunInTime, Pending, Using, Ends, Awake
  <1> QED  BY <1>1, <1>2, <1>3, <1>4, <1>5, <1>6 DEF Next

LEMMA InitRun == MaxFaults = 0 /\ Init => RunInv
  BY InitType, InitReliable
  DEF Init, Fresh, PowerOn, RunInv, RunInTime, Pending, Using, Ends

(* No tool uses a camera that is asleep or on its way there, if its status *)
(* shows sleep and it wakes within the polls, whoever sends it to sleep.   *)
THEOREM UsedAwake ==
    ASSUME MaxFaults = 0, SleepShows, Latency["run"] <= WakePolls
    PROVE  Spec => []AwakeForUse
  <1>1. RunInv => AwakeForUse
    BY DEF RunInv, RunInTime, AwakeForUse, Using, Pending, Awake
  <1> QED  BY InitRun, NextRun, <1>1, PTL DEF Spec

(* And obsbot_wake says awake of a camera that is.                         *)
THEOREM WakesHonest ==
    ASSUME MaxFaults = 0, SleepShows, Latency["run"] <= WakePolls
    PROVE  Spec => []WakeHonest
  <1>1. RunInv => WakeHonest
    BY DEF RunInv, RunInTime, WakeHonest, Ends, Pending, Awake
  <1> QED  BY InitRun, NextRun, <1>1, PTL DEF Spec

-----------------------------------------------------------------------------
(* The AI mode.  A switch is under way only while ai_track polls, k reads  *)
(* after the command with k - 1 naps; it shows the mode before, none that  *)
(* decodes, or the one wanted.                                             *)
AiInTime ==
    /\ Pending("ai") => pc = "aipoll"
    /\ pc = "aiwrite" => reg.ai = cam.now.ai
    /\ pc = "aipoll" =>
          /\ cam.goal.ai = call.arg
          /\ cam.now.ai \in {reg.ai, Unknown, call.arg}
          /\ reg.left \in 0..VerifyPolls
          /\ Pending("ai") =>
                /\ cam.due.ai <= Latency["ai"]
                /\ cam.due.ai + (VerifyPolls - reg.left) <= Latency["ai"] + 1
    /\ pc \in {"readback", "gimbal"} /\ call.tool \in Pointing
          => cam.now.ai = NoTracking

AiInv == RunInv /\ AiInTime

(* What every step but those of ai_track comes to.                         *)
LEMMA OtherAi ==
    ASSUME AiInv,
           pc \notin {"aiwrite", "aipoll"}, pc' \notin {"aiwrite", "aipoll"},
           cam'.now.ai = cam.now.ai, cam'.goal.ai = cam.goal.ai,
           \/ pc' \notin {"readback", "gimbal"}
           \/ call'.tool \notin Pointing
           \/ cam.now.ai = NoTracking
    PROVE  AiInTime'
  BY DEF AiInv, AiInTime, Pending

LEMMA WorkAi ==
    ASSUME AiInv, Work, Latency["ai"] + 1 < VerifyPolls PROVE AiInTime'
  <1>0. /\ cam \in Cameras /\ reg \in Regs /\ call' = call
        /\ Reliable /\ AtWork /\ AiInTime
    BY WorkReliable DEF AiInv, RunInv, TypeInv, TypeOK
  <1> USE Fine DEF AiInv, RunInv
  <1>1. CASE Find \/ Look \/ Report \/ Grab
    <2>1. /\ cam' = cam /\ pc \notin {"aiwrite", "aipoll"}
          /\ pc' \notin {"aiwrite", "aipoll"}
          /\ pc' \in {"readback", "gimbal"} => call.tool \notin Pointing
      BY <1>0, <1>1
      DEF Find, Look, Report, Grab, Looks, Fails, Goto, Answer, Raise,
          Entry, Proceed, AtWork, Waking, Pointing
    <2> QED  BY <1>0, <2>1, OtherAi
  <1>2. CASE WakePoll \/ WakeSettle \/ Steady
    <2>1. /\ cam'.now.ai = cam.now.ai /\ cam'.goal = cam.goal
          /\ pc \notin {"aiwrite", "aipoll"}
          /\ pc' \notin {"aiwrite", "aipoll"}
          /\ pc' \in {"readback", "gimbal"} => call.tool \notin Pointing
      BY <1>0, <1>2, NapCounts
      DEF WakePoll, WakeSettle, Steady, Naps, Fails, Raise, Goto, Answer, Proceed,
          AtWork, Waking, Pointing
    <2> QED  BY <1>0, <2>1, OtherAi
  <1>3. CASE SteadyAgain
    <2>1. /\ cam' = cam
          /\ pc = "again" /\ pc' \in {"readback", "done"}
          /\ pc' = "readback" => cam.now.ai = NoTracking
      BY <1>0, <1>3 DEF SteadyAgain, Looks, Goto, Answer, Raise, Unmoved
    <2> QED  BY <1>0, <2>1, OtherAi
  <1>4. CASE Readback
    <2>1. /\ cam' = cam /\ pc = "readback" /\ pc' \in {"gimbal", "done"}
      BY <1>4 DEF Readback, Fails, Looks, Goto, Answer, Raise
    <2> QED  BY <1>0, <2>1, OtherAi DEF AiInTime
  <1>5. CASE Gimbal
    <2>1. /\ cam'.now = cam.now /\ cam'.goal.ai = cam.goal.ai
          /\ pc = "gimbal" /\ pc' \in {"zoom", "done"}
      BY <1>0, <1>5, PoseOrderedAxis
      DEF Gimbal, AfterGimbal, Order, Fails, Goto, Answer, Raise, Waited
    <2> QED  BY <1>0, <2>1, OtherAi
  <1>6. CASE Sleep
    <2>1. /\ cam'.now.ai = cam.now.ai /\ cam'.goal.ai = cam.goal.ai
          /\ pc = "sleep" /\ pc' = "done"
      BY <1>0, <1>6, SleepOrderedAxis DEF Sleep, Order, Fails, Answer, Raise
    <2> QED  BY <1>0, <2>1, OtherAi
  <1>7. CASE SendWake
    <2>1. /\ cam'.now = cam.now /\ cam'.goal.ai = cam.goal.ai
          /\ pc = "wake" /\ pc' \in {"wakepoll", "done"}
      BY <1>0, <1>7, OrderedAxis
      DEF SendWake, Order, Fails, Goto, Answer, Raise, Axes
    <2> QED  BY <1>0, <2>1, OtherAi
  <1>8. CASE ZoomSet
    <2>1. /\ cam'.now = cam.now /\ cam'.goal.ai = cam.goal.ai
          /\ pc = "zoom" /\ pc' \in {"zoompoll", "done"}
      BY <1>0, <1>8, OrderedAxis
      DEF ZoomSet, Order, Fails, Goto, Answer, Raise, Axes
    <2> QED  BY <1>0, <2>1, OtherAi
  <1>9. CASE ZoomPoll
    <2>1. /\ cam'.now.ai = cam.now.ai /\ cam'.goal = cam.goal
          /\ pc = "zoompoll" /\ pc' \in {"zoompoll", "done"}
      BY <1>0, <1>9, NapCounts DEF ZoomPoll, Looks, Naps, Goto, Answer
    <2> QED  BY <1>0, <2>1, OtherAi
  <1>10. CASE AiBefore
    BY <1>0, <1>10
    DEF AiBefore, Looks, Set, Goto, AiInTime, Pending, Regs
  <1>11. CASE AiWrite
    <2>1. /\ pc = "aiwrite" /\ pc' = "aipoll"
          /\ cam' = Ordered("ai", call.arg)
          /\ reg' = [reg EXCEPT !.left = VerifyPolls]
      BY <1>0, <1>11 DEF AiWrite, Order, Fails, Set, Goto
    <2>2. /\ cam'.now = cam.now /\ cam'.goal.ai = call.arg
          /\ cam'.due.ai = IF cam.now.ai = call.arg THEN 0 ELSE Latency["ai"]
      BY <1>0, <2>1, OrderedAxis DEF Axes
    <2>3. reg'.left = VerifyPolls /\ reg'.ai = reg.ai /\ VerifyPolls \in Nat
      BY <1>0, <2>1, CameraAssumption DEF Regs
    <2>4. Latency["ai"] \in Nat
      BY DeviceAssumption DEF Axes
    <2> QED  BY <1>0, <2>1, <2>2, <2>3, <2>4 DEF AiInTime, Pending
  <1>12. CASE AiPoll
    <2>1. /\ pc = "aipoll" /\ cam.goal.ai = call.arg /\ call.tool = "track"
          /\ cam.now.ai \in {reg.ai, Unknown, call.arg}
          /\ cam'.now.ai = cam.now.ai /\ cam'.goal = cam.goal
      BY <1>0, <1>12, NapCounts DEF AiPoll, Naps, Looks, AiInTime, AtWork
    <2>2. CASE cam.now.ai = call.arg
      <3>1. pc' = "done"
        BY <1>0, <1>12, <2>2 DEF AiPoll, Matches, Answer
      <3> QED  BY <1>0, <2>1, <2>2, <3>1 DEF AiInTime, Pending, Pointing
    <2>3. CASE cam.now.ai # call.arg
      <3>1. /\ reg' = [reg EXCEPT !.left = reg.left - 1]
            /\ IF reg.left = 1 THEN pc' = "done" ELSE pc' = "aipoll"
            /\ IF reg.left < VerifyPolls THEN Nap ELSE cam' = cam
        BY <1>0, <1>12, <2>1, <2>3
        DEF AiPoll, Matches, Landed, Answer, Goto, Set, Naps, Looks
      <3>2. /\ reg.left \in 1..VerifyPolls /\ VerifyPolls \in Nat
            /\ Latency["ai"] \in Nat /\ cam.due.ai \in Nat
            /\ cam.due.ai <= Latency["ai"]
            /\ cam.due.ai + (VerifyPolls - reg.left) <= Latency["ai"] + 1
        BY <1>0, <2>1, <2>3, DeviceAssumption, CameraAssumption
        DEF AiInTime, Pending, TypeInv, Counting, Axes, Cameras, Regs
      <3>3. reg'.left = reg.left - 1 /\ reg'.ai = reg.ai
        BY <1>0, <3>1 DEF Regs
      <3>4. /\ reg.left = VerifyPolls => cam'.due.ai = cam.due.ai
            /\ reg.left < VerifyPolls => /\ cam.due.ai > 0
                                        /\ cam'.due.ai = cam.due.ai - 1
        BY <1>0, <2>1, <2>3, <3>1, <3>2, NapCounts DEF Pending, Axes
      <3>5. reg.left # 1
        BY <3>2, <3>4
      <3>6. /\ cam'.due.ai <= Latency["ai"]
            /\ cam'.due.ai + (VerifyPolls - reg'.left) <= Latency["ai"] + 1
            /\ reg'.left \in 0..VerifyPolls
        BY <3>2, <3>3, <3>4
      <3>7. pc' = "aipoll"
        BY <3>1, <3>5
      <3> QED  BY <1>0, <2>1, <3>3, <3>6, <3>7 DEF AiInTime
    <2> QED  BY <2>2, <2>3
  <1> QED
    BY <1>1, <1>2, <1>3, <1>4, <1>5, <1>6, <1>7, <1>8, <1>9, <1>10, <1>11, <1>12
    DEF Work

LEMMA NextAi ==
    ASSUME SleepShows, Latency["run"] <= WakePolls, Latency["ai"] + 1 < VerifyPolls
    PROVE  AiInv /\ [Next]_vars => AiInv'
  <1> SUFFICES ASSUME AiInv, [Next]_vars PROVE AiInTime'
    BY NextRun DEF AiInv
  <1>1. CASE Work
    BY <1>1, WorkAi
  <1>2. CASE Settle \/ Move
    <2>1. /\ UNCHANGED worker
          /\ Pending("ai")' => Pending("ai") /\ cam'.due.ai = cam.due.ai
          /\ ~Pending("run") =>
                /\ cam'.goal.ai = cam.goal.ai
                /\ ~Pending("ai") => cam'.now.ai = cam.now.ai
                /\ cam'.now.ai \in {cam.now.ai, Unknown, cam.goal.ai}
      BY <1>2, OwnSteps DEF Settle, Move, AiInv, RunInv, TypeInv, TypeOK, Waited
    <2>2. UNCHANGED <<pc, call, reg>>
      BY <2>1 DEF worker
    <2>3. CASE Pending("run")
      <3>1. pc \in {"wakepoll", "settle"}
        BY <2>3 DEF AiInv, RunInv, RunInTime
      <3> QED  BY <2>1, <2>2, <3>1 DEF AiInv, AiInTime
    <2>4. CASE ~Pending("run")
      BY <2>1, <2>2, <2>4 DEF AiInv, AiInTime
    <2> QED  BY <2>3, <2>4
  <1>3. ~PullOut /\ ~PlugIn
    BY DEF AiInv, RunInv, Reliable, PullOut, PlugIn, Replug
  <1>4. CASE Deliver
    BY <1>4 DEF Deliver, AiInv, AiInTime, Pending
  <1>5. CASE \E c \in Clients, tool \in Tools :
                \E arg \in ArgsOf(tool) : Begin(c, tool, arg)
    BY <1>5 DEF Begin, AiInv, AiInTime, Pending
  <1>6. CASE UNCHANGED vars
    BY <1>6 DEF vars, AiInv, AiInTime, Pending
  <1> QED  BY <1>1, <1>2, <1>3, <1>4, <1>5, <1>6 DEF Next

LEMMA InitAi == MaxFaults = 0 /\ Init => AiInv
  BY InitRun DEF Init, Fresh, PowerOn, AiInv, AiInTime, Pending

(* obsbot_ai_track answers when the switch of the mode is over, of a camera*)
(* without faults that switches within the naps between its reads, and     *)
(* that, when it wakes, is awake within the polls, tracking or not.        *)
THEOREM TracksLand ==
    ASSUME MaxFaults = 0, SleepShows, Latency["run"] <= WakePolls,
           Latency["ai"] + 1 < VerifyPolls
    PROVE  Spec => []TrackLands
  <1>1. AiInv => TrackLands
    BY DEF AiInv, AiInTime, TrackLands, Ends
  <1> QED  BY InitAi, NextAi, <1>1, PTL DEF Spec

(* Of such a camera no aim commands a gimbal that tracking moves or is     *)
(* about to move, whichever tools other clients have called before, and    *)
(* whether it tracks from its wake on or because it was told to.           *)
THEOREM NeverFights ==
    ASSUME MaxFaults = 0, SleepShows, Latency["run"] <= WakePolls,
           Latency["ai"] + 1 < VerifyPolls
    PROVE  Spec => []NoFight
  <1>1. AiInv => NoFight
    BY DEF AiInv, AiInTime, NoFight, Aiming, Pending
  <1> QED  BY InitAi, NextAi, <1>1, PTL DEF Spec

-----------------------------------------------------------------------------
(* A mode that was matched stays: nothing is under way then.               *)
Wanted == pc = "aipoll" => cam.goal.ai = call.arg

MatchInv == SentInv /\ RunInv /\ Wanted /\ MatchedIsThere

LEMMA WorkMatch == ASSUME MatchInv, Work PROVE Wanted' /\ MatchedIsThere'
  <1>0. /\ cam \in Cameras /\ reg \in Regs /\ call' = call
        /\ pc # "done" => ~reg.good
        /\ Reliable /\ AtWork
    BY WorkReliable DEF MatchInv, SentInv, Sent, RunInv, TypeInv, TypeOK
  <1> USE Fine
  <1>1. CASE Find \/ Look \/ SendWake \/ WakePoll \/ WakeSettle
    <2>1. pc' # "aipoll" /\ pc # "done"
      BY <1>1 DEF Find, Look, SendWake, WakePoll, WakeSettle, Fails, Raise,
         Proceed, Goto, Answer, Entry, MatchInv, SentInv, TypeInv, AtWork,
         Waking, Pointing
    <2>2. reg'.good = reg.good
      BY <1>0, <1>1 DEF Find, Look, SendWake, WakePoll, WakeSettle, Fails, Set, Regs
    <2> QED  BY <1>0, <2>1, <2>2 DEF Wanted, MatchedIsThere
  <1>2. CASE \/ Steady \/ SteadyAgain \/ Report \/ Readback \/ Gimbal
             \/ Sleep \/ AiBefore \/ Grab \/ ZoomSet
    <2>1. pc' # "aipoll" /\ pc # "done"
      BY <1>2 DEF Steady, SteadyAgain, Report, Readback, Gimbal, Sleep,
         AiBefore, Grab, ZoomSet, AfterGimbal, Fails, Raise, Goto, Answer
    <2>2. reg'.good = reg.good
      BY <1>0, <1>2 DEF Steady, SteadyAgain, Report, Readback, Gimbal, Sleep,
         AiBefore, Grab, ZoomSet, Fails, Set, Regs
    <2> QED  BY <1>0, <2>1, <2>2 DEF Wanted, MatchedIsThere
  <1>3. CASE ZoomPoll
    <2>1. pc' # "aipoll" /\ call.tool # "track"
      BY <1>0, <1>3 DEF ZoomPoll, Answer, Goto, AtWork
    <2> QED  BY <1>0, <2>1 DEF Wanted, MatchedIsThere, Ends
  <1>4. CASE AiWrite
    <2>1. /\ pc' = "aipoll" /\ cam' = Ordered("ai", call.arg)
      BY <1>0, <1>4 DEF AiWrite, Order, Fails, Set, Goto
    <2>2. cam'.goal.ai = call.arg
      BY <1>0, <2>1, OrderedAxis DEF Axes
    <2> QED  BY <1>0, <2>1, <2>2 DEF Wanted, MatchedIsThere, Ends
  <1>5. CASE AiPoll
    <2>1. /\ pc = "aipoll" /\ cam.goal.ai = call.arg
          /\ cam'.now.ai = cam.now.ai /\ cam'.goal = cam.goal
      BY <1>0, <1>5, NapCounts DEF AiPoll, Naps, Looks, MatchInv, Wanted
    <2>2. CASE cam.now.ai = call.arg
      BY <1>0, <2>1, <2>2 DEF Wanted, MatchedIsThere
    <2>3. CASE cam.now.ai # call.arg
      <3>1. reg'.good = reg.good
        BY <1>0, <1>5, <2>3 DEF AiPoll, Matches, Set, Regs
      <3> QED  BY <1>0, <2>1, <3>1 DEF Wanted, MatchedIsThere
    <2> QED  BY <2>2, <2>3
  <1> QED  BY <1>1, <1>2, <1>3, <1>4, <1>5 DEF Work

LEMMA NextMatch ==
    ASSUME SleepShows, Latency["run"] <= WakePolls
    PROVE  MatchInv /\ [Next]_vars => MatchInv'
  <1> SUFFICES ASSUME MatchInv, [Next]_vars PROVE Wanted' /\ MatchedIsThere'
    BY NextSent, NextRun DEF MatchInv
  <1>1. CASE Work
    BY <1>1, WorkMatch
  <1>2. CASE Settle \/ Move
    <2>1. /\ UNCHANGED worker
          /\ ~Pending("run") =>
                /\ cam'.goal.ai = cam.goal.ai
                /\ ~Pending("ai") => cam'.now.ai = cam.now.ai
      BY <1>2, OwnSteps DEF Settle, Move, MatchInv, SentInv, TypeInv, TypeOK, Waited
    <2>2. UNCHANGED <<pc, call, reg, reply>>
      BY <2>1 DEF worker
    <2>3. pc \in {"aipoll", "done"} => ~Pending("run")
      BY DEF MatchInv, RunInv, RunInTime
    <2> QED
      BY <2>1, <2>2, <2>3 DEF MatchInv, Wanted, MatchedIsThere, Ends, Pending
  <1>3. ~PullOut /\ ~PlugIn
    BY DEF MatchInv, RunInv, Reliable, PullOut, PlugIn, Replug
  <1>4. CASE Deliver
    BY <1>4 DEF Deliver, Wanted, MatchedIsThere, Ends
  <1>5. CASE \E c \in Clients, tool \in Tools :
                \E arg \in ArgsOf(tool) : Begin(c, tool, arg)
    BY <1>5 DEF Begin, Wanted, MatchedIsThere, Ends
  <1>6. CASE UNCHANGED vars
    BY <1>6 DEF vars, MatchInv, Wanted, MatchedIsThere, Ends
  <1> QED  BY <1>1, <1>2, <1>3, <1>4, <1>5, <1>6 DEF Next

(* matched=true is true of a camera without faults, however long a switch  *)
(* takes: it is in the mode that was asked for and is sent to no other.  A *)
(* wake must be over by then, for the camera may track from its wake on.   *)
THEOREM MatchedHonest ==
    ASSUME MaxFaults = 0, SleepShows, Latency["run"] <= WakePolls
    PROVE  Spec => []MatchedIsThere
  <1>1. Init => SentInv
    BY InitType DEF Init, NoRegs, SentInv, Sent, SettledIsThere, Ends
  <1>2. Init => MatchInv
    BY <1>1, InitRun DEF Init, MatchInv, Wanted, MatchedIsThere, Ends
  <1>3. MatchInv => MatchedIsThere
    BY DEF MatchInv
  <1> QED  BY <1>2, NextMatch, <1>3, PTL DEF Spec

-----------------------------------------------------------------------------
(* The aims.  Where nobody sleeps or tracks the driver's memory of the pose*)
(* is where the gimbal is sent.                                            *)
Still ==
    /\ cam.now.run = "awake" /\ cam.goal.run = "awake"
    /\ cam.now.ai = NoTracking /\ cam.goal.ai = NoTracking
    /\ cam.cache = cam.goal.pose
    /\ call.tool \notin {"sleep", "track"}
    /\ pc \notin {"wake", "wakepoll", "settle"}

(* Between the two reads a zoom under way leaves the first one behind, so  *)
(* it is at rest when both show the same, and goes on being so until the   *)
(* gimbal is commanded; the target is then computed from where it is.      *)
Passed ==
    \/ reg.zoom < cam.now.zoom /\ cam.now.zoom <= cam.goal.zoom
    \/ cam.goal.zoom <= cam.now.zoom /\ cam.now.zoom < reg.zoom

Measured ==
    /\ pc = "again" => ~Pending("zoom") \/ Passed
    /\ pc \in {"readback", "gimbal"} /\ call.tool \in Pointing
          => ~Pending("zoom") /\ reg.zoom = cam.now.zoom
    /\ pc = "gimbal" /\ call.tool \in Pointing
          => /\ reg.target = Clamp(Aimed, -PoseLimit, PoseLimit)
             /\ reg.clamped = (Aimed \notin Poses)

AimInv == TypeInv /\ Reliable /\ Still /\ Measured

LEMMA ZoomsAre ==
    ASSUME TypeInv
    PROVE  cam.now.zoom \in Int /\ cam.goal.zoom \in Int /\ reg.zoom \in Int
  BY DEF TypeInv, TypeOK, Cameras, Places, Regs, Zooms

(* A nap after the first read, and the camera's own steps after it.        *)
LEMMA NapPasses ==
    ASSUME TypeInv, Nap, ZoomShows, reg'.zoom = cam.now.zoom
    PROVE  ~Pending("zoom")' \/ Passed'
  <1>1. /\ cam'.goal = cam.goal
        /\ ~Pending("zoom") => cam'.now.zoom = cam.now.zoom
        /\ Pending("zoom") => Ahead(cam'.now.zoom)
    BY NapCounts DEF TypeInv, TypeOK
  <1> QED  BY <1>1 DEF Pending, Ahead, Passed

LEMMA StillPasses ==
    ASSUME TypeInv, Settles \/ Moves, reg' = reg, ~Pending("run"),
           ~Pending("zoom") \/ Passed
    PROVE  ~Pending("zoom")' \/ Passed'
  <1>0. /\ cam.now.zoom \in Int /\ cam.goal.zoom \in Int /\ reg.zoom \in Int
        /\ cam \in Cameras
    BY ZoomsAre DEF TypeInv, TypeOK
  <1>1. CASE ZoomTravels
    <2>1. PICK z \in Zooms \ {cam.now.zoom, cam.goal.zoom} :
             /\ (cam.now.zoom < z) = (z < cam.goal.zoom)
             /\ cam' = [cam EXCEPT !.now.zoom = z]
      BY <1>1 DEF ZoomTravels
    <2>2. /\ z \in Int /\ z # cam.now.zoom /\ z # cam.goal.zoom
          /\ cam'.now.zoom = z /\ cam'.goal.zoom = cam.goal.zoom
      BY <1>0, <2>1 DEF Cameras, Places, Zooms
    <2>3. cam.now.zoom # cam.goal.zoom
      BY <1>0, <2>1, <2>2
    <2>4. Passed
      BY <2>3 DEF Pending
    <2> QED  BY <1>0, <2>1, <2>2, <2>4 DEF Passed
  <1>2. CASE Settles \/ AiLeaves \/ Follows
    <2>1. \/ cam'.now.zoom = cam.now.zoom /\ cam'.goal.zoom = cam.goal.zoom
          \/ ~Pending("zoom")'
      <3>1. CASE AiLeaves
        BY <1>0, <3>1 DEF AiLeaves, Cameras, Places
      <3>2. CASE Follows
        <4>1. PICK p \in Poses : cam' = [cam EXCEPT !.now.pose = p,
                                            !.goal.pose = p, !.due.pose = 0]
          BY <3>2 DEF Follows
        <4> QED  BY <1>0, <4>1 DEF Cameras, Places
      <3>3. ASSUME NEW k \in Axes \ {"run"}, Arrives(k)
            PROVE  \/ cam'.now.zoom = cam.now.zoom /\ cam'.goal.zoom = cam.goal.zoom
                   \/ ~Pending("zoom")'
        BY <1>0, <3>3 DEF Arrives, Pending, Cameras, Places, Axes
      <3> QED  BY <1>2, <3>1, <3>2, <3>3 DEF Settles, Stows, Wakes
    <2> QED  BY <2>1 DEF Pending, Passed
  <1> QED  BY <1>1, <1>2 DEF Moves

LEMMA WorkAim ==
    ASSUME AimInv, Work, ZoomShows PROVE Still' /\ Measured'
  <1>0. /\ cam \in Cameras /\ reg \in Regs /\ call' = call
        /\ Reliable /\ AtWork /\ Still /\ Measured
    BY WorkReliable DEF AimInv, TypeInv, TypeOK
  <1> USE Fine
  <1>1. CASE Find \/ Look \/ Report \/ Grab
    <2>1. /\ cam' = cam
          /\ pc' \in {"look", "report", "readback", "steady", "grab", "gimbal",
                      "zoom", "done"}
          /\ pc' \in {"readback", "gimbal"} => call.tool \notin Pointing
      BY <1>0, <1>1
      DEF Find, Look, Report, Grab, Looks, Fails, Goto, Answer, Raise, Entry,
          Proceed, FoundAsleep, AtWork, Waking, Pointing, Still, Awake
    <2> QED  BY <1>0, <2>1 DEF Still, Measured
  <1>2. ~SendWake /\ ~WakePoll /\ ~WakeSettle /\ ~Sleep
        /\ ~AiBefore /\ ~AiWrite /\ ~AiPoll
    BY <1>0
    DEF Still, AtWork, SendWake, WakePoll, WakeSettle, Sleep, AiBefore, AiWrite, AiPoll
  <1>3. CASE Steady
    <2>1. /\ Nap /\ pc' = "again" /\ reg'.zoom = cam.now.zoom
      BY <1>0, <1>3 DEF Steady, Naps, Set, Fails, Goto, Regs
    <2>2. /\ cam'.goal = cam.goal /\ cam'.cache = cam.cache
          /\ cam'.now.run = cam.now.run /\ cam'.now.ai = cam.now.ai
      BY <1>0, <2>1, NapCounts
    <2>3. ~Pending("zoom")' \/ Passed'
      BY <2>1, NapPasses DEF AimInv
    <2> QED  BY <1>0, <2>1, <2>2, <2>3 DEF Still, Measured
  <1>4. CASE SteadyAgain
    <2>1. /\ cam' = cam /\ pc = "again" /\ pc' \in {"readback", "done"}
          /\ pc' = "readback" => reg.zoom = cam.now.zoom /\ reg'.zoom = cam.now.zoom
      BY <1>0, <1>4
      DEF SteadyAgain, Looks, Set, Goto, Answer, Raise, Unmoved, SameZoom, Regs
    <2>2. pc' = "readback" => ~Pending("zoom")
      BY <1>0, <2>1, ZoomsAre DEF Measured, Passed, AimInv
    <2> QED  BY <1>0, <2>1, <2>2 DEF Still, Measured, Pending
  <1>5. CASE Readback
    <2> DEFINE target == Clamp(Aimed, -PoseLimit, PoseLimit)
               beyond == Aimed \notin Poses
    <2>1. cam' = cam /\ pc = "readback"
      BY <1>0, <1>5 DEF Readback, Looks, Fails
    <2>2. \/ pc' = "done" /\ reg' = reg
          \/ /\ pc' = "gimbal" /\ call.tool \in Pointing
             /\ reg' = [reg EXCEPT !.target = target, !.clamped = beyond]
      BY <1>0, <1>5 DEF Readback, Fails, Goto, Answer, Raise
    <2> HIDE DEF target, beyond
    <2>3. pc' = "gimbal" => /\ reg'.zoom = reg.zoom
                            /\ reg'.target = target /\ reg'.clamped = beyond
      BY <1>0, <2>2 DEF Regs
    <2>4. pc' = "gimbal" => Aimed' = Aimed
      BY <1>0, <2>1, <2>3 DEF Aimed
    <2>5. Measured'
      BY <1>0, <2>1, <2>2, <2>3, <2>4 DEF Measured, Pending, target, beyond
    <2> QED  BY <1>0, <2>1, <2>2, <2>5 DEF Still
  <1>6. CASE Gimbal
    <2> DEFINE wanted == IF call.tool = "move" THEN call.arg ELSE reg.target
               v == Clamp(wanted, -PoseLimit, PoseLimit)
    <2>1. /\ cam' = PoseOrdered(v)
          /\ pc = "gimbal" /\ pc' \in {"zoom", "done"} /\ reg' = reg
      BY <1>0, <1>6
      DEF Gimbal, AfterGimbal, Order, Fails, Goto, Answer, Raise
    <2> HIDE DEF v
    <2>2. Awake /\ ~Pending("run")
      BY <1>0 DEF Still, Awake, Pending
    <2>3. /\ cam'.now = cam.now /\ cam'.cache = v /\ cam'.goal.pose = v
          /\ \A j \in Waited : cam'.goal[j] = cam.goal[j]
      BY <1>0, <2>1, <2>2, PoseOrderedAxis
    <2>4. cam'.goal.run = cam.goal.run /\ cam'.goal.ai = cam.goal.ai
      BY <2>3 DEF Waited
    <2> QED  BY <1>0, <2>1, <2>3, <2>4 DEF Still, Measured
  <1>7. CASE ZoomSet
    <2>1. PICK z : cam' = Ordered("zoom", z) /\ pc' = "zoompoll"
      BY <1>0, <1>7 DEF ZoomSet, Order, Fails, Goto
    <2>2. /\ cam'.now = cam.now /\ cam'.cache = cam.cache
          /\ cam'.goal.run = cam.goal.run /\ cam'.goal.ai = cam.goal.ai
          /\ cam'.goal.pose = cam.goal.pose
      BY <1>0, <2>1, OrderedAxis DEF Axes
    <2> QED  BY <1>0, <2>1, <2>2 DEF Still, Measured
  <1>8. CASE ZoomPoll
    <2>1. /\ cam'.goal = cam.goal /\ cam'.cache = cam.cache
          /\ cam'.now.run = cam.now.run /\ cam'.now.ai = cam.now.ai
          /\ pc' \in {"zoompoll", "done"}
      BY <1>0, <1>8, NapCounts DEF ZoomPoll, Looks, Naps, Goto, Answer
    <2> QED  BY <1>0, <2>1 DEF Still, Measured
  <1> QED  BY <1>1, <1>2, <1>3, <1>4, <1>5, <1>6, <1>7, <1>8 DEF Work

LEMMA NextAim ==
    ASSUME ZoomShows, Tools \cap {"sleep", "track"} = {}
    PROVE  AimInv /\ [Next]_vars => AimInv'
  <1> SUFFICES ASSUME AimInv, [Next]_vars PROVE Still' /\ Measured'
    BY NextType, NextReliable DEF AimInv
  <1>1. CASE Work
    BY <1>1, WorkAim
  <1>2. CASE Settle \/ Move
    <2>1. UNCHANGED worker /\ (Settles \/ Moves)
      BY <1>2 DEF Settle, Move
    <2>2. UNCHANGED <<pc, call, reg>>
      BY <2>1 DEF worker
    <2>3. ~Pending("run") /\ ~Pending("ai") /\ ~Tracking /\ cam \in Cameras
      BY DeviceAssumption
      DEF AimInv, Still, Pending, Tracking, TypeInv, TypeOK
    <2>4. /\ cam'.cache = cam.cache
          /\ \A k \in Waited :
                /\ cam'.goal[k] = cam.goal[k]
                /\ ~Pending(k) => cam'.now[k] = cam.now[k]
      BY <2>1, <2>3, OwnSteps DEF Waited
    <2>5. cam'.goal.pose = cam.goal.pose
      <3>1. CASE Settles
        BY <2>3, <3>1 DEF Settles, Stows, Wakes, Arrives, Cameras, Places, Axes
      <3>2. CASE Moves
        BY <2>3, <3>2 DEF Moves, ZoomTravels, AiLeaves, Follows, Cameras
      <3> QED  BY <2>1, <3>1, <3>2
    <2>6. /\ cam'.goal.zoom = cam.goal.zoom
          /\ ~Pending("zoom") => cam'.now.zoom = cam.now.zoom
          /\ cam'.goal.run = cam.goal.run /\ cam'.goal.ai = cam.goal.ai
          /\ cam'.now.run = cam.now.run /\ cam'.now.ai = cam.now.ai
      BY <2>3, <2>4 DEF Waited
    <2>7. Still'
      BY <2>2, <2>4, <2>5, <2>6 DEF AimInv, Still
    <2>8. Measured'
      <3>1. pc = "again" => ~Pending("zoom")' \/ Passed'
        BY <2>1, <2>2, <2>3, StillPasses DEF AimInv, Measured
      <3>2. ~Pending("zoom") => ~Pending("zoom")'
        BY <2>6 DEF Pending
      <3>3. Aimed' = Aimed
        BY <2>2, <2>4 DEF Aimed
      <3> QED  BY <2>2, <2>6, <3>1, <3>2, <3>3 DEF AimInv, Measured
    <2> QED  BY <2>7, <2>8
  <1>3. ~PullOut /\ ~PlugIn
    BY DEF AimInv, Reliable, PullOut, PlugIn, Replug
  <1>4. CASE Deliver
    BY <1>4 DEF Deliver, AimInv, Still, Measured
  <1>5. CASE \E c \in Clients, tool \in Tools :
                \E arg \in ArgsOf(tool) : Begin(c, tool, arg)
    <2>1. call'.tool \notin {"sleep", "track"}
      BY <1>5 DEF Begin
    <2> QED  BY <1>5, <2>1 DEF Begin, AimInv, Still, Measured
  <1>6. CASE UNCHANGED vars
    BY <1>6 DEF vars, AimInv, Still, Measured, Passed, Pending, Aimed
  <1> QED  BY <1>1, <1>2, <1>3, <1>4, <1>5, <1>6 DEF Next

LEMMA InitAim == MaxFaults = 0 /\ Init => AimInv
  BY InitType, InitReliable
  DEF Init, Fresh, PowerOn, AimInv, Still, Measured

LEMMA ClampedAway ==
    ASSUME NEW v \in Int
    PROVE  LET target == Clamp(v, -PoseLimit, PoseLimit)
           IN /\ v \in Poses => target = v
              /\ v \notin Poses
                    => target = IF v < 0 THEN -PoseLimit ELSE PoseLimit
  BY DeviceAssumption DEF Clamp, Poses

(* An aim at a frame that is current hits the pixel, or goes to the end of *)
(* the range on its side and says clamped, for any ranges, spans, clients, *)
(* polls and latencies, of a camera without faults whose zoom, while under *)
(* way, is seen to move, and that nobody puts to sleep or lets track.      *)
THEOREM AimsHit ==
    ASSUME MaxFaults = 0, ZoomShows, Tools \cap {"sleep", "track"} = {}
    PROVE  Spec => []AimHits
  <1>1. AimInv => AimHits
    <2> SUFFICES ASSUME AimInv, Aiming, FrameIsCurrent, ~Pending("pose")
                 PROVE  LET object == Object(frame[call.client], call.arg)
                        IN /\ reg.clamped = (object \notin Poses)
                           /\ ~reg.clamped => reg.target = object
                           /\ reg.clamped => reg.target =
                                 IF object < 0 THEN -PoseLimit ELSE PoseLimit
      BY DEF AimHits
    <2>1. Object(frame[call.client], call.arg) = Aimed
      BY DEF AimInv, Still, Measured, Aiming, FrameIsCurrent, Shown, Object,
         Aimed, Pending
    <2>2. /\ reg.target = Clamp(Aimed, -PoseLimit, PoseLimit)
          /\ reg.clamped = (Aimed \notin Poses)
      BY DEF AimInv, Measured, Aiming
    <2>3. Aimed \in Int
      BY AimedType DEF AimInv, Aiming
    <2> QED  BY <2>1, <2>2, <2>3, ClampedAway
  <1> QED  BY InitAim, NextAim, <1>1, PTL DEF Spec

-----------------------------------------------------------------------------
(* A zoom that has arrived reads back as settled, at every ratio, and gives*)
(* the next aim a magnification to reckon with (server.py:127).            *)
THEOREM ZoomsReadBack == Spec => []ZoomReadsBack
  <1>1. ZoomReadsBack
    BY NothingMisread DEF ZoomReadsBack
  <1> QED  BY <1>1, PTL

(* zoom_to_fit's zoom holds the region: the run's sample of the regions    *)
(* that RegionFits speaks of.                                              *)
THEOREM FitsAlways == Spec => []FitFits
  <1>1. FitFits
    BY EveryRegionFits DEF FitFits
  <1> QED  BY <1>1, PTL
=============================================================================
