--------------------------- MODULE SettingsProofs ---------------------------
(***************************************************************************)
(* Proofs about Settings and the scan of Discovery in it, for any nodes,   *)
(* devices, faults, requests and changes of the bus: a camera that stands  *)
(* and answers is found, one that stands and does not is not called        *)
(* absent, and no other device is written to while the camera keeps its    *)
(* node; the numbers of the frames, what a call changes, and what is in    *)
(* force when it has been answered.                                        *)
(*                                                                         *)
(* The scan's half rests on where the camera is that stood since the nodes *)
(* were listed (Watched): still to be tried, being probed, or seen.  What  *)
(* is written to rests on what is at the node that the call holds (Held)   *)
(* and on when a write can have gone astray (Clean).                       *)
(*                                                                         *)
(* The numbers stand alone: Numbered says where each number is in the      *)
(* cycle that begins with any other.  For the rest, the accesses of every  *)
(* request are shown to be Good: no two of them set the same setting, each *)
(* value is in the range of its setting, and what the camera ignores in a  *)
(* mode is written after the switch out of that mode.  An access of such a *)
(* work leaves what the earlier ones did as it is and puts its own         *)
(* settings in force, so ValueInv, that the accesses made so far are       *)
(* InPlace, is kept by each step; and once all are made the answer is      *)
(* true.  The last section has what the frames and the scaling of the      *)
(* values give, for every value.                                           *)
(***************************************************************************)
EXTENDS MCSettings, DamageProofs

Watched ==
    luck # "no" =>
       \E n \in Nodes :
          /\ bus[n] = "camera"
          /\ step = "open" => n \in todo \/ (saw /\ luck = "stood")
          /\ step = "probe" => node = n /\ fd = "live"
          /\ step # "absent"

Steady ==
    /\ luck = "steady" => ready /\ step # "resetting"
    /\ step = "open" => todo # {}

Held == step \in {"probe", "found", "work"} /\ ~left => bus[node] = "camera"

Clean ==
    /\ step # "no" => reply = "none"
    /\ astray => left /\ (step = "work" \/ reply # "none")

ScanInv == ScanTypeOK /\ Watched /\ Steady
SettingsInv == ScanInv /\ Held /\ Clean

-----------------------------------------------------------------------------
(* The first candidate of the scan is a candidate.                         *)
LEMMA MinIn == ASSUME NEW T \in SUBSET Nodes, T # {} PROVE Min(T) \in T
  <1>1. T \in SUBSET Nat /\ IsFiniteSet(T)
    BY FS_Subset, DiscoveryAssumption
  <1>2. \E z \in T : \A y \in T : z <= y
    BY <1>1, LeastIn
  <1> QED  BY <1>2 DEF Min

LEMMA FirstNode == Min(Nodes) \in Nodes
  BY MinIn, DiscoveryAssumption

LEMMA InitSettings == Init => SettingsInv
  <1> SUFFICES ASSUME Init PROVE SettingsInv
    OBVIOUS
  <1> USE DEF Init, ScanInit
  <1>1. ScanTypeOK
    <2>1. bus \in Buses /\ node \in Nodes
      BY FirstNode, DiscoveryAssumption
    <2>2. faults \in 0..MaxFaults /\ changes \in 0..MaxChanges
      BY DiscoveryAssumption
    <2> QED  BY <2>1, <2>2 DEF ScanTypeOK
  <1>2. Watched /\ Steady /\ Held /\ Clean
    BY DEF Watched, Steady, Held, Clean
  <1> QED  BY <1>1, <1>2 DEF SettingsInv, ScanInv

-----------------------------------------------------------------------------
(* The steps of the scan.                                                  *)
LEMMA ListStep == ASSUME SettingsInv, List, UNCHANGED tool PROVE SettingsInv'
  <1> USE DEF SettingsInv, ScanInv, List
  <1>1. ScanTypeOK'
    BY DEF ScanTypeOK, Verdict
  <1>2. Watched' /\ Steady'
    <2> SUFFICES ASSUME luck' # "no" PROVE Watched' /\ Steady'
      BY DEF Watched, Steady, Verdict
    <2>1. PICK n \in Nodes : bus[n] = "camera"
      BY DEF Present
    <2>2. n \in todo' /\ step' = "open"
      BY <2>1
    <2> QED  BY <2>1, <2>2 DEF Watched, Steady
  <1>3. Held' /\ Clean'
    BY DEF Held, Clean, Verdict, tool
  <1> QED  BY <1>1, <1>2, <1>3

LEMMA OpenStep == ASSUME SettingsInv, Open, UNCHANGED tool PROVE SettingsInv'
  <1> USE DEF SettingsInv, ScanInv
  <1>1. PICK n \in {Min(todo)}, e \in {"fine"} \cup Faults :
           /\ Meets(e)
           /\ IF e = "fine" /\ Matches(bus[n])
              THEN /\ step' = "probe" /\ node' = n /\ fd' = "live"
                   /\ left' = FALSE
                   /\ UNCHANGED todo
              ELSE Skip(n, saw) /\ UNCHANGED <<node, fd, left>>
           /\ luck' = IF e = "fine" \/ bus[n] # "camera" THEN luck ELSE "no"
    BY DEF Open
  <1>2. step = "open" /\ UNCHANGED <<bus, ready, saw, changes>>
    BY DEF Open
  <1>3. n \in Nodes /\ n = Min(todo)
    BY <1>2, MinIn, DiscoveryAssumption DEF ScanTypeOK, Steady
  <1>4. faults' \in 0..MaxFaults
    BY <1>1, DiscoveryAssumption DEF Meets, ScanTypeOK
  <1>5. luck' # "no" => luck' = luck /\ (e = "fine" \/ bus[n] # "camera")
    BY <1>1
  <1>6. CASE e = "fine" /\ Matches(bus[n])
    <2>1. /\ step' = "probe" /\ node' = n /\ fd' = "live" /\ left' = FALSE
          /\ bus[n] = "camera" /\ UNCHANGED todo
      BY <1>1, <1>6 DEF Matches
    <2>2. ScanTypeOK'
      BY <1>1, <1>2, <1>3, <1>4, <2>1 DEF ScanTypeOK
    <2>3. Watched' /\ Steady'
      BY <1>2, <1>3, <1>5, <2>1 DEF Watched, Steady, ScanTypeOK, Buses
    <2>4. Held' /\ Clean'
      BY <1>2, <2>1 DEF Held, Clean, tool
    <2> QED  BY <2>2, <2>3, <2>4
  <1>7. CASE ~(e = "fine" /\ Matches(bus[n]))
    <2>1. /\ todo' = todo \ {n}
          /\ step' = IF todo' = {} THEN Verdict(saw) ELSE "open"
          /\ UNCHANGED <<node, fd, left>>
      BY <1>1, <1>7 DEF Skip
    <2>2. ScanTypeOK'
      BY <1>1, <1>2, <1>4, <2>1 DEF ScanTypeOK, Verdict
    <2>3. Watched' /\ Steady'
      <3>1. Steady' \/ luck' # "no"
        BY <2>1 DEF Steady, Verdict
      <3> SUFFICES ASSUME luck' # "no" PROVE Watched' /\ Steady'
        BY <2>1, <3>1 DEF Watched
      <3>2. PICK m \in Nodes :
               bus[m] = "camera" /\ (m \in todo \/ (saw /\ luck = "stood"))
        BY <1>2, <1>5 DEF Watched
      <3>3. m # n
        BY <1>5, <1>7, <3>2 DEF Matches
      <3>4. m \in todo' \/ (saw /\ luck = "stood")
        BY <2>1, <3>2, <3>3
      <3>5. step' # "absent" /\ (step' = "resetting" => luck = "stood")
        BY <2>1, <3>4 DEF Verdict
      <3>6. step' # "probe" /\ (step' = "open" => todo' # {})
        BY <2>1 DEF Verdict
      <3>7. Watched'
        BY <1>2, <1>5, <3>2, <3>4, <3>5, <3>6 DEF Watched
      <3>8. Steady'
        BY <1>2, <1>5, <3>5, <3>6 DEF Steady
      <3> QED  BY <3>7, <3>8
    <2>4. Held' /\ Clean'
      BY <1>2, <2>1 DEF Held, Clean, tool, Verdict
    <2> QED  BY <2>2, <2>3, <2>4
  <1> QED  BY <1>6, <1>7

LEMMA ProbeStep == ASSUME SettingsInv, Probe, UNCHANGED tool PROVE SettingsInv'
  <1> USE DEF SettingsInv, ScanInv
  <1>1. PICK e \in {"fine"} \cup Faults :
           /\ Meets(e)
           /\ IF e = "fine" /\ fd = "live" /\ (bus[node] = "camera" => ready)
              THEN step' = "found" /\ UNCHANGED <<todo, saw>>
              ELSE Skip(node, TRUE) /\ saw' = TRUE
           /\ luck' = IF e = "fine" \/ luck = "no" THEN luck ELSE "stood"
    BY DEF Probe
  <1>2. /\ step = "probe" /\ fd' = "none"
        /\ UNCHANGED <<bus, ready, node, left, changes>>
    BY DEF Probe
  <1>3. faults' \in 0..MaxFaults
    BY <1>1, DiscoveryAssumption DEF Meets, ScanTypeOK
  <1>4. \/ step' = "found" /\ UNCHANGED <<todo, saw>>
        \/ /\ saw' = TRUE /\ todo' = todo \ {node}
           /\ step' = IF todo' = {} THEN "resetting" ELSE "open"
    BY <1>1 DEF Skip, Verdict
  <1>5. ScanTypeOK'
    BY <1>1, <1>2, <1>3, <1>4 DEF ScanTypeOK
  <1>6. luck' = "steady" => luck = "steady" /\ step' = "found"
    BY <1>1, <1>2 DEF Watched, Steady
  <1>7. luck' # "no" => luck # "no" /\ luck' \in {"steady", "stood"}
    BY <1>1 DEF ScanTypeOK
  <1>8. Watched'
    BY <1>2, <1>4, <1>6, <1>7 DEF Watched
  <1>9. Steady'
    BY <1>2, <1>4, <1>6 DEF Steady
  <1>10. Held' /\ Clean'
    BY <1>2, <1>4 DEF Held, Clean, tool
  <1> QED  BY <1>5, <1>8, <1>9, <1>10

-----------------------------------------------------------------------------
(* The steps of the call.                                                  *)
LEMMA CallStep ==
    ASSUME SettingsInv, NotFound \/ Enter \/ Deliver \/ \E r \in Asked : Begin(r)
    PROVE  SettingsInv'
  <1> USE DEF SettingsInv, ScanInv, ScanTypeOK, Watched, Steady, Held, Clean
  <1>1. CASE NotFound
    BY <1>1 DEF NotFound, Answered
  <1>2. CASE Enter
    BY <1>2 DEF Enter, Answered
  <1>3. CASE Deliver
    BY <1>3, FirstNode DEF Deliver, Forget
  <1>4. CASE \E r \in Asked : Begin(r)
    BY <1>4 DEF Begin
  <1> QED  BY <1>1, <1>2, <1>3, <1>4

LEMMA AccessStep == ASSUME SettingsInv, Access PROVE SettingsInv'
  <1> USE DEF SettingsInv, ScanInv
  <1> DEFINE a == Head(plan)
  <1>1. PICK e \in Outcomes(a) :
           /\ IF e = "fine" THEN Proceed ELSE Raised(e)
           /\ faults' = IF e \in Faults /\ faults > 0 THEN faults - 1 ELSE faults
           /\ astray' = (astray \/ (e = "fine" /\ At(a) = "other" /\ a.via # "query"))
    BY DEF Access
  <1>2. /\ step = "work"
        /\ UNCHANGED <<bus, ready, todo, saw, node, luck, left, changes>>
    BY DEF Access
  <1>3. \/ step' = "no" /\ reply' \in {"ok", "error", "unavailable"} /\ fd' = "none"
        \/ UNCHANGED <<step, reply>> /\ fd' \in {"live", fd}
    BY <1>1, Zenon DEF Proceed, Raised, Answered
  <1>4. astray' => left
    BY <1>1, <1>2 DEF At, Held, Clean
  <1>5. faults' \in 0..MaxFaults
    BY <1>1, DiscoveryAssumption DEF ScanTypeOK
  <1>6. ScanTypeOK'
    BY <1>2, <1>3, <1>5 DEF ScanTypeOK
  <1>7. Watched' /\ Steady'
    BY <1>2, <1>3 DEF Watched, Steady
  <1>8. Held' /\ Clean'
    BY <1>2, <1>3, <1>4 DEF Held, Clean
  <1> QED  BY <1>6, <1>7, <1>8

-----------------------------------------------------------------------------
(* The steps of the bus.                                                   *)
LEMMA LeaveStep ==
    ASSUME SettingsInv, NEW n \in Nodes, Leave(n), UNCHANGED tool PROVE SettingsInv'
  <1> USE DEF SettingsInv, ScanInv, Leave
  <1>1. ScanTypeOK'
    BY DiscoveryAssumption DEF ScanTypeOK, Buses, Kinds
  <1>2. Watched'
    BY DEF Watched, ScanTypeOK, Buses
  <1>3. Steady'
    BY DEF Steady
  <1>4. Held' /\ Clean'
    BY DEF Held, Clean, tool, ScanTypeOK, Buses
  <1> QED  BY <1>1, <1>2, <1>3, <1>4

LEMMA ComeStep ==
    ASSUME SettingsInv, NEW n \in Nodes, NEW kind \in Kinds, Come(n, kind),
           UNCHANGED <<reply, astray>>
    PROVE  SettingsInv'
  <1> USE DEF SettingsInv, ScanInv, Come
  <1>1. bus' \in Buses
    BY DEF ScanTypeOK, Buses, Present
  <1>2. ScanTypeOK'
    BY <1>1, DiscoveryAssumption DEF ScanTypeOK, scan
  <1>3. luck # "no" => kind # "camera"
    BY DEF Watched, Present
  <1>4. Watched' /\ Steady'
    BY <1>3 DEF Watched, Steady, ScanTypeOK, Buses, scan
  <1>5. Held' /\ Clean'
    BY DEF Held, Clean, ScanTypeOK, Buses, scan
  <1> QED  BY <1>2, <1>4, <1>5

LEMMA HangStep ==
    ASSUME SettingsInv, Hang \/ Recover, UNCHANGED tool PROVE SettingsInv'
  <1> USE DEF SettingsInv, ScanInv, Hang, Recover, scan, tool
  <1>1. changes' \in 0..MaxChanges
    BY DiscoveryAssumption DEF ScanTypeOK
  <1>2. ScanTypeOK'
    BY <1>1 DEF ScanTypeOK
  <1>3. Watched' /\ Steady'
    BY DEF Watched, Steady
  <1>4. Held' /\ Clean'
    BY DEF Held, Clean
  <1> QED  BY <1>2, <1>3, <1>4

LEMMA NextSettings == SettingsInv /\ [Next]_vars => SettingsInv'
  <1> SUFFICES ASSUME SettingsInv, [Next]_vars PROVE SettingsInv'
    OBVIOUS
  <1>1. CASE Work
    BY <1>1, ListStep, OpenStep, ProbeStep, CallStep, AccessStep DEF Work, Scan
  <1>2. CASE BusLeaves \/ BusHangs
    BY <1>2, LeaveStep, HangStep DEF BusLeaves, BusHangs
  <1>3. CASE BusComes
    BY <1>3, ComeStep DEF BusComes, worker
  <1>4. CASE UNCHANGED vars
    BY <1>4
    DEF vars, discovery, scan, tool, SettingsInv, ScanInv, ScanTypeOK, Watched,
        Steady, Held, Clean
  <1> QED  BY <1>1, <1>2, <1>3, <1>4, CallStep DEF Next

-----------------------------------------------------------------------------
(* find_camera misses no camera that stands at its node, opens and answers *)
(* from the listing of the nodes on, whatever happens at the others.       *)
THEOREM SteadyFound == Spec => []SteadyIsFound
  <1>1. SettingsInv => SteadyIsFound
    BY DEF SettingsInv, ScanInv, Watched, Steady, SteadyIsFound
  <1> QED  BY InitSettings, NextSettings, <1>1, PTL DEF Spec

(* find_camera calls no camera absent that stood at its node and opened,   *)
(* though it did not answer the probe.                                     *)
THEOREM ResetTold == Spec => []ResetIsTold
  <1>1. SettingsInv => ResetIsTold
    BY DEF SettingsInv, ScanInv, Watched, ResetIsTold
  <1> QED  BY InitSettings, NextSettings, <1>1, PTL DEF Spec

(* A settings tool writes to another device only when the camera has left  *)
(* the node under which this call found it.                                *)
THEOREM CameraOnly == Spec => []OnlyTheCamera
  <1>1. SettingsInv => OnlyTheCamera
    BY DEF SettingsInv, Clean, OnlyTheCamera
  <1> QED  BY InitSettings, NextSettings, <1>1, PTL DEF Spec

-----------------------------------------------------------------------------
(* The ranges by the name of the setting.                                  *)
LEMMA RangeIs ==
    /\ \A k \in Switches : RangeOf[k] = <<0, 1>>
    /\ RangeOf["fov"] = <<0, 3>> /\ RangeOf["raw"] = <<1, 2500>>
    /\ RangeOf["focus"] = FocusRange /\ RangeOf["image"] = ImageRange
    /\ RangeOf["wb"] = KelvinRange
  BY DEF RangeOf, Keys, Switches, ExposureRange

(* percent_to_range of a clamped level is in the range of the control, and *)
(* as near to the level as a whole number of its units can be.             *)
LEMMA ScaledNear ==
    ASSUME NEW level \in Int, NEW lo \in Int, NEW hi \in Int, lo <= hi
    PROVE  LET x == PercentToRange(Clamped(level, 0, 100), lo, hi)
               err == 100 * (x - lo) - (hi - lo) * Clamped(level, 0, 100)
           IN x \in lo..hi /\ -50 <= err /\ err <= 50
  <1>1. Clamped(level, 0, 100) \in 0..100
    BY DEF Clamped
  <1> QED  BY <1>1, PercentNear, Zenon

(* The elements of a sequence, and a number that its width does not cut.   *)
LEMMA ElementsOf ==
    ASSUME NEW S, NEW s \in Seq(S)
    PROVE  DOMAIN s = 1..Len(s) /\ Len(s) \in Nat /\ \A i \in 1..Len(s) : s[i] \in S
  OBVIOUS

LEMMA SmallMod ==
    ASSUME NEW m \in Nat, NEW x \in 0..m PROVE x % (m + 1) = x
  OBVIOUS

-----------------------------------------------------------------------------
(* The number of frame j is that of frame i and j - i more, past SeqMax    *)
(* back to 1, and _seq is the number of the last frame.                    *)
Numbered ==
    /\ lastSeq \in 0..SeqMax
    /\ wire \in Seq(1..SeqMax)
    /\ wire # <<>> => lastSeq = wire[Len(wire)]
    /\ \A i, j \in 1..Len(wire) :
          i <= j /\ j < i + SeqMax =>
             wire[j] = IF wire[i] + (j - i) <= SeqMax THEN wire[i] + (j - i)
                       ELSE wire[i] + (j - i) - SeqMax

LEMMA SeqMaxIs == SeqMax \in Nat /\ SeqMax >= 2
  BY SettingsAssumption

(* A vendor command takes the next number of the cycle.                    *)
LEMMA NumberStep ==
    ASSUME Numbered, lastSeq' = NextSeq(lastSeq, SeqMax),
           wire' = Append(wire, lastSeq' % (SeqMax + 1))
    PROVE  Numbered'
  <1> USE SeqMaxIs
  <1> DEFINE n == Len(wire)
             After(x, d) == IF x + d <= SeqMax THEN x + d ELSE x + d - SeqMax
  <1>1. lastSeq \in 0..SeqMax /\ wire \in Seq(1..SeqMax)
    BY DEF Numbered
  <1>2. lastSeq' \in 1..SeqMax
    BY <1>1 DEF NextSeq
  <1>3. lastSeq' % (SeqMax + 1) = lastSeq'
    BY <1>2, SmallMod
  <1>4. wire' = Append(wire, lastSeq') /\ wire' \in Seq(1..SeqMax)
    BY <1>1, <1>2, <1>3
  <1>5. /\ n \in Nat /\ Len(wire') = n + 1
        /\ wire'[n + 1] = lastSeq'
        /\ \A i \in 1..n : wire'[i] = wire[i] /\ wire[i] \in 1..SeqMax
    BY <1>1, <1>2, <1>4
  <1>6. ASSUME NEW i \in 1..n + 1, NEW j \in 1..n + 1, i <= j, j < i + SeqMax
        PROVE  wire'[j] = After(wire'[i], j - i)
    <2>1. CASE j <= n
      <3>1. i \in 1..n /\ j \in 1..n
        BY <1>5, <1>6, <2>1
      <3>2. wire[j] = After(wire[i], j - i)
        BY <1>6, <3>1 DEF Numbered
      <3> QED  BY <1>5, <3>1, <3>2
    <2>2. CASE j = n + 1 /\ i = j
      BY <1>2, <1>5, <2>2
    <2>3. CASE j = n + 1 /\ i # j
      <3>1. i \in 1..n /\ n \in 1..n /\ i <= n /\ n < i + SeqMax
        BY <1>5, <1>6, <2>3
      <3>2. wire[n] = After(wire[i], n - i)
        BY <3>1 DEF Numbered
      <3>3. wire[n] = lastSeq
        BY <1>1, <3>1 DEF Numbered
      <3>4. wire'[j] = NextSeq(lastSeq, SeqMax) /\ wire'[i] = wire[i] /\ wire[i] \in 1..SeqMax
        BY <1>5, <2>3, <3>1
      <3> HIDE DEF n
      <3>5. n \in Int /\ i \in Int /\ j - i = (n - i) + 1 /\ n - i >= 0 /\ n - i < SeqMax - 1
        BY <1>5, <1>6, <2>3, <3>1
      <3>6. PICK x \in 1..SeqMax, d \in 0..SeqMax - 2 :
               x = wire[i] /\ d = n - i /\ j - i = d + 1
        BY <3>4, <3>5
      <3> HIDE DEF After
      <3>7. lastSeq = After(x, d)
        BY <3>2, <3>3, <3>6
      <3>8. NextSeq(After(x, d), SeqMax) = After(x, d + 1)
        BY DEF NextSeq, After
      <3> QED  BY <3>4, <3>6, <3>7, <3>8
    <2> QED  BY <1>5, <2>1, <2>2, <2>3
  <1>7. lastSeq' \in 0..SeqMax
    BY <1>2
  <1>8. wire'[Len(wire')] = lastSeq'
    BY <1>5
  <1>9. \A i, j \in 1..Len(wire') :
           i <= j /\ j < i + SeqMax => wire'[j] = After(wire'[i], j - i)
    BY <1>5, <1>6
  <1> QED  BY <1>4, <1>7, <1>8, <1>9, Zenon DEF Numbered

LEMMA InitNumbered == Init => Numbered
  BY SettingsAssumption DEF Init, Numbered

LEMMA NextNumbered == Numbered /\ [Next]_vars => Numbered'
  <1> SUFFICES ASSUME Numbered, [Next]_vars PROVE Numbered'
    OBVIOUS
  <1>1. CASE Access
    <2>1. CASE Head(plan).via = "vendor"
      BY <1>1, <2>1, NumberStep DEF Access
    <2>2. CASE Head(plan).via # "vendor"
      BY <1>1, <2>2 DEF Access, Numbered
    <2> QED  BY <2>1, <2>2
  <1>2. CASE UNCHANGED <<lastSeq, wire>>
    BY <1>2 DEF Numbered
  <1>3. Access \/ UNCHANGED <<lastSeq, wire>>
    BY DEF Next, Work, Begin, NotFound, Enter, Deliver, BusLeaves, BusComes, BusHangs,
           worker, tool, vars
  <1> QED  BY <1>1, <1>2, <1>3

(* No frame of a vendor command is numbered 0, and of any SeqMax frames in *)
(* a row no two have the same number: over the wrap of 0xFFFF, and however *)
(* many of them failed (camera.py's _next_seq).                            *)
THEOREM FramesDiffer == Spec => []NumbersDiffer
  <1>1. Numbered => NumbersDiffer
    <2> SUFFICES ASSUME Numbered, NEW i \in DOMAIN wire
                 PROVE  /\ wire[i] # 0
                        /\ \A j \in i + 1..i + SeqMax - 1 :
                              j \in DOMAIN wire => wire[j] # wire[i]
      BY DEF NumbersDiffer
    <2>1. wire \in Seq(1..SeqMax)
      BY DEF Numbered
    <2>2. i \in 1..Len(wire) /\ DOMAIN wire = 1..Len(wire) /\ wire[i] \in 1..SeqMax
      <3>1. DOMAIN wire = 1..Len(wire) /\ \A h \in 1..Len(wire) : wire[h] \in 1..SeqMax
        BY <2>1, ElementsOf
      <3> QED  BY <3>1
    <2>3. ASSUME NEW j \in i + 1..i + SeqMax - 1, j \in DOMAIN wire PROVE wire[j] # wire[i]
      <3>1. j \in 1..Len(wire) /\ i < j /\ j < i + SeqMax
        BY <2>2, <2>3, SeqMaxIs
      <3>2. wire[j] = IF wire[i] + (j - i) <= SeqMax THEN wire[i] + (j - i)
                      ELSE wire[i] + (j - i) - SeqMax
        BY <2>2, <3>1 DEF Numbered
      <3> QED  BY <2>2, <3>1, <3>2, SeqMaxIs
    <2> QED  BY <2>2, <2>3, SeqMaxIs
  <1> QED  BY InitNumbered, NextNumbered, <1>1, PTL DEF Spec
-----------------------------------------------------------------------------
(* An access says v of the setting k; one of a sequence of accesses does.  *)
Says(a, k, v) == k \in DOMAIN a.sets /\ a.sets[k] = v
Orders(s, k, v) == \E i \in 1..Len(s) : Says(s[i], k, v)

(* The switch that has to be off for a write of the setting to be obeyed.  *)
Gate == [focus |-> "focusAuto", wb |-> "wbAuto", faceAe |-> "manual"]

(* An access the methods make: its settings have values in their ranges.   *)
IsAccess(a) ==
    /\ DOMAIN a = {"via", "opens", "sets"}
    /\ a.via \in {"vendor", "buffer", "control", "query"} /\ a.opens \in BOOLEAN
    /\ DOMAIN a.sets \subseteq Keys
    /\ \A k \in DOMAIN a.sets : a.sets[k] \in RangeOf[k][1]..RangeOf[k][2]

(* The i-th access of s sets only what is in K, nothing that an earlier    *)
(* one set, and a setting with a gate, G aside, after its gate was opened. *)
Apt(s, i, K, G) ==
    /\ IsAccess(s[i]) /\ DOMAIN s[i].sets \subseteq K
    /\ \A j \in 1..i - 1 : DOMAIN s[i].sets \cap DOMAIN s[j].sets = {}
    /\ \A k \in DOMAIN s[i].sets \cap DOMAIN Gate :
          k \in G \/ \E j \in 1..i - 1 : Says(s[j], Gate[k], 0)

(* A sequence of apt accesses.                                             *)
Good(s, K, G) == (\E S : s \in Seq(S)) /\ \A i \in 1..Len(s) : Apt(s, i, K, G)

(* Methods one after the other, of different settings: what the second one *)
(* leaves to the first, G, the first one has to order.                     *)
LEMMA Joined ==
    ASSUME NEW s, NEW t, NEW K, NEW L, NEW G,
           Good(s, K, {}), Good(t, L, G), K \cap L = {},
           \A k \in G : Orders(s, Gate[k], 0)
    PROVE  Good(s \o t, K \cup L, {})
  <1>1. PICK S : s \in Seq(S)
    BY DEF Good
  <1>2. PICK T : t \in Seq(T)
    BY DEF Good
  <1> DEFINE U == S \cup T
             m == Len(s)
             n == Len(t)
             u == s \o t
  <1>3. s \in Seq(U) /\ t \in Seq(U)
    BY <1>1, <1>2
  <1>4. /\ u \in Seq(U) /\ Len(u) = m + n /\ m \in Nat /\ n \in Nat
        /\ \A i \in 1..m : u[i] = s[i]
        /\ \A i \in 1..n : u[m + i] = t[i]
    BY <1>3
  <1> HIDE DEF U, m, n, u
  <1>5. ASSUME NEW i \in 1..m PROVE Apt(u, i, K \cup L, {})
    <2>1. Apt(s, i, K, {})
      BY DEF Good, m
    <2>2. \A j \in 1..i - 1 : j \in 1..m
      BY <1>4
    <2> QED  BY <1>4, <2>1, <2>2 DEF Apt
  <1>6. ASSUME NEW i \in 1..n, NEW x, x = m + i PROVE Apt(u, x, K \cup L, {})
    <2>1. Apt(t, i, L, G) /\ u[x] = t[i]
      BY <1>4, <1>6 DEF Good, n
    <2>2. ASSUME NEW j \in 1..x - 1
          PROVE  DOMAIN u[x].sets \cap DOMAIN u[j].sets = {}
      <3>1. CASE j \in 1..m
        BY <1>4, <2>1, <3>1 DEF Apt, Good, m
      <3>2. CASE j \notin 1..m
        <4>1. PICK h \in 1..i - 1 : j = m + h /\ h \in 1..n
          <5>1. j - m \in 1..i - 1 /\ j = m + (j - m) /\ j - m \in 1..n
            BY <1>4, <1>6, <3>2
          <5> QED  BY <5>1
        <4> QED  BY <1>4, <2>1, <4>1 DEF Apt
      <3> QED  BY <3>1, <3>2
    <2>3. ASSUME NEW k \in DOMAIN u[x].sets \cap DOMAIN Gate
          PROVE  \E j \in 1..x - 1 : Says(u[j], Gate[k], 0)
      <3>1. CASE k \in G
        <4>1. PICK j \in 1..m : Says(s[j], Gate[k], 0)
          BY <3>1 DEF Orders, m
        <4>2. j \in 1..x - 1 /\ u[j] = s[j]
          BY <1>4, <1>6
        <4> QED  BY <4>1, <4>2
      <3>2. CASE k \notin G
        <4>1. PICK j \in 1..i - 1 : Says(t[j], Gate[k], 0)
          BY <2>1, <2>3, <3>2 DEF Apt
        <4>2. m + j \in 1..x - 1 /\ u[m + j] = t[j]
          BY <1>4, <1>6
        <4> QED  BY <4>1, <4>2
      <3> QED  BY <3>1, <3>2
    <2>4. IsAccess(u[x]) /\ DOMAIN u[x].sets \subseteq K \cup L
      BY <2>1 DEF Apt
    <2> QED  BY <2>2, <2>3, <2>4 DEF Apt
  <1>7. \A i \in 1..Len(u) : i \in 1..m \/ \E h \in 1..n : i = m + h
    <2> SUFFICES ASSUME NEW i \in 1..Len(u), i \notin 1..m
                 PROVE  \E h \in 1..n : i = m + h
      OBVIOUS
    <2>1. i - m \in 1..n /\ i = m + (i - m)
      BY <1>4
    <2> QED  BY <2>1
  <1>8. \A i \in 1..Len(u) : Apt(u, i, K \cup L, {})
    BY <1>5, <1>6, <1>7
  <1> QED  BY <1>4, <1>8 DEF Good, u

(* What either method orders, both in a row order.                         *)
LEMMA OrdersJoined ==
    ASSUME NEW s, NEW t, NEW K, NEW L, NEW G, Good(s, K, {}), Good(t, L, G),
           NEW k, NEW v, Orders(s, k, v) \/ Orders(t, k, v)
    PROVE  Orders(s \o t, k, v)
  <1>1. PICK S : s \in Seq(S)
    BY DEF Good
  <1>2. PICK T : t \in Seq(T)
    BY DEF Good
  <1> DEFINE U == S \cup T
             u == s \o t
  <1>3. s \in Seq(U) /\ t \in Seq(U)
    BY <1>1, <1>2
  <1>4. /\ Len(u) = Len(s) + Len(t) /\ Len(s) \in Nat /\ Len(t) \in Nat
        /\ \A i \in 1..Len(s) : u[i] = s[i] /\ i \in 1..Len(u)
        /\ \A i \in 1..Len(t) : u[Len(s) + i] = t[i] /\ Len(s) + i \in 1..Len(u)
    BY <1>3
  <1> HIDE DEF u
  <1>5. Orders(u, k, v)
    BY <1>4 DEF Orders
  <1> QED  BY <1>5 DEF u

(* One access by itself.                                                   *)
LEMMA Single ==
    ASSUME NEW a, NEW K, NEW G, IsAccess(a), DOMAIN a.sets \subseteq K,
           DOMAIN a.sets \cap DOMAIN Gate \subseteq G
    PROVE  /\ Good(<<a>>, K, G)
           /\ \A k \in DOMAIN a.sets : Orders(<<a>>, k, a.sets[k])
  <1> DEFINE s == <<a>>
  <1>1. s \in Seq({a}) /\ Len(s) = 1 /\ s[1] = a
    OBVIOUS
  <1> HIDE DEF s
  <1>2. Apt(s, 1, K, G)
    BY <1>1 DEF Apt
  <1>3. Good(s, K, G)
    BY <1>1, <1>2 DEF Good
  <1>4. \A k \in DOMAIN a.sets : Orders(s, k, a.sets[k])
    BY <1>1 DEF Orders, Says
  <1> QED  BY <1>3, <1>4 DEF s

(* No access at all.                                                       *)
LEMMA Empty == ASSUME NEW K PROVE Good(<<>>, K, {}) /\ Len(<<>>) = 0
  <1>1. <<>> \in Seq({}) /\ Len(<<>>) = 0
    OBVIOUS
  <1> QED  BY <1>1 DEF Good

(* That its first access opens the node changes nothing of the above.      *)
LEMMA Opened ==
    ASSUME NEW s, NEW K, Good(s, K, {}), Len(s) >= 1
    PROVE  /\ Good(Opening(s), K, {})
           /\ \A k, v : Orders(s, k, v) => Orders(Opening(s), k, v)
  <1>1. PICK S : s \in Seq(S)
    BY DEF Good
  <1> DEFINE x == [s[1] EXCEPT !.opens = TRUE]
             U == S \cup {x}
             o == Opening(s)
             n == Len(s)
  <1>2. /\ s \in [1..n -> S] /\ n \in Nat /\ 1 \in 1..n
    BY <1>1
  <1>3. o = [s EXCEPT ![1] = x]
    BY DEF Opening
  <1> HIDE DEF x
  <1>4. o \in [1..n -> U]
    BY <1>2, <1>3
  <1>5. o \in Seq(U) /\ Len(o) = n
    BY <1>2, <1>4
  <1>6. \A i \in 1..n : o[i] = IF i = 1 THEN x ELSE s[i]
    BY <1>2, <1>3
  <1>7. IsAccess(s[1])
    BY <1>2 DEF Good, Apt
  <1>8. IsAccess(x) /\ x.sets = s[1].sets
    BY <1>7 DEF x, IsAccess
  <1>9. \A i \in 1..n : o[i].sets = s[i].sets /\ (IsAccess(s[i]) => IsAccess(o[i]))
    BY <1>6, <1>8
  <1> HIDE DEF o, n
  <1>10. ASSUME NEW i \in 1..n PROVE Apt(o, i, K, {})
    <2>1. Apt(s, i, K, {})
      BY DEF Good, n
    <2>2. \A j \in 1..i - 1 : j \in 1..n
      BY <1>2
    <2>3. \A j \in 1..i - 1 : o[j].sets = s[j].sets
      BY <1>9, <2>2
    <2>4. o[i].sets = s[i].sets /\ (IsAccess(s[i]) => IsAccess(o[i]))
      BY <1>9
    <2> QED  BY <2>1, <2>3, <2>4 DEF Apt, Says
  <1>11. Good(o, K, {})
    BY <1>5, <1>10 DEF Good, n
  <1>12. \A k, v : Orders(s, k, v) => Orders(o, k, v)
    BY <1>5, <1>9 DEF Orders, Says, n
  <1> QED  BY <1>11, <1>12 DEF o

-----------------------------------------------------------------------------
(* The ranges of the device are not empty.                                 *)
LEMMA RangesAre ==
    \A r \in {FocusRange, ImageRange, KelvinRange} :
       r[1] \in Int /\ r[2] \in Int /\ r[1] <= r[2]
  BY SettingsAssumption

(* A method with one setting, by any way.                                  *)
LEMMA OneSetting ==
    ASSUME NEW k \in Keys, NEW v \in RangeOf[k][1]..RangeOf[k][2],
           NEW sets, DOMAIN sets = {k}, sets[k] = v, NEW G,
           k \in DOMAIN Gate => k \in G
    PROVE  /\ Good(Vendor(sets), {k}, G) /\ Orders(Vendor(sets), k, v)
           /\ Good(Buffer(sets), {k}, G) /\ Orders(Buffer(sets), k, v)
           /\ Good(Control(sets), {k}, G) /\ Orders(Control(sets), k, v)
  <1>1. ASSUME NEW via \in {"vendor", "buffer", "control"}, NEW opens \in BOOLEAN
        PROVE  LET s == <<[via |-> via, opens |-> opens, sets |-> sets]>>
               IN Good(s, {k}, G) /\ Orders(s, k, v)
    <2> DEFINE a == [via |-> via, opens |-> opens, sets |-> sets]
    <2>1. IsAccess(a) /\ a.sets = sets
      BY DEF IsAccess
    <2> HIDE DEF a
    <2>2. Good(<<a>>, {k}, G) /\ Orders(<<a>>, k, v)
      BY <2>1, Single
    <2> QED  BY <2>2 DEF a
  <1> QED  BY <1>1 DEF Vendor, Buffer, Control

(* The query of a range sets nothing.                                      *)
LEMMA QueryGood == Good(Query, {}, {})
  <1> DEFINE a == [via |-> "query", opens |-> FALSE, sets |-> <<>>]
  <1>1. IsAccess(a) /\ DOMAIN a.sets = {}
    BY DEF IsAccess
  <1> HIDE DEF a
  <1>2. Good(<<a>>, {}, {})
    BY <1>1, Single
  <1> QED  BY <1>2 DEF a, Query

(* What the methods write is in range, whatever the client passed.         *)
LEMMA InRange ==
    /\ \A k \in Switches, b \in BOOLEAN : k \in Keys /\ On(b) \in RangeOf[k][1]..RangeOf[k][2]
    /\ \A k \in Switches : {0, 1} \subseteq RangeOf[k][1]..RangeOf[k][2]
    /\ \A l \in Levels, k \in {"focus", "image", "raw"} :
          k \in Keys /\ Scaled(l, RangeOf[k]) \in RangeOf[k][1]..RangeOf[k][2]
    /\ \A k \in Kelvins : Kelvin(k) \in RangeOf["wb"][1]..RangeOf["wb"][2]
    /\ \A fov \in {"narrow"} : FovValue[fov] \in RangeOf["fov"][1]..RangeOf["fov"][2]
  <1>1. \A k \in Switches, b \in BOOLEAN :
           k \in Keys /\ On(b) \in RangeOf[k][1]..RangeOf[k][2]
    BY RangeIs DEF On, Keys
  <1>2. \A k \in Switches : {0, 1} \subseteq RangeOf[k][1]..RangeOf[k][2]
    BY RangeIs
  <1>3. ASSUME NEW l \in Levels, NEW k \in {"focus", "image", "raw"}
        PROVE  k \in Keys /\ Scaled(l, RangeOf[k]) \in RangeOf[k][1]..RangeOf[k][2]
    <2>1. RangeOf[k][1] \in Int /\ RangeOf[k][2] \in Int /\ RangeOf[k][1] <= RangeOf[k][2]
      BY RangeIs, RangesAre
    <2>2. l \in Int /\ k \in Keys
      BY SettingsAssumption DEF Keys
    <2> QED  BY <2>1, <2>2, ScaledNear DEF Scaled
  <1>4. \A k \in Kelvins : Kelvin(k) \in RangeOf["wb"][1]..RangeOf["wb"][2]
    BY RangeIs, RangesAre, SettingsAssumption DEF Kelvin, Clamped
  <1>5. FovValue["narrow"] \in RangeOf["fov"][1]..RangeOf["fov"][2]
    BY RangeIs DEF FovValue
  <1> QED  BY <1>1, <1>2, <1>3, <1>4, <1>5

(* The methods of camera.py one by one: switches, the field of view,       *)
(* focus, white balance, the image controls, and the exposure.             *)
LEMMA SwitchMethods ==
    ASSUME NEW b \in BOOLEAN
    PROVE  /\ Good(TrackSpeed(b), {"sport"}, {}) /\ Orders(TrackSpeed(b), "sport", On(b))
           /\ Good(FaceFocus(b), {"faceFocus"}, {})
           /\ Orders(FaceFocus(b), "faceFocus", On(b))
           /\ Good(FaceAe(b), {"faceAe"}, {"faceAe"}) /\ Orders(FaceAe(b), "faceAe", On(b))
           /\ Good(Hdr(b), {"hdr"}, {}) /\ Orders(Hdr(b), "hdr", On(b))
  <1>1. \A k \in {"sport", "faceFocus", "faceAe", "hdr"} :
           k \in Keys /\ On(b) \in RangeOf[k][1]..RangeOf[k][2]
    BY InRange DEF Switches
  <1>2. DOMAIN Gate = {"focus", "wb", "faceAe"}
    BY DEF Gate
  <1>3. Good(TrackSpeed(b), {"sport"}, {}) /\ Orders(TrackSpeed(b), "sport", On(b))
    BY <1>1, <1>2, OneSetting DEF TrackSpeed
  <1>4. Good(FaceFocus(b), {"faceFocus"}, {}) /\ Orders(FaceFocus(b), "faceFocus", On(b))
    BY <1>1, <1>2, OneSetting DEF FaceFocus
  <1>5. Good(FaceAe(b), {"faceAe"}, {"faceAe"}) /\ Orders(FaceAe(b), "faceAe", On(b))
    BY <1>1, <1>2, OneSetting DEF FaceAe
  <1>6. Good(Hdr(b), {"hdr"}, {}) /\ Orders(Hdr(b), "hdr", On(b))
    BY <1>1, <1>2, OneSetting DEF Hdr
  <1> QED  BY <1>3, <1>4, <1>5, <1>6

LEMMA FovMethod ==
    /\ Good(Fov("narrow"), {"fov"}, {})
    /\ Orders(Fov("narrow"), "fov", FovValue["narrow"])
  <1>1. "fov" \in Keys /\ FovValue["narrow"] \in RangeOf["fov"][1]..RangeOf["fov"][2]
    BY InRange DEF Keys
  <1>2. DOMAIN Gate = {"focus", "wb", "faceAe"}
    BY DEF Gate
  <1> QED  BY <1>1, <1>2, OneSetting DEF Fov

(* A sequence that begins with one good access has a first element.        *)
LEMMA Nonempty ==
    ASSUME NEW s, NEW K, NEW G, Good(s, K, G), NEW k, NEW v, Orders(s, k, v)
    PROVE  Len(s) >= 1
  <1>1. PICK S : s \in Seq(S)
    BY DEF Good
  <1>2. Len(s) \in Nat
    BY <1>1
  <1> QED  BY <1>2 DEF Orders

LEMMA AutoMethods ==
    /\ Good(FocusAuto, {"focusAuto"}, {}) /\ Orders(FocusAuto, "focusAuto", 1)
    /\ Good(WbAuto, {"wbAuto"}, {}) /\ Orders(WbAuto, "wbAuto", 1)
  <1>1. \A k \in {"focusAuto", "wbAuto"} : k \in Keys /\ 1 \in RangeOf[k][1]..RangeOf[k][2]
    BY InRange DEF Switches, Keys
  <1>2. DOMAIN Gate = {"focus", "wb", "faceAe"}
    BY DEF Gate
  <1> DEFINE f == Control([focusAuto |-> 1])
             w == Control([wbAuto |-> 1])
  <1>3. Good(f, {"focusAuto"}, {}) /\ Orders(f, "focusAuto", 1)
    BY <1>1, <1>2, OneSetting
  <1>4. Good(w, {"wbAuto"}, {}) /\ Orders(w, "wbAuto", 1)
    BY <1>1, <1>2, OneSetting
  <1> HIDE DEF f, w
  <1>5. FocusAuto = Opening(f) /\ WbAuto = Opening(w)
    BY DEF FocusAuto, WbAuto, f, w
  <1> QED  BY <1>3, <1>4, <1>5, Nonempty, Opened

LEMMA FocusManualMethod ==
    ASSUME NEW l \in Levels
    PROVE  /\ Good(FocusManual(l), {"focusAuto", "focus"}, {})
           /\ Orders(FocusManual(l), "focusAuto", 0)
           /\ Orders(FocusManual(l), "focus", Scaled(l, FocusRange))
  <1> DEFINE a == Control([focusAuto |-> 0])
             v == Scaled(l, FocusRange)
             c == Control([focus |-> v])
  <1>1. 0 \in RangeOf["focusAuto"][1]..RangeOf["focusAuto"][2] /\ "focusAuto" \in Keys
    BY InRange DEF Switches, Keys
  <1>2. v \in RangeOf["focus"][1]..RangeOf["focus"][2] /\ "focus" \in Keys
    BY InRange, RangeIs
  <1>3. DOMAIN Gate = {"focus", "wb", "faceAe"} /\ Gate["focus"] = "focusAuto"
    BY DEF Gate
  <1>4. Good(a, {"focusAuto"}, {}) /\ Orders(a, "focusAuto", 0)
    BY <1>1, <1>3, OneSetting
  <1> HIDE DEF v
  <1>5. Good(c, {"focus"}, {"focus"}) /\ Orders(c, "focus", v)
    BY <1>2, <1>3, OneSetting
  <1> HIDE DEF a, c
  <1>6. Good(a \o Query, {"focusAuto"} \cup {}, {}) /\ Orders(a \o Query, "focusAuto", 0)
    BY <1>4, QueryGood, Joined, OrdersJoined
  <1>7. {"focusAuto"} \cup {} = {"focusAuto"} /\ {"focusAuto"} \cap {"focus"} = {}
    OBVIOUS
  <1> DEFINE aq == a \o Query
  <1>8. Good(aq, {"focusAuto"}, {}) /\ Orders(aq, "focusAuto", 0)
    BY <1>6, <1>7
  <1> HIDE DEF aq
  <1>9. Good(aq \o c, {"focusAuto"} \cup {"focus"}, {})
    BY <1>3, <1>5, <1>7, <1>8, Joined
  <1>10. Orders(aq \o c, "focusAuto", 0) /\ Orders(aq \o c, "focus", v)
    BY <1>5, <1>8, OrdersJoined
  <1> DEFINE s == aq \o c
  <1>11. {"focusAuto"} \cup {"focus"} = {"focusAuto", "focus"}
    OBVIOUS
  <1>12. Good(s, {"focusAuto", "focus"}, {}) /\ Orders(s, "focusAuto", 0) /\ Orders(s, "focus", v)
    BY <1>9, <1>10, <1>11
  <1>13. FocusManual(l) = Opening(s)
    BY DEF FocusManual, s, aq, a, c, v
  <1> HIDE DEF s
  <1>14. Len(s) >= 1
    BY <1>12, Nonempty
  <1> QED  BY <1>12, <1>13, <1>14, Opened DEF v

LEMMA WbManualMethod ==
    ASSUME NEW t \in Kelvins
    PROVE  /\ Good(WbManual(t), {"wbAuto", "wb"}, {})
           /\ Orders(WbManual(t), "wbAuto", 0) /\ Orders(WbManual(t), "wb", Kelvin(t))
  <1> DEFINE a == Control([wbAuto |-> 0])
             v == Kelvin(t)
             c == Control([wb |-> v])
  <1>1. 0 \in RangeOf["wbAuto"][1]..RangeOf["wbAuto"][2] /\ "wbAuto" \in Keys
    BY InRange DEF Switches, Keys
  <1>2. v \in RangeOf["wb"][1]..RangeOf["wb"][2] /\ "wb" \in Keys
    BY InRange DEF Keys
  <1>3. DOMAIN Gate = {"focus", "wb", "faceAe"} /\ Gate["wb"] = "wbAuto"
    BY DEF Gate
  <1>4. Good(a, {"wbAuto"}, {}) /\ Orders(a, "wbAuto", 0)
    BY <1>1, <1>3, OneSetting
  <1> HIDE DEF v
  <1>5. Good(c, {"wb"}, {"wb"}) /\ Orders(c, "wb", v)
    BY <1>2, <1>3, OneSetting
  <1> HIDE DEF a, c
  <1> DEFINE qa == Query \o a
  <1>6. {} \cup {"wbAuto"} = {"wbAuto"} /\ {} \cap {"wbAuto"} = {}
        /\ {"wbAuto"} \cap {"wb"} = {} /\ {"wbAuto"} \cup {"wb"} = {"wbAuto", "wb"}
    OBVIOUS
  <1>7. Good(qa, {"wbAuto"}, {}) /\ Orders(qa, "wbAuto", 0)
    <2>1. Good(qa, {} \cup {"wbAuto"}, {}) /\ Orders(qa, "wbAuto", 0)
      BY <1>4, <1>6, QueryGood, Joined, OrdersJoined
    <2> QED  BY <2>1, <1>6
  <1> HIDE DEF qa
  <1> DEFINE s == qa \o c
  <1>8. Good(s, {"wbAuto", "wb"}, {})
    <2>1. Good(s, {"wbAuto"} \cup {"wb"}, {})
      BY <1>3, <1>5, <1>6, <1>7, Joined
    <2> QED  BY <2>1, <1>6
  <1>9. Orders(s, "wbAuto", 0) /\ Orders(s, "wb", v)
    BY <1>5, <1>7, OrdersJoined
  <1>10. WbManual(t) = Opening(s)
    BY DEF WbManual, s, qa, a, c, v
  <1> HIDE DEF s
  <1>11. Len(s) >= 1
    BY <1>8, <1>9, Nonempty
  <1> QED  BY <1>8, <1>9, <1>10, <1>11, Opened DEF v

LEMMA ImageMethod ==
    ASSUME NEW l \in Levels
    PROVE  /\ Good(ImageAdjust(l), {"image"}, {})
           /\ Orders(ImageAdjust(l), "image", Scaled(l, ImageRange))
  <1> DEFINE v == Scaled(l, ImageRange)
             c == Control([image |-> v])
  <1>1. v \in RangeOf["image"][1]..RangeOf["image"][2] /\ "image" \in Keys
    BY InRange, RangeIs
  <1>2. DOMAIN Gate = {"focus", "wb", "faceAe"}
    BY DEF Gate
  <1> HIDE DEF v
  <1>3. Good(c, {"image"}, {}) /\ Orders(c, "image", v)
    BY <1>1, <1>2, OneSetting
  <1> HIDE DEF c
  <1> DEFINE s == Query \o c
  <1>4. {} \cup {"image"} = {"image"} /\ {} \cap {"image"} = {}
    OBVIOUS
  <1>5. Good(s, {} \cup {"image"}, {}) /\ Orders(s, "image", v)
    BY <1>3, <1>4, QueryGood, Joined, OrdersJoined
  <1>6. Good(s, {"image"}, {}) /\ Orders(s, "image", v)
    BY <1>4, <1>5
  <1>7. ImageAdjust(l) = Opening(s)
    BY DEF ImageAdjust, s, c, v
  <1> HIDE DEF s
  <1>8. Len(s) >= 1
    BY <1>6, Nonempty
  <1> QED  BY <1>6, <1>7, <1>8, Opened DEF v

LEMMA ExposureMethod ==
    ASSUME NEW m \in BOOLEAN, NEW l \in Levels
    PROVE  /\ Good(Exposure(m, l), {"manual", "raw"}, {})
           /\ Orders(Exposure(m, l), "manual", On(m))
           /\ Orders(Exposure(m, l), "raw", Scaled(l, ExposureRange))
  <1> DEFINE v == Scaled(l, ExposureRange)
             sets == [manual |-> On(m), raw |-> v]
             a == [via |-> "vendor", opens |-> TRUE, sets |-> sets]
  <1>1. RangeOf["raw"] = ExposureRange
    BY RangeIs DEF ExposureRange
  <1>2. v \in RangeOf["raw"][1]..RangeOf["raw"][2] /\ "raw" \in Keys
    BY <1>1, InRange
  <1>3. On(m) \in RangeOf["manual"][1]..RangeOf["manual"][2] /\ "manual" \in Keys
    BY InRange DEF Switches
  <1>4. DOMAIN Gate = {"focus", "wb", "faceAe"}
    BY DEF Gate
  <1> HIDE DEF v
  <1>5. DOMAIN sets = {"manual", "raw"} /\ sets["manual"] = On(m) /\ sets["raw"] = v
    OBVIOUS
  <1> HIDE DEF sets
  <1>6. IsAccess(a) /\ a.sets = sets
    BY <1>2, <1>3, <1>5 DEF IsAccess
  <1>7. Exposure(m, l) = <<a>>
    BY DEF Exposure, Vendor, sets, v
  <1> HIDE DEF a
  <1>8. DOMAIN a.sets \cap DOMAIN Gate = {}
    BY <1>4, <1>5, <1>6
  <1>9. /\ Good(<<a>>, {"manual", "raw"}, {})
        /\ Orders(<<a>>, "manual", On(m)) /\ Orders(<<a>>, "raw", v)
    BY <1>5, <1>6, <1>8, Single
  <1> QED  BY <1>7, <1>9 DEF v

-----------------------------------------------------------------------------
(* The work() of the tools.  A method that is made only for an option that *)
(* was passed:                                                             *)
LEMMA IfGood ==
    ASSUME NEW c \in BOOLEAN, NEW s, NEW K, NEW G, c => Good(s, K, G)
    PROVE  Good(If(c, s), IF c THEN K ELSE {}, G)
  <1>1. CASE c
    BY <1>1 DEF If
  <1>2. CASE ~c
    <2>1. <<>> \in Seq({}) /\ Len(<<>>) = 0
      OBVIOUS
    <2> QED  BY <1>2, <2>1 DEF If, Good
  <1> QED  BY <1>1, <1>2

LEMMA FocusWorkGood ==
    ASSUME NEW r \in Requests, r.tool = "focus"
    PROVE  LET W == WorkOf(r)
           IN /\ Good(W, Passed(r), {})
              /\ Orders(W, "focusAuto", On(r.mode = "auto"))
              /\ r.mode = "manual" => Orders(W, "focus", Scaled(r.level, FocusRange))
              /\ Given(r.face) => Orders(W, "faceFocus", On(r.face = "on"))
  <1>1. r.mode \in {"auto", "manual"} /\ r.level \in Levels /\ r.face \in Optional
    BY DEF Requests
  <1> DEFINE s == IF r.mode = "auto" THEN FocusAuto ELSE FocusManual(r.level)
             K == {"focusAuto"} \cup (IF r.mode = "manual" THEN {"focus"} ELSE {})
             t == If(Given(r.face), FaceFocus(r.face = "on"))
             L == IF Given(r.face) THEN {"faceFocus"} ELSE {}
  <1>2. WorkOf(r) = s \o t
    BY DEF WorkOf, FocusWork
  <1>3. Passed(r) = K \cup L /\ K \cap L = {}
    BY DEF Passed
  <1>4. /\ Good(s, K, {}) /\ Orders(s, "focusAuto", On(r.mode = "auto"))
        /\ r.mode = "manual" => Orders(s, "focus", Scaled(r.level, FocusRange))
    <2>1. CASE r.mode = "auto"
      <3>1. K = {"focusAuto"} /\ s = FocusAuto /\ On(r.mode = "auto") = 1
        BY <2>1 DEF On
      <3> QED  BY <2>1, <3>1, AutoMethods
    <2>2. CASE r.mode = "manual"
      <3>1. /\ K = {"focusAuto", "focus"} /\ s = FocusManual(r.level)
            /\ On(r.mode = "auto") = 0
        BY <2>2 DEF On
      <3> QED  BY <1>1, <3>1, FocusManualMethod
    <2> QED  BY <1>1, <2>1, <2>2
  <1>5. Good(t, L, {}) /\ (Given(r.face) => Orders(t, "faceFocus", On(r.face = "on")))
    <2>1. Given(r.face) \in BOOLEAN /\ (r.face = "on") \in BOOLEAN
      BY DEF Given
    <2>2. Good(t, L, {})
      BY <2>1, SwitchMethods, IfGood
    <2>3. Given(r.face) => t = FaceFocus(r.face = "on")
      BY DEF If
    <2> QED  BY <2>1, <2>2, <2>3, SwitchMethods
  <1> HIDE DEF s, t, K, L
  <1>6. Good(s \o t, K \cup L, {})
    BY <1>3, <1>4, <1>5, Joined
  <1> QED  BY <1>2, <1>3, <1>4, <1>5, <1>6, OrdersJoined

LEMMA ExposureWorkGood ==
    ASSUME NEW r \in Requests, r.tool = "exposure", ~Refused(r)
    PROVE  LET W == WorkOf(r)
           IN /\ Good(W, Passed(r), {})
              /\ Orders(W, "manual", On(r.mode = "manual"))
              /\ Orders(W, "raw", Scaled(r.level, ExposureRange))
              /\ Given(r.face) => Orders(W, "faceAe", On(r.face = "on"))
  <1>1. r.mode \in {"auto", "manual"} /\ r.level \in Levels /\ r.face \in Optional
    BY DEF Requests
  <1> DEFINE s == Exposure(r.mode = "manual", r.level)
             K == {"manual", "raw"}
             t == If(Given(r.face), FaceAe(r.face = "on"))
             L == IF Given(r.face) THEN {"faceAe"} ELSE {}
  <1>2. WorkOf(r) = s \o t
    BY DEF WorkOf, ExposureWork
  <1>3. Passed(r) = K \cup L /\ K \cap L = {}
    BY DEF Passed
  <1>4. /\ Good(s, K, {}) /\ Orders(s, "manual", On(r.mode = "manual"))
        /\ Orders(s, "raw", Scaled(r.level, ExposureRange))
    BY <1>1, ExposureMethod
  <1>5. Good(t, L, L) /\ (Given(r.face) => Orders(t, "faceAe", On(r.face = "on")))
    <2>1. (r.face = "on") \in BOOLEAN
      OBVIOUS
    <2>2. CASE Given(r.face)
      <3>1. t = FaceAe(r.face = "on") /\ L = {"faceAe"}
        BY <2>2 DEF If
      <3> QED  BY <2>1, <3>1, SwitchMethods
    <2>3. CASE ~Given(r.face)
      <3>1. t = <<>> /\ L = {}
        BY <2>3 DEF If
      <3> QED  BY <2>3, <3>1, Empty
    <2> QED  BY <2>2, <2>3
  <1>6. \A k \in L : Orders(s, Gate[k], 0)
    <2> SUFFICES ASSUME NEW k \in L PROVE Orders(s, Gate[k], 0)
      OBVIOUS
    <2>1. k = "faceAe" /\ Given(r.face) /\ Gate[k] = "manual"
      BY DEF Gate
    <2>2. r.mode # "manual"
      BY <2>1 DEF Refused
    <2>3. On(r.mode = "manual") = 0
      BY <2>2 DEF On
    <2> QED  BY <1>4, <2>1, <2>3
  <1> HIDE DEF s, t, K, L
  <1>7. Good(s \o t, K \cup L, {})
    BY <1>3, <1>4, <1>5, <1>6, Joined
  <1> QED  BY <1>2, <1>3, <1>4, <1>5, <1>7, OrdersJoined

LEMMA ModeWorkGood ==
    ASSUME NEW r \in Requests, r.tool = "image_mode"
    PROVE  LET W == WorkOf(r)
           IN /\ Good(W, Passed(r), {})
              /\ Given(r.hdr) => Orders(W, "hdr", On(r.hdr = "on"))
              /\ Given(r.fov) => Orders(W, "fov", FovValue[r.fov])
              /\ Given(r.wb) => Orders(W, "wbAuto", On(r.wb = "auto"))
              /\ r.wb = "manual" => Orders(W, "wb", Kelvin(r.kelvin))
  <1>1. /\ r.hdr \in Optional /\ r.fov \in {"omitted", "narrow"}
        /\ r.wb \in {"omitted", "auto", "manual"} /\ r.kelvin \in Kelvins
    BY DEF Requests
  <1> DEFINE s == If(Given(r.hdr), Hdr(r.hdr = "on"))
             K == IF Given(r.hdr) THEN {"hdr"} ELSE {}
             t == If(Given(r.fov), Fov(r.fov))
             L == IF Given(r.fov) THEN {"fov"} ELSE {}
             w == IF r.wb = "auto" THEN WbAuto ELSE WbManual(r.kelvin)
             M == {"wbAuto"} \cup (IF r.wb = "manual" THEN {"wb"} ELSE {})
             u == If(Given(r.wb), w)
             N == IF Given(r.wb) THEN M ELSE {}
  <1>2. WorkOf(r) = (s \o t) \o u
    BY DEF WorkOf, ModeWork
  <1>3. Passed(r) = (K \cup L) \cup N /\ K \cap L = {} /\ (K \cup L) \cap N = {}
    <2>1. r.wb = "manual" => Given(r.wb)
      BY DEF Given
    <2>2. Passed(r) = K \cup L \cup (IF Given(r.wb) THEN {"wbAuto"} ELSE {})
                        \cup (IF r.wb = "manual" THEN {"wb"} ELSE {})
      BY DEF Passed
    <2> QED  BY <2>1, <2>2
  <1>4. Good(s, K, {}) /\ (Given(r.hdr) => Orders(s, "hdr", On(r.hdr = "on")))
    <2>1. Given(r.hdr) \in BOOLEAN /\ (r.hdr = "on") \in BOOLEAN
      BY DEF Given
    <2>2. Good(s, K, {})
      BY <2>1, SwitchMethods, IfGood
    <2>3. Given(r.hdr) => s = Hdr(r.hdr = "on")
      BY DEF If
    <2> QED  BY <2>1, <2>2, <2>3, SwitchMethods
  <1>5. Good(t, L, {}) /\ (Given(r.fov) => Orders(t, "fov", FovValue[r.fov]))
    <2>1. Given(r.fov) \in BOOLEAN /\ (Given(r.fov) => r.fov = "narrow")
      BY <1>1 DEF Given
    <2>2. Good(t, L, {})
      BY <2>1, FovMethod, IfGood
    <2>3. Given(r.fov) => t = Fov("narrow")
      BY <2>1 DEF If
    <2> QED  BY <2>1, <2>2, <2>3, FovMethod
  <1>6. /\ Good(u, N, {})
        /\ Given(r.wb) => Orders(u, "wbAuto", On(r.wb = "auto"))
        /\ r.wb = "manual" => Orders(u, "wb", Kelvin(r.kelvin))
    <2>1. CASE r.wb = "omitted"
      <3>1. ~Given(r.wb) /\ u = <<>> /\ N = {}
        BY <2>1 DEF Given, If
      <3> QED  BY <2>1, <3>1, Empty
    <2>2. CASE r.wb = "auto"
      <3>1. Given(r.wb) /\ u = WbAuto /\ N = {"wbAuto"} /\ On(r.wb = "auto") = 1
        BY <2>2 DEF Given, If, On
      <3> QED  BY <2>2, <3>1, AutoMethods
    <2>3. CASE r.wb = "manual"
      <3>1. /\ Given(r.wb) /\ u = WbManual(r.kelvin) /\ N = {"wbAuto", "wb"}
            /\ On(r.wb = "auto") = 0
        BY <2>3 DEF Given, If, On
      <3> QED  BY <1>1, <2>3, <3>1, WbManualMethod
    <2> QED  BY <1>1, <2>1, <2>2, <2>3
  <1> HIDE DEF s, t, u, K, L, N
  <1> DEFINE st == s \o t
             KL == K \cup L
  <1>7. /\ Good(st, KL, {})
        /\ Given(r.hdr) => Orders(st, "hdr", On(r.hdr = "on"))
        /\ Given(r.fov) => Orders(st, "fov", FovValue[r.fov])
    BY <1>3, <1>4, <1>5, Joined, OrdersJoined
  <1> HIDE DEF st, KL
  <1>8. KL \cap N = {} /\ Passed(r) = KL \cup N /\ WorkOf(r) = st \o u
    BY <1>2, <1>3 DEF KL, st
  <1>9. Good(st \o u, KL \cup N, {})
    BY <1>6, <1>7, <1>8, Joined
  <1> QED  BY <1>6, <1>7, <1>8, <1>9, OrdersJoined

(* The work of every request that is not refused is good and sets no more  *)
(* than what was passed.                                                   *)
LEMMA WorkGood ==
    ASSUME NEW r \in Requests, ~Refused(r)
    PROVE  Good(WorkOf(r), Passed(r), {})
  <1>1. CASE r.tool = "track_speed"
    <2>1. r.sport \in BOOLEAN
      BY <1>1 DEF Requests
    <2>2. WorkOf(r) = TrackSpeed(r.sport) /\ Passed(r) = {"sport"}
      BY <1>1 DEF WorkOf, Passed
    <2> QED  BY <2>1, <2>2, SwitchMethods
  <1>2. CASE r.tool = "image_adjust"
    <2>1. r.level \in Levels
      BY <1>2 DEF Requests
    <2>2. WorkOf(r) = ImageAdjust(r.level) /\ Passed(r) = {"image"}
      BY <1>2 DEF WorkOf, Passed
    <2> QED  BY <2>1, <2>2, ImageMethod
  <1>3. CASE r.tool = "focus"
    BY <1>3, FocusWorkGood
  <1>4. CASE r.tool = "exposure"
    BY <1>4, ExposureWorkGood
  <1>5. CASE r.tool = "image_mode"
    BY <1>5, ModeWorkGood
  <1>6. r.tool \in {"track_speed", "image_adjust", "focus", "exposure", "image_mode"}
    BY DEF Requests
  <1> QED  BY <1>1, <1>2, <1>3, <1>4, <1>5, <1>6

-----------------------------------------------------------------------------
(* Of the first n accesses of a work, every setting is in force.           *)
InPlace(W, n) ==
    \A i \in 1..n : \A k \in DOMAIN W[i].sets : force[k] = W[i].sets[k]

(* A call at work has made the first n accesses of its work, the rest is   *)
(* the plan, and what was made is in place unless the device has left.     *)
Underway ==
    step = "work" =>
       LET W == WorkOf(call)
       IN /\ ~Refused(call)
          /\ (\E S : plan \in Seq(S))
          /\ \E n \in 0..Len(W) - 1 :
                /\ Len(plan) = Len(W) - n
                /\ \A i \in 1..Len(plan) : plan[i] = W[n + i]
                /\ ~left => InPlace(W, n)

(* A call answered ok has made them all.                                   *)
Finished ==
    reply = "ok" => ~Refused(call) /\ (~left => InPlace(WorkOf(call), Len(WorkOf(call))))

(* The camera stays at the node until the device leaves it.                *)
Kept == reply \in {"ok", "refused", "error"} /\ ~left => bus[node] = "camera"

(* Each setting of the camera has a value in its range.                    *)
Settled ==
    /\ DOMAIN force = Keys /\ DOMAIN before = Keys
    /\ \A k \in Keys : force[k] \in RangeOf[k][1]..RangeOf[k][2]

(* The types of the bookkeeping.                                           *)
Counted ==
    /\ call \in Requests
    /\ step # "work" => plan = <<>>
    /\ reply \in {"none", "ok", "refused", "error", "unavailable"}
    /\ astray \in BOOLEAN /\ calls \in 0..MaxCalls

(* The inductive invariant.                                                *)
CallInv == Settled /\ Counted /\ Kept /\ Underway /\ Finished /\ OnlyPassed
ValueInv == SettingsInv /\ CallInv

(* The settings at power on are settled.                                   *)
LEMMA PowerOnSettled ==
    /\ DOMAIN PowerOn = Keys
    /\ \A k \in Keys : PowerOn[k] \in RangeOf[k][1]..RangeOf[k][2]
  <1>1. DOMAIN PowerOn = Keys
    BY DEF PowerOn
  <1>2. ASSUME NEW k \in Keys PROVE PowerOn[k] \in RangeOf[k][1]..RangeOf[k][2]
    <2>1. PowerOn[k] = IF k \in {"focusAuto", "wbAuto"} THEN 1 ELSE RangeOf[k][1]
      BY DEF PowerOn
    <2>2. RangeOf[k][1] \in Int /\ RangeOf[k][2] \in Int /\ RangeOf[k][1] <= RangeOf[k][2]
      BY RangeIs, RangesAre DEF Keys
    <2>3. k \in {"focusAuto", "wbAuto"} => 1 \in RangeOf[k][1]..RangeOf[k][2]
      BY InRange DEF Switches
    <2> QED  BY <2>1, <2>2, <2>3
  <1> QED  BY <1>1, <1>2

LEMMA InitValue == Init => ValueInv
  <1> SUFFICES ASSUME Init PROVE CallInv
    BY InitSettings DEF ValueInv
  <1> USE DEF Init, ScanInit
  <1>1. Settled
    BY PowerOnSettled DEF Settled
  <1>2. Counted
    <2>1. call \in Requests
      BY DEF Requests
    <2>2. calls \in 0..MaxCalls
      BY SettingsAssumption
    <2> QED  BY <2>1, <2>2 DEF Counted
  <1>3. Kept /\ Underway /\ Finished /\ OnlyPassed
    BY DEF Kept, Underway, Finished, OnlyPassed
  <1> QED  BY <1>1, <1>2, <1>3 DEF CallInv

(* A step of the scan, or the end of a call that did not get to its work.  *)
LEMMA ScanKeeps == ASSUME ValueInv, Scan, UNCHANGED tool PROVE CallInv'
  <1>1. step \in {"list", "open", "probe"} /\ reply = "none" /\ plan = <<>>
    BY DEF ValueInv, SettingsInv, Clean, CallInv, Counted, Scan, List, Open, Probe
  <1>2. step' \notin {"no", "work"}
    BY DEF Scan, List, Open, Probe, Skip, Verdict
  <1> USE <1>1, <1>2 DEF ValueInv, CallInv, tool
  <1>3. Settled' /\ Counted'
    BY DEF Settled, Counted
  <1>4. Kept' /\ Underway' /\ Finished' /\ OnlyPassed'
    BY DEF Kept, Underway, Finished, OnlyPassed
  <1> QED  BY <1>3, <1>4

(* A call begins, does not find the camera, or hands over its answer.      *)
LEMMA EndsKeep ==
    ASSUME ValueInv, NotFound \/ Deliver \/ \E r \in Asked : Begin(r)
    PROVE  CallInv'
  <1> USE DEF ValueInv, CallInv
  <1>1. CASE NotFound
    <2>1. reply' = "unavailable" /\ step' = "no" /\ plan' = <<>>
          /\ UNCHANGED <<force, call, before, astray, calls>>
      BY <1>1 DEF NotFound, Answered
    <2> QED  BY <2>1 DEF Settled, Counted, Kept, Underway, Finished, OnlyPassed
  <1>2. CASE Deliver
    <2>1. reply' = "none" /\ step' = "no" /\ before' = PowerOn /\ astray' = FALSE
          /\ UNCHANGED <<force, call, plan, calls>>
      BY <1>2 DEF Deliver, Forget
    <2>2. step # "work"
      BY <1>2 DEF Deliver, SettingsInv, Clean
    <2> QED  BY <2>1, <2>2, PowerOnSettled
             DEF Settled, Counted, Kept, Underway, Finished, OnlyPassed
  <1>3. CASE \E r \in Asked : Begin(r)
    <2>1. call' \in Asked /\ reply' = "none" /\ step = "no" /\ step' = "list"
          /\ calls' = calls - 1 /\ calls > 0 /\ UNCHANGED <<force, plan, before, astray>>
      BY <1>3 DEF Begin
    <2>2. Counted'
      BY <2>1, SettingsAssumption DEF Counted
    <2> QED  BY <2>1, <2>2 DEF Settled, Kept, Underway, Finished, OnlyPassed
  <1> QED  BY <1>1, <1>2, <1>3

(* The camera is found: nothing has been made, and everything is as        *)
(* before.                                                                 *)
LEMMA EnterKeeps == ASSUME ValueInv, Enter PROVE CallInv'
  <1> USE DEF ValueInv, CallInv
  <1> DEFINE W == WorkOf(call)
  <1>1. /\ step = "found" /\ before' = force
        /\ UNCHANGED <<bus, node, left, force, call, astray, calls>>
    BY DEF Enter
  <1>2. reply = "none" /\ plan = <<>> /\ (~left => bus[node] = "camera")
    BY <1>1 DEF SettingsInv, Clean, Held, Counted
  <1>3. Settled' /\ Kept' /\ OnlyPassed'
    <2>1. reply' \in {"refused", "ok", "none"}
      BY <1>2, Zenon DEF Enter, Answered
    <2> QED  BY <1>1, <1>2, <2>1 DEF Settled, Kept, OnlyPassed
  <1>4. CASE Refused(call)
    <2>1. reply' = "refused" /\ step' = "no" /\ plan' = <<>>
      BY <1>4 DEF Enter, Answered
    <2> QED  BY <1>1, <1>3, <2>1 DEF Counted, Underway, Finished
  <1>5. CASE ~Refused(call) /\ W = <<>>
    <2>1. reply' = "ok" /\ step' = "no" /\ plan' = <<>>
      BY <1>5 DEF Enter, Answered
    <2>2. Len(W) = 0
      BY <1>5
    <2>3. Finished'
      BY <1>1, <1>5, <2>2 DEF Finished, InPlace, Refused
    <2> QED  BY <1>1, <1>3, <2>1, <2>3 DEF Counted, Underway
  <1>6. CASE ~Refused(call) /\ W # <<>>
    <2>1. step' = "work" /\ plan' = W /\ reply' = reply
      BY <1>6 DEF Enter
    <2>2. Good(W, Passed(call), {})
      BY <1>6, WorkGood DEF Counted
    <2>3. PICK S : W \in Seq(S)
      BY <2>2 DEF Good
    <2>4. Len(W) \in Nat /\ Len(W) # 0
      BY <1>6, <2>3
    <2>5. /\ 0 \in 0..Len(W) - 1 /\ Len(plan') = Len(W) - 0
          /\ \A i \in 1..Len(plan') : plan'[i] = W[0 + i]
          /\ InPlace(W, 0)'
      BY <2>1, <2>4 DEF InPlace
    <2>6. Underway'
      BY <1>1, <1>6, <2>1, <2>3, <2>5 DEF Underway, Refused
    <2> QED  BY <1>1, <1>2, <1>3, <2>1, <2>6 DEF Counted, Finished
  <1> QED  BY <1>4, <1>5, <1>6

(* What an access of the call's work does to a camera that has the settings*)
(* of those before it.                                                     *)
LEMMA TakenInPlace ==
    ASSUME Settled, NEW W, NEW K, Good(W, K, {}), NEW n \in 0..Len(W) - 1, Len(W) \in Nat,
           InPlace(W, n), force' = Taken(W[n + 1].sets)
    PROVE  InPlace(W, n + 1)'
  <1> DEFINE sets == W[n + 1].sets
  <1>1. Apt(W, n + 1, K, {}) /\ DOMAIN sets \subseteq Keys
    <2>1. n + 1 \in 1..Len(W)
      OBVIOUS
    <2> QED  BY <2>1 DEF Good, Apt, IsAccess
  <1>2. \A k \in Keys : force'[k] = IF k \in DOMAIN sets \ Ignored THEN sets[k] ELSE force[k]
    BY DEF Taken
  <1>3. ASSUME NEW i \in 1..n, NEW k \in DOMAIN W[i].sets PROVE force'[k] = W[i].sets[k]
    <2>1. Apt(W, i, K, {})
      <3>1. i \in 1..Len(W)
        OBVIOUS
      <3> QED  BY <3>1 DEF Good
    <2>2. k \in Keys
      BY <2>1 DEF Apt, IsAccess
    <2>3. i \in 1..(n + 1) - 1
      OBVIOUS
    <2>4. k \notin DOMAIN sets
      BY <1>1, <2>3 DEF Apt
    <2> QED  BY <1>2, <2>2, <2>4 DEF InPlace
  <1>4. ASSUME NEW k \in DOMAIN sets PROVE force'[k] = sets[k]
    <2>1. k \in DOMAIN Gate => force[Gate[k]] = 0
      <3> SUFFICES ASSUME k \in DOMAIN Gate PROVE force[Gate[k]] = 0
        OBVIOUS
      <3>1. PICK j \in 1..(n + 1) - 1 : Says(W[j], Gate[k], 0)
        BY <1>1 DEF Apt
      <3>2. j \in 1..n
        OBVIOUS
      <3> QED  BY <3>1, <3>2 DEF InPlace, Says
    <2>2. k \notin Ignored
      BY <2>1 DEF Ignored, Gate
    <2> QED  BY <1>1, <1>2, <2>2
  <1>5. ASSUME NEW i \in 1..n + 1, NEW k \in DOMAIN W[i].sets PROVE force'[k] = W[i].sets[k]
    <2>1. CASE i = n + 1
      BY <1>4, <2>1
    <2>2. CASE i # n + 1
      <3>1. i \in 1..n
        BY <2>2
      <3> QED  BY <1>3, <3>1
    <2> QED  BY <2>1, <2>2
  <1> QED  BY <1>5 DEF InPlace

(* An access of the work: it fails and ends the call, or it was the last   *)
(* one, or there is one more in place.                                     *)
LEMMA AccessKeeps == ASSUME ValueInv, Access PROVE CallInv'
  <1> USE DEF ValueInv, CallInv
  <1> DEFINE a == Head(plan)
  <1>0. PICK W : W = WorkOf(call)
    OBVIOUS
  <1>1. PICK e \in Outcomes(a) :
           /\ IF e = "fine" THEN Proceed ELSE Raised(e)
           /\ force' = IF e = "fine" /\ At(a) = "camera" THEN Taken(a.sets) ELSE force
           /\ astray' = (astray \/ (e = "fine" /\ At(a) = "other" /\ a.via # "query"))
    BY DEF Access
  <1>2. /\ step = "work"
        /\ UNCHANGED <<bus, node, left, call, before, calls>>
    BY DEF Access
  <1>3. reply = "none" /\ (~left => bus[node] = "camera") /\ ~Refused(call) /\ call \in Requests
    BY <1>2 DEF SettingsInv, Clean, Held, Underway, Counted
  <1>4. Good(W, Passed(call), {})
    BY <1>0, <1>3, WorkGood
  <1>5. PICK n \in 0..Len(W) - 1 :
           /\ Len(plan) = Len(W) - n
           /\ \A i \in 1..Len(plan) : plan[i] = W[n + i]
           /\ ~left => InPlace(W, n)
    BY <1>0, <1>2, Zenon DEF Underway
  <1>6. PICK S : plan \in Seq(S)
    BY <1>2 DEF Underway
  <1>7. Len(W) \in Nat
    <2>1. PICK T : W \in Seq(T)
      BY <1>4 DEF Good
    <2> QED  BY <2>1
  <1>8. n \in Nat /\ n + 1 <= Len(W) /\ Len(plan) >= 1 /\ 1 \in 1..Len(plan)
    BY <1>5, <1>7
  <1>9. a = W[n + 1]
    <2>1. a = plan[1]
      BY <1>6, <1>8
    <2> QED  BY <1>5, <1>8, <2>1
  <1> HIDE DEF a
  <1>10. IsAccess(a) /\ DOMAIN a.sets \subseteq Passed(call)
    BY <1>4, <1>7, <1>8, <1>9 DEF Good, Apt
  <1>11. /\ DOMAIN force' = Keys
         /\ \A k \in Keys : force'[k] = force[k] \/ (k \in DOMAIN a.sets /\ force'[k] = a.sets[k])
    BY <1>1 DEF Taken, Settled
  <1>12. Settled'
    BY <1>2, <1>10, <1>11 DEF Settled, IsAccess
  <1>13. e = "fine" /\ ~left => InPlace(W, n + 1)'
    <2> SUFFICES ASSUME e = "fine", ~left PROVE InPlace(W, n + 1)'
      OBVIOUS
    <2>1. At(a) = "camera"
      BY <1>1, <1>3 DEF At, Outcomes
    <2>2. force' = Taken(W[n + 1].sets)
      BY <1>1, <1>9, <2>1
    <2> QED  BY <1>4, <1>5, <1>7, <2>2, TakenInPlace
  <1>14. \/ e = "fine" /\ Len(plan) = 1 /\ step' = "no" /\ reply' = "ok" /\ plan' = <<>>
         \/ e = "fine" /\ Len(plan) # 1 /\ step' = step /\ reply' = reply /\ plan' = Tail(plan)
         \/ step' = "no" /\ reply' \in {"unavailable", "error"} /\ plan' = <<>>
    BY <1>1, Zenon DEF Proceed, Raised, Answered
  <1>15. Counted'
    BY <1>1, <1>2, <1>3, <1>14 DEF Counted
  <1>16. Kept'
    BY <1>2, <1>3, <1>14 DEF Kept
  <1>17. OnlyPassed'
    BY <1>2, <1>3, <1>10, <1>11, <1>14 DEF OnlyPassed
  <1>18. W = WorkOf(call') /\ Refused(call') = Refused(call)
    BY <1>0, <1>2
  <1>19. Finished'
    <2> SUFFICES ASSUME reply' = "ok" PROVE Finished'
      BY DEF Finished
    <2>1. e = "fine" /\ Len(plan) = 1
      BY <1>3, <1>14
    <2>2. n + 1 = Len(W)
      <3>1. Len(plan) = Len(W) - n
        BY <1>5
      <3>2. 1 = Len(W) - n
        BY <2>1, <3>1
      <3> QED  BY <1>7, <1>8, <3>2
    <2>3. ~left' => InPlace(W, Len(W))'
      BY <1>2, <1>13, <2>1, <2>2
    <2> QED  BY <1>2, <1>3, <1>18, <2>3 DEF Finished
  <1>20. Underway'
    <2> SUFFICES ASSUME step' = "work" PROVE Underway'
      BY DEF Underway
    <2>1. e = "fine" /\ Len(plan) # 1 /\ plan' = Tail(plan)
      BY <1>14
    <2>2. plan' \in Seq(S) /\ Len(plan') = Len(plan) - 1
          /\ \A i \in 1..Len(plan') : plan'[i] = plan[i + 1] /\ i + 1 \in 1..Len(plan)
      BY <1>6, <1>8, <2>1
    <2>3. n + 1 \in 0..Len(W) - 1 /\ Len(plan') = Len(W) - (n + 1)
      BY <1>5, <1>7, <1>8, <2>1, <2>2
    <2>4. \A i \in 1..Len(plan') : plan'[i] = W[(n + 1) + i]
      <3> SUFFICES ASSUME NEW i \in 1..Len(plan') PROVE plan'[i] = W[(n + 1) + i]
        OBVIOUS
      <3>1. n + (i + 1) = (n + 1) + i
        BY <1>8
      <3> QED  BY <1>5, <2>2, <3>1
    <2>5. ~left' => InPlace(W, n + 1)'
      BY <1>2, <1>13, <2>1
    <2> QED  BY <1>2, <1>3, <1>18, <2>2, <2>3, <2>4, <2>5 DEF Underway
  <1> QED  BY <1>12, <1>15, <1>16, <1>17, <1>19, <1>20

(* What happens on the bus: a device leaves, one comes, the rest.          *)
LEMMA LeaveKeeps ==
    ASSUME ValueInv, NEW n \in Nodes, Leave(n), UNCHANGED tool PROVE CallInv'
  <1> USE DEF ValueInv, CallInv, tool
  <1>1. step' = step /\ node' = node /\ left' = (left \/ n = node)
    BY DEF Leave
  <1>2. Kept'
    <2>1. n # node => bus'[node] = bus[node]
      BY DEF Leave, SettingsInv, ScanInv, ScanTypeOK, Buses
    <2> QED  BY <1>1, <2>1 DEF Kept
  <1>3. Settled' /\ Counted' /\ Finished' /\ OnlyPassed'
    BY <1>1 DEF Settled, Counted, Finished, OnlyPassed, InPlace
  <1>4. Underway'
    <2> SUFFICES ASSUME step' = "work" PROVE Underway'
      BY DEF Underway
    <2>1. PICK m \in 0..Len(WorkOf(call)) - 1 :
             /\ Len(plan) = Len(WorkOf(call)) - m
             /\ \A i \in 1..Len(plan) : plan[i] = WorkOf(call)[m + i]
             /\ ~left => InPlace(WorkOf(call), m)
      BY <1>1, Zenon DEF Underway
    <2>2. ~left' => InPlace(WorkOf(call), m)'
      BY <1>1, <2>1 DEF InPlace
    <2>3. ~Refused(call) /\ \E S : plan \in Seq(S)
      BY <1>1 DEF Underway
    <2> QED  BY <2>1, <2>2, <2>3 DEF Underway
  <1> QED  BY <1>2, <1>3, <1>4

LEMMA ComeKeeps == ASSUME ValueInv, BusComes PROVE CallInv'
  <1> USE DEF ValueInv, CallInv, worker
  <1>1. PICK n \in Nodes, kind \in Kinds :
           Come(n, kind) /\ force' = IF kind = "camera" THEN PowerOn ELSE force
    BY DEF BusComes
  <1>2. /\ step' = step /\ node' = node /\ left' = left
        /\ UNCHANGED <<call, plan, reply, before, astray, calls>>
    BY <1>1 DEF BusComes, Come, scan
  <1>3. bus[node] = "camera" => bus'[node] = "camera" /\ force' = force
    BY <1>1 DEF Come, Present, SettingsInv, ScanInv, ScanTypeOK, Buses
  <1>4. Settled'
    BY <1>1, <1>2, PowerOnSettled DEF Settled
  <1>5. Counted' /\ Kept'
    BY <1>2, <1>3 DEF Counted, Kept
  <1>6. step = "work" /\ ~left => force' = force
    BY <1>3 DEF SettingsInv, Held
  <1>7. reply \in {"ok", "refused", "error"} /\ ~left => force' = force
    BY <1>3 DEF Kept
  <1>8. OnlyPassed'
    BY <1>2, <1>6, <1>7 DEF OnlyPassed
  <1>9. Finished'
    BY <1>2, <1>7 DEF Finished, InPlace
  <1>10. Underway'
    <2> SUFFICES ASSUME step' = "work" PROVE Underway'
      BY DEF Underway
    <2>1. PICK m \in 0..Len(WorkOf(call)) - 1 :
             /\ Len(plan) = Len(WorkOf(call)) - m
             /\ \A i \in 1..Len(plan) : plan[i] = WorkOf(call)[m + i]
             /\ ~left => InPlace(WorkOf(call), m)
      BY <1>2, Zenon DEF Underway
    <2>2. ~left' => InPlace(WorkOf(call), m)'
      BY <1>2, <1>6, <2>1 DEF InPlace
    <2>3. ~Refused(call) /\ \E S : plan \in Seq(S)
      BY <1>2 DEF Underway
    <2> QED  BY <1>2, <2>1, <2>2, <2>3 DEF Underway
  <1> QED  BY <1>4, <1>5, <1>8, <1>9, <1>10

LEMMA StillKeeps ==
    ASSUME ValueInv, UNCHANGED <<bus, node, step, left, tool>> PROVE CallInv'
  BY DEF ValueInv, CallInv, tool, Settled, Counted, Kept, Underway, Finished,
         OnlyPassed, InPlace

LEMMA NextValue == ValueInv /\ [Next]_vars => ValueInv'
  <1> SUFFICES ASSUME ValueInv, [Next]_vars PROVE CallInv'
    BY NextSettings DEF ValueInv
  <1>1. CASE Work
    BY <1>1, ScanKeeps, EndsKeep, EnterKeeps, AccessKeeps DEF Work
  <1>2. CASE BusLeaves
    BY <1>2, LeaveKeeps DEF BusLeaves
  <1>3. CASE BusComes
    BY <1>3, ComeKeeps
  <1>4. CASE BusHangs \/ UNCHANGED vars
    <2>1. UNCHANGED <<bus, node, step, left, tool>>
      BY <1>4 DEF BusHangs, Hang, Recover, scan, vars, discovery
    <2> QED  BY <2>1, StillKeeps
  <1> QED  BY <1>1, <1>2, <1>3, <1>4, EndsKeep DEF Next

-----------------------------------------------------------------------------
(* A settings call, also one that fails half way or is refused, changes no *)
(* setting but those its parameters name.                                  *)
THEOREM PassedOnly == Spec => []OnlyPassed
  <1>1. ValueInv => OnlyPassed
    BY DEF ValueInv, CallInv
  <1> QED  BY InitValue, NextValue, <1>1, PTL DEF Spec

(* Type correctness of the settings tools: with it, that no value out of   *)
(* the range of its control is ever written to the camera.                 *)
THEOREM TypeCorrect == Spec => []TypeOK
  <1>1. ValueInv /\ Numbered => TypeOK
    <2> SUFFICES ASSUME ValueInv, Numbered PROVE TypeOK
      OBVIOUS
    <2> USE DEF ValueInv, CallInv
    <2>1. ASSUME NEW i \in DOMAIN plan
          PROVE  /\ plan[i].via \in {"vendor", "buffer", "control", "query"}
                 /\ plan[i].opens \in BOOLEAN /\ DOMAIN plan[i].sets \subseteq Keys
      <3>1. step = "work" /\ call \in Requests
        <4>1. DOMAIN <<>> = {}
          OBVIOUS
        <4> QED  BY <2>1, <4>1 DEF Counted
      <3>2. PICK W : W = WorkOf(call)
        OBVIOUS
      <3>3. Good(W, Passed(call), {})
        BY <3>1, <3>2, WorkGood DEF Underway
      <3>4. PICK n \in 0..Len(W) - 1 :
               Len(plan) = Len(W) - n /\ \A j \in 1..Len(plan) : plan[j] = W[n + j]
        BY <3>1, <3>2, Zenon DEF Underway
      <3>5. PICK S : plan \in Seq(S)
        BY <3>1 DEF Underway
      <3>6. PICK T : W \in Seq(T)
        BY <3>3 DEF Good
      <3>7. DOMAIN plan = 1..Len(plan) /\ Len(plan) \in Nat /\ Len(W) \in Nat
        BY <3>5, <3>6, ElementsOf
      <3>8. i \in 1..Len(plan) /\ n + i \in 1..Len(W)
        BY <3>4, <3>7
      <3>9. IsAccess(plan[i])
        BY <3>3, <3>4, <3>8 DEF Good, Apt
      <3> QED  BY <3>9 DEF IsAccess
    <2>2. ScanTypeOK /\ lastSeq \in 0..SeqMax
      BY DEF SettingsInv, ScanInv, Numbered
    <2> QED  BY <2>1, <2>2 DEF TypeOK, Settled, Counted
  <1> QED  BY InitValue, NextValue, InitNumbered, NextNumbered, <1>1, PTL DEF Spec

(* What the work orders is in force when all of it is in place; a level    *)
(* then as near as it can be, and so a temperature.                        *)
LEMMA Demanded ==
    ASSUME NEW W, InPlace(W, Len(W)), NEW k, NEW v, Orders(W, k, v)
    PROVE  force[k] = v
  BY DEF InPlace, Orders, Says

LEMMA NearIs ==
    ASSUME NEW k \in {"focus", "image", "raw"}, NEW l \in Levels,
           force[k] = Scaled(l, RangeOf[k])
    PROVE  Near(k, l)
  <1>1. RangeOf[k][1] \in Int /\ RangeOf[k][2] \in Int /\ RangeOf[k][1] <= RangeOf[k][2]
    BY RangeIs, RangesAre
  <1>2. l \in Int
    BY SettingsAssumption
  <1>3. LET x == PercentToRange(Clamped(l, 0, 100), RangeOf[k][1], RangeOf[k][2])
            err == 100 * (x - RangeOf[k][1])
                      - (RangeOf[k][2] - RangeOf[k][1]) * Clamped(l, 0, 100)
        IN x \in RangeOf[k][1]..RangeOf[k][2] /\ -50 <= err /\ err <= 50
    BY <1>1, <1>2, ScaledNear, Zenon
  <1> QED  BY <1>3, Zenon DEF Near, Scaled

LEMMA KelvinClosest ==
    ASSUME NEW t \in Kelvins, NEW k \in KelvinRange[1]..KelvinRange[2]
    PROVE  Apart(t, Kelvin(t)) <= Apart(t, k)
  BY RangesAre, SettingsAssumption DEF Apart, Kelvin, Clamped

(* What a call that was answered ok has asked for is in force when the     *)
(* camera has stood at its node: every switch, and every level and         *)
(* temperature as close as the range of the control allows.                *)
THEOREM AnsweredInForce == Spec => []InForce
  <1>1. ValueInv => InForce
    <2> SUFFICES ASSUME ValueInv, reply = "ok", ~left
                 PROVE  InForce
      BY DEF InForce
    <2>1. call \in Requests /\ ~Refused(call)
      BY DEF ValueInv, CallInv, Counted, Finished
    <2>2. \A k, v : Orders(WorkOf(call), k, v) => force[k] = v
      BY Demanded DEF ValueInv, CallInv, Finished
    <2>3. RangeOf["raw"] = ExposureRange /\ RangeOf["focus"] = FocusRange
          /\ RangeOf["image"] = ImageRange
      BY RangeIs DEF ExposureRange
    <2>4. CASE call.tool = "track_speed"
      <3>1. call.sport \in BOOLEAN /\ WorkOf(call) = TrackSpeed(call.sport)
        BY <2>1, <2>4 DEF Requests, WorkOf
      <3>2. force["sport"] = On(call.sport)
        BY <2>2, <3>1, SwitchMethods
      <3> QED  BY <2>4, <3>2 DEF InForce
    <2>5. CASE call.tool = "focus"
      <3>1. call.level \in Levels
        BY <2>1, <2>5 DEF Requests
      <3>2. force["focusAuto"] = On(call.mode = "auto")
        BY <2>1, <2>2, <2>5, FocusWorkGood
      <3>3. call.mode = "manual" => Near("focus", call.level)
        BY <2>1, <2>2, <2>3, <2>5, <3>1, FocusWorkGood, NearIs
      <3>4. Obeyed("faceFocus", call.face)
        BY <2>1, <2>2, <2>5, FocusWorkGood DEF Obeyed
      <3> QED  BY <2>5, <3>2, <3>3, <3>4 DEF InForce
    <2>6. CASE call.tool = "exposure"
      <3>1. call.level \in Levels
        BY <2>1, <2>6 DEF Requests
      <3>2. force["manual"] = On(call.mode = "manual")
        BY <2>1, <2>2, <2>6, ExposureWorkGood
      <3>3. Near("raw", call.level)
        BY <2>1, <2>2, <2>3, <2>6, <3>1, ExposureWorkGood, NearIs
      <3>4. Obeyed("faceAe", call.face)
        BY <2>1, <2>2, <2>6, ExposureWorkGood DEF Obeyed
      <3> QED  BY <2>6, <3>2, <3>3, <3>4 DEF InForce
    <2>7. CASE call.tool = "image_adjust"
      <3>1. call.level \in Levels /\ WorkOf(call) = ImageAdjust(call.level)
        BY <2>1, <2>7 DEF Requests, WorkOf
      <3>2. Near("image", call.level)
        BY <2>2, <2>3, <3>1, ImageMethod, NearIs
      <3> QED  BY <2>7, <3>2 DEF InForce
    <2>8. CASE call.tool = "image_mode"
      <3>1. call.kelvin \in Kelvins
        BY <2>1, <2>8 DEF Requests
      <3>2. /\ Obeyed("hdr", call.hdr)
            /\ Given(call.fov) => force["fov"] = FovValue[call.fov]
            /\ Given(call.wb) => force["wbAuto"] = On(call.wb = "auto")
            /\ call.wb = "manual" => force["wb"] = Kelvin(call.kelvin)
        BY <2>1, <2>2, <2>8, ModeWorkGood DEF Obeyed
      <3>3. call.wb = "manual" =>
               \A k \in KelvinRange[1]..KelvinRange[2] :
                  Apart(call.kelvin, force["wb"]) <= Apart(call.kelvin, k)
        BY <3>1, <3>2, KelvinClosest
      <3> QED  BY <2>8, <3>2, <3>3 DEF InForce
    <2>9. call.tool \in {"track_speed", "image_adjust", "focus", "exposure", "image_mode"}
      BY <2>1 DEF Requests
    <2> QED  BY <2>4, <2>5, <2>6, <2>7, <2>8, <2>9
  <1> QED  BY InitValue, NextValue, <1>1, PTL DEF Spec

-----------------------------------------------------------------------------
(* What a vendor frame is built from is what it is parsed to: the run's    *)
(* sample of the frames that ParseInverts speaks of.                       *)
THEOREM FramesParse == Spec => []ParseInvertsBuild
  <1>1. ParseInvertsBuild
    BY NothingMisparsed DEF ParseInvertsBuild
  <1> QED  BY <1>1, PTL

(* A frame with one or two neighbouring bits damaged is rejected or says   *)
(* the same, but for a length that is damaged to 0 (protocol.py:96): the   *)
(* run's sample of the frames, of which DamageNoticed says what does not   *)
(* depend on the payload.                                                  *)
THEOREM DamagesCaught == Spec => []DamageIsCaught
  <1>1. DamageIsCaught
    BY NothingUnnoticed DEF DamageIsCaught
  <1> QED  BY <1>1, PTL

(* Names and percentages come back: the names, of which there are no other,*)
(* and the run's sample of the ranges that RangesScale speaks of.          *)
THEOREM ReadAsSet == Spec => []ValuesReturn
  <1>1. ValuesReturn
    BY NamesReturn, NoTransients, NoBadRanges DEF ValuesReturn
  <1> QED  BY <1>1, PTL
=============================================================================
