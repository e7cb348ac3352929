----------------------------- MODULE Discovery ------------------------------
(***************************************************************************)
(* How a call finds the camera: discovery.py's find_camera.  It lists the  *)
(* video nodes and opens them one after the other, while the bus may       *)
(* change under it: a device leaves, or comes (back) under any free node.  *)
(* There is one OBSBOT camera at most; it has a node without capture       *)
(* besides, and other cameras may be there.                                *)
(***************************************************************************)
EXTENDS Integers, FiniteSetsExt

CONSTANTS
    AtFirst,    \* bound: what may be at the nodes at first
    Nodes,      \* numbers of the nodes, in the order sorted() gives them
    Faults,     \* what may go wrong with a device that is there
    MaxFaults,  \* bound: faults of one behaviour
    MaxChanges  \* bound: devices that come, leave or hang

Kinds == {"none", "meta", "other", "camera"}
Buses == {b \in [Nodes -> Kinds] :
             \A m, n \in Nodes : b[m] = "camera" /\ b[n] = "camera" => m = n}

ASSUME DiscoveryAssumption ==
    /\ Nodes \subseteq Nat /\ IsFiniteSet(Nodes) /\ Nodes # {}
    /\ AtFirst \subseteq Buses
    /\ Faults \subseteq {"eio", "pipe", "denied"}
    /\ {MaxFaults, MaxChanges} \subseteq Nat

VARIABLES
    bus,     \* what is at each node
    ready,   \* whether the camera's extension unit answers
    step,    \* where the scan is, or its result
    todo,    \* the candidates not tried yet
    saw,     \* saw_camera_without_xu
    node,    \* the node being probed, then the one found
    fd,      \* the open device: none, live, or dead if it has left since
    luck,    \* history: how the camera fared since the nodes were listed
    left,    \* history: whether the device at node has left since its probe
    faults,  \* bound: faults left
    changes  \* bound: changes left

scan == <<step, todo, saw, node, fd>>
discovery == <<bus, ready, scan, luck, left, faults, changes>>

Present == \E n \in Nodes : bus[n] = "camera"

ScanTypeOK ==
    /\ bus \in Buses /\ ready \in BOOLEAN
    /\ step \in {"no", "list", "open", "probe", "found", "absent", "resetting",
                "work"}
    /\ todo \in SUBSET Nodes /\ saw \in BOOLEAN
    /\ node \in Nodes /\ fd \in {"none", "live", "dead"}
    /\ luck \in {"steady", "stood", "no"} /\ left \in BOOLEAN
    /\ faults \in 0..MaxFaults /\ changes \in 0..MaxChanges

ScanInit ==
    /\ bus \in AtFirst /\ ready = TRUE
    /\ step = "no" /\ todo = {} /\ saw = FALSE
    /\ node = Min(Nodes) /\ fd = "none"
    /\ luck = "no" /\ left = FALSE
    /\ faults = MaxFaults /\ changes = MaxChanges

-----------------------------------------------------------------------------
(* An access to a device that is there is fine or meets a fault.           *)
Meets(e) ==
    /\ e = "fine" \/ faults > 0
    /\ faults' = IF e = "fine" THEN faults ELSE faults - 1

NotSeen(sawNow) == "absent"  \* mutant: a camera that did not answer is forgotten
ScanAgain(sawNow) == IF sawNow THEN "list" ELSE "absent"  \* mutant: wait for it
Verdict(sawNow) == IF sawNow THEN "resetting" ELSE "absent"

List ==
    /\ step = "list"
    /\ todo' = {n \in Nodes : bus[n] # "none"}
    /\ saw' = FALSE
    /\ luck' = IF ~Present THEN "no" ELSE IF ready THEN "steady" ELSE "stood"
    /\ step' = IF todo' = {} THEN Verdict(FALSE) ELSE "open"
    /\ UNCHANGED <<bus, ready, node, fd, left, faults, changes>>

GiveUp(n, sawNow) ==  \* mutant: a node that is not the camera ends the scan
    /\ todo' = {}
    /\ step' = Verdict(sawNow)
Skip(n, sawNow) ==
    /\ todo' = todo \ {n}
    /\ step' = IF todo' = {} THEN Verdict(sawNow) ELSE "open"

AnyCapture(kind) == kind \in {"other", "camera"}  \* mutant: the name is not matched
Matches(kind) == kind = "camera"

(* The next candidate is opened and asked for its capabilities and name; an*)
(* error of any kind skips it.                                             *)
Open ==
    /\ step = "open"
    /\ \E n \in {Min(todo)}, e \in {"fine"} \cup Faults :
          /\ Meets(e)
          /\ IF e = "fine" /\ Matches(bus[n])
             THEN /\ step' = "probe" /\ node' = n /\ fd' = "live"
                  /\ left' = FALSE
                  /\ UNCHANGED todo
             ELSE Skip(n, saw) /\ UNCHANGED <<node, fd, left>>
          /\ luck' = IF e = "fine" \/ bus[n] # "camera" THEN luck ELSE "no"
    /\ UNCHANGED <<bus, ready, saw, changes>>

(* The extension unit is looked for; errors count as no answer.            *)
Probe ==
    /\ step = "probe"
    /\ \E e \in {"fine"} \cup Faults :
          /\ Meets(e)
          /\ IF e = "fine" /\ fd = "live" /\ (bus[node] = "camera" => ready)
             THEN step' = "found" /\ UNCHANGED <<todo, saw>>
             ELSE Skip(node, TRUE) /\ saw' = TRUE
          /\ luck' = IF e = "fine" \/ luck = "no" THEN luck ELSE "stood"
    /\ fd' = "none"
    /\ UNCHANGED <<bus, ready, node, left, changes>>

Scan == List \/ Open \/ Probe

(* The call is over: its locals are gone.                                  *)
Forget ==
    /\ step' = "no" /\ todo' = {} /\ saw' = FALSE
    /\ node' = Min(Nodes) /\ fd' = "none"
    /\ luck' = "no" /\ left' = FALSE

-----------------------------------------------------------------------------
(* The bus: an open device that leaves stays dead when another one, or the *)
(* same, comes under its node.  A camera that comes may not answer yet, and*)
(* one that hangs answers again.                                           *)
Leave(n) ==
    /\ bus[n] # "none" /\ changes > 0
    /\ bus' = [bus EXCEPT ![n] = "none"]
    /\ fd' = IF n = node /\ fd = "live" THEN "dead" ELSE fd
    /\ left' = (left \/ n = node)
    /\ luck' = IF bus[n] = "camera" THEN "no" ELSE luck
    /\ changes' = changes - 1
    /\ UNCHANGED <<ready, step, todo, saw, node, faults>>

Come(n, kind) ==
    /\ bus[n] = "none" /\ changes > 0
    /\ kind \in Kinds \ {"none"}
    /\ kind = "camera" => ~Present
    /\ bus' = [bus EXCEPT ![n] = kind]
    /\ \/ kind = "camera" /\ ready' \in BOOLEAN
       \/ kind # "camera" /\ UNCHANGED ready
    /\ changes' = changes - 1
    /\ UNCHANGED <<scan, luck, left, faults>>

Hang ==
    /\ Present /\ ready /\ changes > 0
    /\ ready' = FALSE
    /\ luck' = IF luck = "steady" THEN "stood" ELSE luck
    /\ changes' = changes - 1
    /\ UNCHANGED <<bus, scan, left, faults>>

Recover ==
    /\ ~ready
    /\ ready' = TRUE
    /\ UNCHANGED <<bus, scan, luck, left, faults, changes>>

-----------------------------------------------------------------------------
(* A camera that stands at its node, answers and meets no fault itself     *)
(* while the scan goes on is found, whatever else comes, leaves or fails to*)
(* open (discovery.py:69 skips it).                                        *)
SteadyIsFound == step \in {"absent", "resetting"} => luck # "steady"

(* Nobody is told that no camera is connected of one that stood at its node*)
(* and opened all along, but did not answer: "an OBSBOT capture node exists*)
(* but its vendor extension unit did not answer" (discovery.py:74).        *)
ResetIsTold == step = "absent" => luck = "no"
=============================================================================
