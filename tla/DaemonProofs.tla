---------------------------- MODULE DaemonProofs ----------------------------
(***************************************************************************)
(* Proofs about Daemon, for any number of calls, pool threads, windows and *)
(* attempts: the daemon is a dispatcher, so what is proved of Dispatch     *)
(* holds of it; and when nothing is cancelled its threads together take    *)
(* the steps of Media's one worker, which nobody assumed.                  *)
(*                                                                         *)
(* The second rests on the dispatcher's invariant: no two threads run, so  *)
(* the locals of the only one (Active) change by its steps alone, and they *)
(* are those at rest before a call's work and after it.                    *)
(***************************************************************************)
EXTENDS Daemon, DispatchProofs

(* A thread that is not running has the locals of one at rest.            *)
Rested == DOMAIN thread = Calls /\ \A c \in Calls \ threads : thread[c] = Rest

DaemonInv == IInv /\ Rested

-----------------------------------------------------------------------------
(* A step of the daemon is one of the dispatcher or none of its business.  *)
LEMMA NextDispatches == [DaemonNext]_daemon => [Next]_vars
  <1> SUFFICES ASSUME [DaemonNext]_daemon PROVE [Next]_vars
    OBVIOUS
  <1>1. CASE Coroutine
    BY <1>1 DEF Coroutine, Next
  <1>2. ASSUME NEW c \in Calls, PickUp(c) \/ Step(c) \/ End(c) PROVE [Next]_vars
    BY <1>2, Zenon DEF PickUp, Step, End, Next
  <1>3. CASE WindowStep \/ UNCHANGED daemon
    BY <1>3 DEF WindowStep, daemon
  <1> QED  BY <1>1, <1>2, <1>3 DEF DaemonNext

LEMMA InitDaemon == DaemonInit => DaemonInv
  BY InitInv DEF DaemonInit, DaemonInv, Rested

LEMMA NextDaemon == DaemonInv /\ [DaemonNext]_daemon => DaemonInv'
  <1> SUFFICES ASSUME DaemonInv, [DaemonNext]_daemon PROVE DaemonInv'
    OBVIOUS
  <1>1. IInv'
    BY NextDispatches, NextLock, NextQueue, NextType DEF DaemonInv, IInv
  <1>2. Rested'
    <2>1. ASSUME NEW c \in Calls, PickUp(c) \/ Step(c) PROVE Rested'
      <3>1. PICK st : thread' = [thread EXCEPT ![c] = st]
        BY <2>1, Zenon DEF PickUp, Step
      <3>2. c \in threads' /\ threads \subseteq threads'
        BY <2>1 DEF PickUp, Start, Step, vars
      <3> QED  BY <3>1, <3>2 DEF DaemonInv, Rested
    <2>2. ASSUME NEW c \in Calls, End(c) PROVE Rested'
      BY <2>2 DEF End, Finish, DaemonInv, Rested
    <2>3. CASE Coroutine \/ WindowStep \/ UNCHANGED daemon
      <3>1. UNCHANGED <<threads, thread>>
        BY <2>3 DEF Coroutine, Grant, Arrive, ArriveFree, ArriveBusy, Resume, Cancel,
                    CancelWaiting, CancelRunning, WindowStep, daemon, vars, media
      <3> QED  BY <3>1 DEF DaemonInv, Rested
    <2> QED  BY <2>1, <2>2, <2>3 DEF DaemonNext
  <1> QED  BY <1>1, <1>2 DEF DaemonInv

LEMMA DaemonInductive == DaemonSpec => []DaemonInv
  BY InitDaemon, NextDaemon, PTL DEF DaemonSpec

-----------------------------------------------------------------------------
(* The steps of the only thread, seen as those of the one worker.          *)
LEMMA ActiveIs ==
    ASSUME DaemonInv, MayCancel = FALSE, NEW c \in threads PROVE Active = thread[c]
  <1>1. \A d \in threads : d = c
    BY DEF DaemonInv, IInv, TypeOK, LockGuardsLive, JobsInv, Holders, Running, Cancelled
  <1>2. (CHOOSE d \in threads : TRUE) = c
    BY <1>1
  <1> QED  BY <1>2 DEF Active

LEMMA ActiveIsThen ==
    ASSUME DaemonInv', MayCancel = FALSE, NEW c \in threads' PROVE Active' = thread'[c]
  <1>1. \A d \in threads' : d = c
    BY DEF DaemonInv, IInv, TypeOK, LockGuardsLive, JobsInv, Holders, Running, Cancelled
  <1>2. (CHOOSE d \in threads' : TRUE) = c
    BY <1>1
  <1> QED  BY <1>2 DEF Active

LEMMA PreviewMaps ==
    ASSUME NEW c, Active = thread[c], Active' = thread'[c],
           \/ Worker(c)!StartFails \/ Worker(c)!StartOpens \/ Worker(c)!StartEnds
           \/ Worker(c)!StopTells \/ Worker(c)!StopEnds
    PROVE  OneWorker!Work
  <1> USE DEF OneWorker!Work, Worker!Answer, OneWorker!Answer, Worker!Goto, OneWorker!Goto,
              Worker!Windowless, OneWorker!Windowless, Worker!Running, OneWorker!Running,
              Worker!Alive, OneWorker!Alive, Worker!MayOpen, OneWorker!MayOpen
  <1>1. CASE Worker(c)!StartFails
    BY <1>1 DEF Worker!StartFails, OneWorker!StartFails
  <1>2. CASE Worker(c)!StartOpens
    BY <1>2 DEF Worker!StartOpens, OneWorker!StartOpens
  <1>3. CASE Worker(c)!StartEnds
    BY <1>3 DEF Worker!StartEnds, OneWorker!StartEnds
  <1>4. CASE Worker(c)!StopTells
    BY <1>4 DEF Worker!StopTells, OneWorker!StopTells
  <1>5. CASE Worker(c)!StopEnds
    BY <1>5 DEF Worker!StopEnds, OneWorker!StopEnds
  <1> QED  BY <1>1, <1>2, <1>3, <1>4, <1>5

LEMMA CaptureMaps ==
    ASSUME NEW c, Active = thread[c], Active' = thread'[c],
           \/ Worker(c)!Snapshot \/ Worker(c)!Grab
           \/ Worker(c)!ClipFails \/ Worker(c)!Clip \/ Worker(c)!Record
    PROVE  OneWorker!Work
  <1> USE DEF OneWorker!Work, Worker!Answer, OneWorker!Answer, Worker!Goto, OneWorker!Goto,
              Worker!Windowless, OneWorker!Windowless
  <1>1. CASE Worker(c)!Snapshot
    BY <1>1 DEF Worker!Snapshot, OneWorker!Snapshot
  <1>2. CASE Worker(c)!Grab
    BY <1>2 DEF Worker!Grab, OneWorker!Grab, Worker!Grabbed, OneWorker!Grabbed,
                Worker!Retry, OneWorker!Retry
  <1>3. CASE Worker(c)!ClipFails
    BY <1>3 DEF Worker!ClipFails, OneWorker!ClipFails
  <1>4. CASE Worker(c)!Clip
    BY <1>4 DEF Worker!Clip, OneWorker!Clip
  <1>5. CASE Worker(c)!Record
    BY <1>5 DEF Worker!Record, OneWorker!Record, Worker!Exits, OneWorker!Exits,
                Worker!Succeeds, OneWorker!Succeeds, Worker!Again, OneWorker!Again
  <1> QED  BY <1>1, <1>2, <1>3, <1>4, <1>5

LEMMA CallMaps ==
    ASSUME DaemonInv, DaemonInv', MayCancel = FALSE, NEW c \in Calls,
           PickUp(c) \/ Step(c) \/ End(c)
    PROVE  OneWorker!Next
  <1>1. CASE PickUp(c)
    <2>1. PICK t \in Screen!Tools : Worker(c)!Begin(t)
      BY <1>1 DEF PickUp
    <2>2. c \in submitted /\ threads' = threads \cup {c}
      BY <1>1 DEF PickUp, Start
    <2>3. c \notin threads
      BY <2>2 DEF DaemonInv, IInv, JobsInv
    <2>4. threads = {}
      BY <2>2, <2>3
      DEF DaemonInv, IInv, TypeOK, LockGuardsLive, JobsInv, Holders, Running, Cancelled
    <2>5. Active = Rest /\ thread[c] = Rest
      BY <2>3, <2>4 DEF Active, DaemonInv, Rested
    <2>6. Active' = thread'[c]
      BY <2>2, ActiveIsThen
    <2>7. OneWorker!Begin(t)
      BY <2>1, <2>5, <2>6 DEF Worker!Begin, OneWorker!Begin, Worker!Goto, OneWorker!Goto, Rest
    <2> QED  BY <2>1, <2>7 DEF OneWorker!Next, Screen!Tools, OneWorker!Tools
  <1>2. CASE Step(c)
    <2>1. c \in threads /\ c \in threads'
      BY <1>2 DEF Step, vars
    <2>2. Active = thread[c]
      BY <2>1, ActiveIs
    <2>3. Active' = thread'[c]
      BY <2>1, ActiveIsThen
    <2> QED  BY <1>2, <2>2, <2>3, PreviewMaps, CaptureMaps DEF Step, OneWorker!Next
  <1>3. CASE End(c)
    <2>1. c \in threads /\ threads' = threads \ {c}
      BY <1>3 DEF End, Finish
    <2>2. Active = thread[c]
      BY <2>1, ActiveIs
    <2>3. thread'[c] = Rest
      BY <1>3 DEF End, DaemonInv, Rested
    <2>4. threads' = {}
      BY <2>1
      DEF DaemonInv, IInv, TypeOK, LockGuardsLive, JobsInv, Holders, Running, Cancelled
    <2>5. Active' = thread'[c]
      BY <2>3, <2>4 DEF Active, Rest
    <2>6. OneWorker!Deliver
      BY <1>3, <2>2, <2>5 DEF End, Worker!Deliver, OneWorker!Deliver
    <2> QED  BY <2>6 DEF OneWorker!Next, OneWorker!Work
  <1> QED  BY <1>1, <1>2, <1>3

LEMMA ScreenMaps ==
    ASSUME NEW w \in Windows, Screen!Stream(w) \/ Screen!Exit(w), Active' = Active
    PROVE  OneWorker!Next
  <1>1. OneWorker!Stream(w) \/ OneWorker!Exit(w)
    BY DEF Screen!Stream, OneWorker!Stream, Screen!Exit, OneWorker!Exit,
           Screen!Alive, OneWorker!Alive, OneWorker!locals
  <1> QED  BY <1>1 DEF OneWorker!Next

-----------------------------------------------------------------------------
(* The daemon dispatches as Dispatch says, whatever its threads do: what   *)
(* is proved of Dispatch, with or without cancellation, is true of it.     *)
THEOREM RefinesDispatch == DaemonSpec => Spec
  <1>1. DaemonInit => Init
    BY DEF DaemonInit
  <1> QED  BY <1>1, NextDispatches, PTL DEF DaemonSpec, Spec

(* So the daemon, its threads working, is a single server while nothing is *)
(* cancelled: the safety part of ImplementsSerialService.                  *)
THEOREM DaemonIsSerial ==
    ASSUME MayCancel = FALSE
    PROVE  DaemonSpec => Serial!Spec
  BY RefinesDispatch, RefinesSerial

(* While nothing is cancelled the windows, their handle and the captures   *)
(* of all the threads behave as if one worker did one call after the other:*)
(* the safety part of ImplementsMedia.                                     *)
THEOREM RefinesMedia ==
    ASSUME MayCancel = FALSE
    PROVE  DaemonSpec => OneWorker!Spec
  <1>1. DaemonInit => OneWorker!Init
    <2> SUFFICES ASSUME DaemonInit PROVE OneWorker!Init
      OBVIOUS
    <2>1. Active = Rest
      BY DEF DaemonInit, Init, Active
    <2> QED  BY <2>1 DEF DaemonInit, Screen!Init, OneWorker!Init, Rest
  <1>2. DaemonInv /\ DaemonInv' /\ [DaemonNext]_daemon => [OneWorker!Next]_(OneWorker!vars)
    <2> SUFFICES ASSUME DaemonInv, DaemonInv', [DaemonNext]_daemon
                 PROVE  [OneWorker!Next]_(OneWorker!vars)
      OBVIOUS
    <2>1. CASE Coroutine \/ UNCHANGED daemon
      <3>1. UNCHANGED <<threads, window, reader, proc, thread>>
        BY <2>1 DEF Coroutine, Grant, Arrive, ArriveFree, ArriveBusy, Resume, Cancel,
                    CancelWaiting, CancelRunning, daemon, vars, media
      <3>2. Active' = Active
        BY <3>1 DEF Active
      <3> QED  BY <3>1, <3>2 DEF OneWorker!vars, OneWorker!locals
    <2>2. CASE WindowStep
      <3>1. UNCHANGED <<threads, thread>>
        BY <2>2 DEF WindowStep, vars
      <3>2. Active' = Active
        BY <3>1 DEF Active
      <3> QED  BY <2>2, <3>2, ScreenMaps DEF WindowStep
    <2> QED  BY <2>1, <2>2, CallMaps DEF DaemonNext
  <1> QED  BY <1>1, <1>2, DaemonInductive, PTL DEF DaemonSpec, OneWorker!Spec

(* Media's proofs, for that one worker.                                    *)
Proved ==
    INSTANCE MediaProofs WITH
        tool <- Active.tool, pc <- Active.pc, new <- Active.new,
        left <- Active.left, reply <- Active.reply

(* What is proved of Media is true of the daemon: while nothing is cancelled*)
(* a preview window is never left behind, a snapshot tries all its attempts*)
(* and a clip falls back to a silent one, with any number of calls coming  *)
(* in and any pool.                                                        *)
THEOREM DaemonKeeps ==
    ASSUME MayCancel = FALSE
    PROVE  DaemonSpec => [](/\ OneWorker!NothingLeaks /\ OneWorker!SnapshotPersists
                            /\ OneWorker!ClipFallsBack)
  <1>1. Proved!Spec => [](Proved!NothingLeaks /\ Proved!SnapshotPersists /\ Proved!ClipFallsBack)
    BY Proved!NoWindowLost, Proved!SnapshotTriesAll, Proved!ClipsFallBack, DaemonAssumption,
       PTL DEF Proved!MediaAssumption
  <1>2. OneWorker!Init => Proved!Init
    BY DEF OneWorker!Init, Proved!Init
  <1>3. [OneWorker!Next]_(OneWorker!vars) => [Proved!Next]_(Proved!vars)
    BY DEF OneWorker!Next, Proved!Next, OneWorker!Work, Proved!Work, OneWorker!Begin,
        Proved!Begin, OneWorker!Stream, Proved!Stream, OneWorker!Exit, Proved!Exit,
        OneWorker!Deliver, Proved!Deliver, OneWorker!StartFails, Proved!StartFails,
        OneWorker!StartOpens, Proved!StartOpens, OneWorker!StartEnds,
        Proved!StartEnds, OneWorker!StopTells, Proved!StopTells, OneWorker!StopEnds,
        Proved!StopEnds, OneWorker!Snapshot, Proved!Snapshot, OneWorker!Grab,
        Proved!Grab, OneWorker!ClipFails, Proved!ClipFails, OneWorker!Clip,
        Proved!Clip, OneWorker!Record, Proved!Record, OneWorker!Tools, Proved!Tools,
        OneWorker!Answer, Proved!Answer, OneWorker!Goto, Proved!Goto,
        OneWorker!Windowless, Proved!Windowless, OneWorker!Running, Proved!Running,
        OneWorker!Alive, Proved!Alive, OneWorker!MayOpen, Proved!MayOpen,
        OneWorker!Grabbed, Proved!Grabbed, OneWorker!Retry, Proved!Retry,
        OneWorker!Exits, Proved!Exits, OneWorker!Succeeds, Proved!Succeeds,
        OneWorker!Again, Proved!Again, OneWorker!vars, Proved!vars,
        OneWorker!locals, Proved!locals
  <1>4. /\ Proved!NothingLeaks => OneWorker!NothingLeaks
        /\ Proved!SnapshotPersists => OneWorker!SnapshotPersists
        /\ Proved!ClipFallsBack => OneWorker!ClipFallsBack
    BY DEF Proved!NothingLeaks, OneWorker!NothingLeaks, Proved!SnapshotPersists,
           OneWorker!SnapshotPersists, Proved!ClipFallsBack, OneWorker!ClipFallsBack
  <1> QED  BY <1>1, <1>2, <1>3, <1>4, RefinesMedia, PTL DEF OneWorker!Spec, Proved!Spec
=============================================================================
