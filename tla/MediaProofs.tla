---------------------------- MODULE MediaProofs -----------------------------
(***************************************************************************)
(* Proofs about Media, for any number of windows and of attempts: no       *)
(* window is left behind, and a snapshot or a clip uses all its attempts.  *)
(*                                                                         *)
(* NothingLeaks is inductive once the types are known.  SnapshotPersists   *)
(* and ClipFallsBack need to know which tool a step serves, that a grab or *)
(* a recording under way is one of the attempts left, and that there are   *)
(* none left of the call before (Stages).  The last section is about the   *)
(* buffers and resolutions that a snapshot judges.                         *)
(***************************************************************************)
EXTENDS MCMedia, FunctionProofs

Stages ==
    /\ pc \in {"idle", "begin"} => left = 0
    /\ pc = "opening" => tool = "start"
    /\ pc = "closing" => tool = "stop"
    /\ pc = "recording" => tool = "clip" /\ left > 0
    /\ pc \in {"native", "default"} => tool = "snapshot" /\ left > 0

MediaInv == TypeOK /\ Stages /\ NothingLeaks /\ SnapshotPersists /\ ClipFallsBack

LEMMA InitMedia == Init => MediaInv
  BY MediaAssumption
  DEF Init, MediaInv, TypeOK, Tools, Stages, NothingLeaks, SnapshotPersists,
      ClipFallsBack

-----------------------------------------------------------------------------
(* The preview's steps.                                                    *)
LEMMA OpenStep == ASSUME MediaInv, StartOpens PROVE MediaInv'
  <1>1. PICK w \in Windows :
           window' = [window EXCEPT ![w] = "up"] /\ new' = w
    BY DEF StartOpens
  <1>2. \A v \in Windows : window[v] \notin {"up", "told"}
    BY MediaAssumption
    DEF StartOpens, MayOpen, Running, Alive, MediaInv, NothingLeaks
  <1>3. TypeOK'
    BY <1>1 DEF StartOpens, Goto, MediaInv, TypeOK
  <1>4. NothingLeaks'
    BY <1>1, <1>2 DEF StartOpens, Goto, MediaInv, TypeOK, NothingLeaks
  <1>5. Stages' /\ SnapshotPersists' /\ ClipFallsBack'
    BY DEF StartOpens, Goto, Stages, SnapshotPersists, ClipFallsBack
  <1> QED  BY <1>3, <1>4, <1>5 DEF MediaInv

LEMMA StartStep ==
    ASSUME MediaInv, StartFails \/ ClipFails \/ StartEnds PROVE MediaInv'
  <1>1. CASE StartFails \/ ClipFails
    BY <1>1
    DEF StartFails, ClipFails, Answer, Windowless, MediaInv, TypeOK, Stages, NothingLeaks,
        SnapshotPersists, ClipFallsBack
  <1>2. CASE StartEnds
    BY <1>2
    DEF StartEnds, Answer, MediaInv, TypeOK, Stages, NothingLeaks,
        SnapshotPersists, ClipFallsBack
  <1> QED  BY <1>1, <1>2

LEMMA StopStep == ASSUME MediaInv, StopTells \/ StopEnds PROVE MediaInv'
  <1>1. CASE StopTells /\ Running
    BY <1>1, MediaAssumption
    DEF StopTells, Running, Goto, MediaInv, TypeOK, Stages, NothingLeaks,
        SnapshotPersists, ClipFallsBack
  <1>2. CASE StopTells /\ ~Running
    BY <1>2, MediaAssumption
    DEF StopTells, Running, Alive, Answer, MediaInv, TypeOK, Stages,
        NothingLeaks, SnapshotPersists,
        ClipFallsBack
  <1>3. CASE StopEnds
    BY <1>3
    DEF StopEnds, Answer, MediaInv, TypeOK, Stages, NothingLeaks,
        SnapshotPersists, ClipFallsBack
  <1> QED  BY <1>1, <1>2, <1>3

-----------------------------------------------------------------------------
(* The steps that leave the windows alone, and the windows' own.           *)
LEMMA CaptureStep ==
    ASSUME MediaInv, Snapshot \/ Grab \/ Clip \/ Record PROVE MediaInv'
  <1> USE DEF Windowless, Answer, Goto
  <1>1. CASE Snapshot \/ Clip
    BY <1>1, MediaAssumption
    DEF Snapshot, Clip, MediaInv, TypeOK, Stages, NothingLeaks, SnapshotPersists,
        ClipFallsBack
  <1>2. ASSUME UNCHANGED <<window, reader, proc, new, tool>>,
               left' \in 0..MaxAttempts,
               pc \in {"native", "default", "recording"},
               pc' = "done" \/ (pc' \in {"native", "default", "recording"}
                                /\ left' > 0 /\ tool' = tool),
               pc' # "done" => (pc' = "recording") = (pc = "recording"),
               reply' \in {"none", "ok", "error", "late"},
               pc' = "done" /\ reply' = "error" => left' = 0
        PROVE  MediaInv'
    <2>1. TypeOK'
      BY <1>2 DEF MediaInv, TypeOK
    <2>2. Stages'
      BY <1>2 DEF MediaInv, Stages
    <2>3. NothingLeaks'
      BY <1>2 DEF MediaInv, NothingLeaks
    <2>4. SnapshotPersists' /\ ClipFallsBack'
      BY <1>2 DEF MediaInv, SnapshotPersists, ClipFallsBack
    <2> QED  BY <2>1, <2>2, <2>3, <2>4 DEF MediaInv
  <1>3. CASE Grab
    <2>1. PICK got \in Grabbed :
             \/ got = "whole" /\ Answer("ok") /\ UNCHANGED left
             \/ got = "nothing" /\ pc = "native" /\ Goto("default") /\ UNCHANGED left
             \/ Retry
      BY <1>3 DEF Grab
    <2>2. /\ pc \in {"native", "default"} /\ tool = "snapshot"
          /\ UNCHANGED <<window, reader, proc, new, tool>>
      BY <1>3 DEF Grab, MediaInv, Stages
    <2>3. /\ left \in 1..MaxAttempts /\ reply \in {"none", "ok", "error", "late"}
      BY <2>2 DEF MediaInv, TypeOK, Stages
    <2>4. left' \in 0..MaxAttempts /\ reply' \in {"none", "ok", "error", "late"}
      BY <2>1, <2>3, MediaAssumption DEF Retry
    <2>5. \/ pc' = "done" /\ (reply' = "error" => left' = 0)
          \/ pc' \in {"native", "default"} /\ left' > 0
      BY <2>1, <2>3 DEF Retry
    <2> QED  BY <2>2, <2>3, <2>4, <2>5, <1>2
  <1>4. CASE Record
    <2>1. /\ pc = "recording" /\ tool = "clip" /\ left \in 1..MaxAttempts
          /\ reply \in {"none", "ok", "error", "late"}
      BY <1>4 DEF Record, MediaInv, TypeOK, Stages
    <2>2. \/ Answer("ok") /\ UNCHANGED left
          \/ Answer("late") /\ UNCHANGED left
          \/ Again
      BY <1>4 DEF Record
    <2>5. left' \in 0..MaxAttempts /\ reply' \in {"none", "ok", "error", "late"}
      BY <2>1, <2>2, MediaAssumption DEF Again
    <2>6. \/ pc' = "done" /\ (reply' = "error" => left' = 0)
          \/ pc' = "recording" /\ left' > 0
      BY <2>1, <2>2 DEF Again
    <2>7. UNCHANGED <<window, reader, proc, new, tool>>
      BY <1>4 DEF Record
    <2> QED  BY <2>1, <2>2, <2>5, <2>6, <2>7, <1>2
  <1> QED  BY <1>1, <1>3, <1>4

LEMMA CallStep ==
    ASSUME MediaInv, Deliver \/ \E t \in Tools : Begin(t) PROVE MediaInv'
  <1>1. CASE Deliver
    BY <1>1, MediaAssumption
    DEF Deliver, MediaInv, TypeOK, Stages, NothingLeaks, SnapshotPersists,
        ClipFallsBack
  <1>2. ASSUME NEW t \in Tools, Begin(t) PROVE MediaInv'
    BY <1>2
    DEF Begin, Goto, MediaInv, TypeOK, Stages, NothingLeaks, SnapshotPersists,
        ClipFallsBack
  <1> QED  BY <1>1, <1>2

LEMMA WindowStep ==
    ASSUME MediaInv, NEW w \in Windows, Stream(w) \/ Exit(w) PROVE MediaInv'
  BY DEF Stream, Exit, Alive, MediaInv, TypeOK, Stages, NothingLeaks,
     SnapshotPersists, ClipFallsBack, locals

LEMMA NextMedia == MediaInv /\ [Next]_vars => MediaInv'
  <1> SUFFICES ASSUME MediaInv, [Next]_vars PROVE MediaInv'
    OBVIOUS
  <1>1. CASE Work
    BY <1>1, OpenStep, StartStep, StopStep, CaptureStep, CallStep DEF Work
  <1>2. CASE UNCHANGED vars
    BY <1>2
    DEF vars, locals, MediaInv, TypeOK, Stages, NothingLeaks, SnapshotPersists,
        ClipFallsBack
  <1> QED  BY <1>1, <1>2, CallStep, WindowStep DEF Next

(* Type correctness: in particular the attempts are never more than        *)
(* MaxAttempts nor negative, and proc is a window or None.                 *)
THEOREM TypeCorrect == Spec => []TypeOK
  <1>1. MediaInv => TypeOK
    BY DEF MediaInv
  <1> QED  BY InitMedia, NextMedia, <1>1, PTL DEF Spec

(* At any moment the daemon holds the handle of the only window that it has *)
(* not killed: none can be left behind, however starts, stops, exits and   *)
(* failures follow each other.                                             *)
THEOREM NoWindowLost == Spec => []NothingLeaks
  <1>1. MediaInv => NothingLeaks
    BY DEF MediaInv
  <1> QED  BY InitMedia, NextMedia, <1>1, PTL DEF Spec

(* take_snapshot gives up only when MaxAttempts grabs have failed.         *)
THEOREM SnapshotTriesAll == Spec => []SnapshotPersists
  <1>1. MediaInv => SnapshotPersists
    BY DEF MediaInv
  <1> QED  BY InitMedia, NextMedia, <1>1, PTL DEF Spec

(* record_clip gives up only when the silent recording has failed too, or  *)
(* one has not ended in time, whatever ffmpeg exits with, whatever is at   *)
(* the path, and whatever the previews do to the stream in between.        *)
THEOREM ClipsFallBack == Spec => []ClipFallsBack
  <1>1. MediaInv => ClipFallsBack
    BY DEF MediaInv
  <1> QED  BY InitMedia, NextMedia, <1>1, PTL DEF Spec

-----------------------------------------------------------------------------
(* A picture that was cut short is never taken for a complete one, nor a   *)
(* padded one for a cut one: the run's sample of the buffers that          *)
(* CompleteIsWhole speaks of.                                              *)
THEOREM CutsNoticed == Spec => []CutIsNoticed
  <1>1. CutIsNoticed
    BY NothingMisjudged DEF CutIsNoticed
  <1> QED  BY <1>1, PTL

(* The size that is reported is the picture's own, not a thumbnail's: the  *)
(* run's sample of the buffers that SizeOfFirstSof speaks of.              *)
THEOREM SizesAreOwn == Spec => []SizeIsOwn
  <1>1. SizeIsOwn
    BY NothingMissized DEF SizeIsOwn
  <1> QED  BY <1>1, PTL

(* Every snapshot of a 16:9 stream can be aimed by, and none of a 4:3 one: *)
(* the run's streams among those of SnapshotsAim and OddOnesRefused.       *)
THEOREM SnapshotsServe == Spec => []EverySnapshotAims
  <1>1. EverySnapshotAims
    BY NothingMisshapen DEF EverySnapshotAims
  <1> QED  BY <1>1, PTL
=============================================================================
