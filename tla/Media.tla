------------------------------- MODULE Media -------------------------------
(***************************************************************************)
(* What the daemon does with the camera's video stream: the preview window *)
(* and the clips of record.py, the snapshots of capture.py, all of them    *)
(* child processes (ffplay, ffmpeg).  The stream has one reader: a process *)
(* that finds it taken fails.                                              *)
(*                                                                         *)
(* One call is worked on at a time (Daemon); the windows live on their own.*)
(* One may be closed by its user, or die, at any moment; one that is told  *)
(* to terminate may take longer than stop waits for it.  ffmpeg and ffplay *)
(* are installed: without them every call fails at once.                   *)
(***************************************************************************)
EXTENDS Naturals

CONSTANTS
    Windows,      \* bound: the ffplay processes of one behaviour
    MaxAttempts,  \* capture.py's MAX_ATTEMPTS
    None

ASSUME MediaAssumption ==
    /\ MaxAttempts \in Nat \ {0, 1}
    /\ None \notin Windows

VARIABLES
    window,  \* each ffplay: unborn, up, told (to terminate), killed, gone
    reader,  \* the window that reads the stream
    proc,    \* _preview._proc
    tool,    \* the call worked on
    pc,      \* where its worker is
    new,     \* the window that start has opened and waits on
    left,    \* ffmpeg attempts left
    reply

locals == <<tool, pc, new, left, reply>>
vars == <<window, reader, proc, locals>>

Tools == {"start", "stop", "snapshot", "clip"}

TypeOK ==
    /\ window \in [Windows -> {"unborn", "up", "told", "killed", "gone"}]
    /\ {reader, proc, new} \subseteq Windows \cup {None}
    /\ tool \in Tools \cup {"none"}
    /\ pc \in {"idle", "begin", "opening", "closing", "native", "default",
               "recording", "done"}
    /\ left \in 0..MaxAttempts
    /\ reply \in {"none", "ok", "error", "late"}

Init ==
    /\ window = [w \in Windows |-> "unborn"]
    /\ reader = None /\ proc = None /\ new = None
    /\ tool = "none" /\ pc = "idle" /\ left = 0
    /\ reply = "none"

Alive(w) == window[w] \in {"up", "told", "killed"}
Running == proc # None /\ Alive(proc)

Answer(r) == pc' = "done" /\ reply' = r
Goto(step) == pc' = step /\ UNCHANGED reply
Windowless == UNCHANGED <<window, reader, proc, new>>

Begin(t) ==
    /\ pc = "idle"
    /\ tool' = t /\ Goto("begin")
    /\ UNCHANGED <<window, reader, proc, new, left>>

Deliver ==
    /\ pc = "done"
    /\ tool' = "none" /\ pc' = "idle" /\ reply' = "none"
    /\ left' = 0
    /\ UNCHANGED <<window, reader, proc, new>>

-----------------------------------------------------------------------------
(* Preview.start refuses a second window, needs a display, opens ffplay and*)
(* waits a second: one that exits within it is an error, one that does not *)
(* becomes the preview.                                                    *)
StartFails ==
    /\ pc = "begin" /\ tool = "start"
    /\ Answer("error")
    /\ Windowless /\ UNCHANGED <<tool, left>>

AlwaysOpen == TRUE  \* mutant: a second window is not refused
MayOpen == ~Running

StartOpens ==
    /\ pc = "begin" /\ tool = "start"
    /\ MayOpen
    /\ \E w \in Windows :
          /\ window[w] = "unborn"
          /\ window' = [window EXCEPT ![w] = "up"]
          /\ new' = w
    /\ Goto("opening")
    /\ UNCHANGED <<reader, proc, tool, left>>

StartEnds ==
    /\ pc = "opening"
    /\ \/ window[new] = "gone" /\ Answer("error") /\ UNCHANGED proc
       \/ window[new] = "up" /\ Answer("ok") /\ proc' = new
    /\ new' = None
    /\ UNCHANGED <<window, reader, tool, left>>

(* Preview.stop terminates the window, waits three seconds, and kills it   *)
(* without waiting.                                                        *)
StopTells ==
    /\ pc = "begin" /\ tool = "stop"
    /\ IF Running
       THEN /\ window' = [window EXCEPT ![proc] = "told"]
            /\ Goto("closing") /\ UNCHANGED proc
       ELSE Answer("ok") /\ proc' = None /\ UNCHANGED window
    /\ UNCHANGED <<reader, tool, new, left>>

StopGivesUp ==  \* mutant: a window that does not terminate is left alone
    /\ pc = "closing"
    /\ proc' = None
    /\ Answer("ok")
    /\ UNCHANGED <<window, reader, tool, new, left>>

StopEnds ==
    /\ pc = "closing"
    /\ window' = [window EXCEPT ![proc] = IF @ = "gone" THEN @ ELSE "killed"]
    /\ proc' = None
    /\ Answer("ok")
    /\ UNCHANGED <<reader, tool, new, left>>

-----------------------------------------------------------------------------
(* take_snapshot: up to MaxAttempts grabs.  A grab runs ffmpeg at the      *)
(* native size and, if that gives nothing, at the default one; a timeout   *)
(* ends the grab at once.  A frame cut short uses up an attempt as a failed*)
(* grab does.  A whole frame is the answer: scaling falls back to it.      *)
Snapshot ==
    /\ pc = "begin" /\ tool = "snapshot"
    /\ left' = MaxAttempts
    /\ Goto("native")
    /\ Windowless /\ UNCHANGED tool

Grabbed == IF reader = None THEN {"whole", "cut", "nothing", "timeout"}
                            ELSE {"nothing"}
NoRetry ==      \* mutant: a failed grab ends the snapshot
    /\ left' = left - 1
    /\ Answer("error")
OneTooMany ==   \* mutant: an off-by-one in the number of attempts
    /\ left' = left - 1
    /\ IF left = 0 THEN Answer("error") ELSE Goto("native")
RetryForever == \* mutant: a failed grab uses up no attempt
    /\ Goto("native") /\ UNCHANGED left
Retry ==
    /\ left' = left - 1
    /\ IF left = 1 THEN Answer("error") ELSE Goto("native")

Grab ==
    /\ pc \in {"native", "default"}
    /\ \E got \in Grabbed :
          \/ got = "whole" /\ Answer("ok") /\ UNCHANGED left
          \/ got = "nothing" /\ pc = "native" /\ Goto("default") /\ UNCHANGED left
          \/ got = "nothing" /\ pc = "default" /\ Retry
          \/ got \in {"cut", "timeout"} /\ Retry
    /\ Windowless /\ UNCHANGED tool

(* record_clip: with the microphone if it is asked for and found, then once*)
(* without.  A recording has succeeded if ffmpeg exits with 0 and there is *)
(* a file at the path, be it this recording's or an earlier one's; one that*)
(* does not finish in time is not repeated.  A clip of no duration, or of a*)
(* camera that is not found, is an error.                                  *)
ClipFails ==
    /\ pc = "begin" /\ tool = "clip"
    /\ Answer("error")
    /\ Windowless /\ UNCHANGED <<tool, left>>

Clip ==
    /\ pc = "begin" /\ tool = "clip"
    /\ left' \in {1, 2}
    /\ Goto("recording")
    /\ Windowless /\ UNCHANGED tool

Exits == IF reader = None THEN {"zero", "failed", "timeout"} ELSE {"failed"}
Succeeds(exit, path) == exit = "zero" /\ path = "exists"

Again ==
    /\ left' = left - 1
    /\ IF left = 1 THEN Answer("error") ELSE Goto("recording")

Record ==
    /\ pc = "recording"
    /\ \E exit \in Exits, path \in {"exists", "missing"} :
          \/ Succeeds(exit, path) /\ Answer("ok") /\ UNCHANGED left
          \/ exit = "timeout" /\ Answer("late") /\ UNCHANGED left
          \/ ~Succeeds(exit, path) /\ exit # "timeout" /\ Again
    /\ Windowless /\ UNCHANGED tool

-----------------------------------------------------------------------------
(* The windows: one that is up gets the stream if it is free, and any may  *)
(* exit, for a stream that is taken, a user, a signal or a fault.          *)
Stream(w) ==
    /\ window[w] = "up" /\ reader = None
    /\ reader' = w
    /\ UNCHANGED <<window, proc, locals>>

Exit(w) ==
    /\ Alive(w)
    /\ window' = [window EXCEPT ![w] = "gone"]
    /\ reader' = IF reader = w THEN None ELSE reader
    /\ UNCHANGED <<proc, locals>>

Work ==
    \/ StartFails \/ StartOpens \/ StartEnds \/ StopTells \/ StopEnds
    \/ Snapshot \/ Grab \/ ClipFails \/ Clip \/ Record \/ Deliver

Next ==
    \/ \E t \in Tools : Begin(t)
    \/ Work
    \/ \E w \in Windows : Stream(w) \/ Exit(w)

(* Every wait of the worker has a time limit, and nothing survives SIGKILL.*)
Fairness ==
    /\ WF_vars(Work)
    /\ \A w \in Windows : WF_vars(window[w] = "killed" /\ Exit(w))

Spec == Init /\ [][Next]_vars
FairSpec == Spec /\ Fairness

-----------------------------------------------------------------------------
(* Every window that has not been killed is the one that the daemon can    *)
(* still stop, so there is one at most and none is left behind: "a single  *)
(* ffplay window tracked by one process handle" (record.py:6).             *)
NothingLeaks ==
    \A w \in Windows :
       window[w] \in {"up", "told"} => w = IF pc = "opening" THEN new ELSE proc

(* A stopped preview gives the stream back, also if it ignores SIGTERM.    *)
StopFreesStream == (pc = "done" /\ tool = "stop") ~> (reader = None)

(* A snapshot fails only after MaxAttempts grabs, whatever made each fail. *)
SnapshotPersists ==
    pc = "done" /\ tool = "snapshot" /\ reply = "error" => left = 0

(* A clip gives up only when a recording without the microphone has failed *)
(* too, unless one did not finish in time: "callers fall back to a silent  *)
(* clip" (record.py:41).                                                   *)
ClipFallsBack == pc = "done" /\ tool = "clip" /\ reply = "error" => left = 0

(* Every call is answered.                                                 *)
MediaAnswered == (pc # "idle") ~> (pc = "idle")
=============================================================================
