------------------------------- MODULE Daemon -------------------------------
(***************************************************************************)
(* The dispatcher together with the work it dispatches, for the tools that *)
(* use the video stream: every thread of the pool runs a work() of Media's,*)
(* and all share the windows and _preview.  Dispatch leaves open what a    *)
(* thread does and assumes that it ends; Media assumes that one call is    *)
(* worked on at a time.  Here neither is assumed.                          *)
(***************************************************************************)
EXTENDS Dispatch

CONSTANTS Windows, MaxAttempts, None  \* as in Media

ASSUME DaemonAssumption == MaxAttempts \in Nat \ {0, 1} /\ None \notin Windows

VARIABLES
    window, reader, proc,  \* as in Media
    thread                 \* the locals of the work() of each call

media == <<window, reader, proc, thread>>
daemon == <<vars, media>>

Rest == [tool |-> "none", pc |-> "idle", new |-> None, left |-> 0,
         reply |-> "none"]

(* The work() of one call; and the windows, which live without one.        *)
Worker(c) ==
    INSTANCE Media WITH
        tool <- thread[c].tool, pc <- thread[c].pc, new <- thread[c].new,
        left <- thread[c].left, reply <- thread[c].reply
Screen ==
    INSTANCE Media WITH
        tool <- Rest.tool, pc <- Rest.pc, new <- Rest.new,
        left <- Rest.left, reply <- Rest.reply

(* The locals that the work() of a tool may reach.                         *)
Replies == {"none", "ok", "error", "late"}
Locals(tool) ==
    CASE tool = "start" ->
           [tool : {tool}, pc : {"begin", "opening", "done"}, new : Windows \cup {None},
            left : {0}, reply : Replies]
      [] tool = "stop" ->
           [tool : {tool}, pc : {"begin", "closing", "done"}, new : {None},
            left : {0}, reply : Replies]
      [] tool = "snapshot" ->
           [tool : {tool}, pc : {"begin", "native", "default", "done"}, new : {None},
            left : 0..MaxAttempts, reply : Replies]
      [] tool = "clip" ->
           [tool : {tool}, pc : {"begin", "recording", "done"}, new : {None},
            left : 0..2, reply : Replies]

DaemonInit ==
    /\ Init
    /\ Screen!Init
    /\ thread = [c \in Calls |-> Rest]

-----------------------------------------------------------------------------
(* The event loop.                                                         *)
Coroutine ==
    /\ Grant \/ \E c \in Calls : Arrive(c) \/ Resume(c) \/ Cancel(c)
    /\ UNCHANGED media

(* A pool thread picks a work() up, runs it, and ends with its answer.     *)
PickUp(c) ==
    /\ Start(c)
    /\ \E t \in Screen!Tools : \E st \in Locals(t) :
          /\ thread' = [thread EXCEPT ![c] = st]
          /\ Worker(c)!Begin(t)

Step(c) ==
    /\ c \in threads
    /\ \E st \in Locals(thread[c].tool) :
          /\ thread' = [thread EXCEPT ![c] = st]
          /\ \/ Worker(c)!StartFails \/ Worker(c)!StartOpens \/ Worker(c)!StartEnds
             \/ Worker(c)!StopTells \/ Worker(c)!StopEnds
             \/ Worker(c)!Snapshot \/ Worker(c)!Grab
             \/ Worker(c)!ClipFails \/ Worker(c)!Clip \/ Worker(c)!Record
    /\ UNCHANGED vars

End(c) ==
    /\ thread' = [thread EXCEPT ![c] = Rest]
    /\ Worker(c)!Deliver
    /\ Finish(c)

WindowStep ==
    /\ \E w \in Windows : Screen!Stream(w) \/ Screen!Exit(w)
    /\ UNCHANGED <<vars, thread>>

DaemonNext ==
    \/ Coroutine
    \/ \E c \in Calls : PickUp(c) \/ Step(c) \/ End(c)
    \/ WindowStep

(* The loop runs what is ready and the pool what is submitted; a thread    *)
(* runs on, every wait in it having a time limit; SIGKILL kills.           *)
DaemonFairness ==
    /\ WF_daemon(Grant /\ UNCHANGED media)
    /\ \A c \in Calls :
          /\ WF_daemon(PickUp(c)) /\ WF_daemon(Step(c)) /\ WF_daemon(End(c))
          /\ WF_daemon(Resume(c) /\ UNCHANGED media)
    /\ \A w \in Windows :
          WF_daemon(window[w] = "killed" /\ Screen!Exit(w) /\ UNCHANGED <<vars, thread>>)

DaemonSpec == DaemonInit /\ [][DaemonNext]_daemon /\ DaemonFairness

-----------------------------------------------------------------------------
(* The one call that is worked on, as Media has it.                        *)
Active == IF threads = {} THEN Rest ELSE thread[CHOOSE c \in threads : TRUE]

OneWorker ==
    INSTANCE Media WITH
        tool <- Active.tool, pc <- Active.pc, new <- Active.new,
        left <- Active.left, reply <- Active.reply

(* However many calls arrive and however many threads the pool has, the    *)
(* windows, their handle and the captures behave as if one worker did one  *)
(* call after the other: what Media's properties say holds of the daemon.  *)
ImplementsMedia == OneWorker!FairSpec
=============================================================================
