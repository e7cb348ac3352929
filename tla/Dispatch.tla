------------------------------ MODULE Dispatch ------------------------------
(***************************************************************************)
(* How a tool call reaches the camera: server.py's _run.                   *)
(*                                                                         *)
(* Every obsbot_* tool is a coroutine on one event loop.  It takes the one *)
(* asyncio.Lock of the daemon, hands its blocking work to the default      *)
(* thread pool (asyncio.to_thread), and releases the lock when the await   *)
(* ends.  The await ends when the thread does, or when the coroutine is    *)
(* cancelled: a thread cannot be interrupted, so then the lock is free     *)
(* again while the thread goes on using the camera.                        *)
(*                                                                         *)
(* asyncio.Lock and the pool are libraries; the facts used of them are:    *)
(* release only marks the lock free and wakes the first waiter, who takes  *)
(* it when the loop next runs it; acquire takes a free lock at once only   *)
(* if nobody waits; a pool job that no thread has picked up can still be   *)
(* withdrawn, one that a thread runs cannot.                               *)
(***************************************************************************)
EXTENDS Naturals, FiniteSets, SequencesExt

CONSTANTS
    Calls,      \* the tool calls that can be in flight, one per client
    Workers,    \* threads of the default executor
    MayCancel   \* whether the server cancels calls (a client gone, a shutdown)

ASSUME WorkersAssumption == Workers \in Nat \ {0}
ASSUME MayCancelAssumption == MayCancel \in BOOLEAN

VARIABLES
    task,       \* the coroutine of each call
    locked,     \* _lock._locked
    waiters,    \* _lock._waiters
    submitted,  \* work handed to the pool, picked up by no thread yet
    threads     \* work a thread is running: it may be using the camera

vars == <<task, locked, waiters, submitted, threads>>

Idle == "idle"            \* no such call, or it was answered
Waiting == "waiting"      \* at `async with _lock`
Running == "running"      \* inside it, at `await asyncio.to_thread`
Cancelled == "cancelled"  \* gone, its thread still running

TypeOK ==
    /\ task \in [Calls -> {Idle, Waiting, Running, Cancelled}]
    /\ locked \in BOOLEAN
    /\ waiters \in Seq(Calls)
    /\ submitted \in SUBSET Calls
    /\ threads \in SUBSET Calls

Init ==
    /\ task = [c \in Calls |-> Idle]
    /\ locked = FALSE
    /\ waiters = <<>>
    /\ submitted = {}
    /\ threads = {}

-----------------------------------------------------------------------------
ArriveUnlocked(c) ==  \* mutant: the lock is not looked at
    /\ task[c] = Idle
    /\ waiters = <<>>
    /\ task' = [task EXCEPT ![c] = Running]
    /\ locked' = TRUE
    /\ submitted' = submitted \cup {c}
    /\ UNCHANGED <<waiters, threads>>

ArriveBarging(c) ==  \* mutant: a free lock is taken past those who wait
    /\ task[c] = Idle
    /\ ~locked
    /\ task' = [task EXCEPT ![c] = Running]
    /\ locked' = TRUE
    /\ submitted' = submitted \cup {c}
    /\ UNCHANGED <<waiters, threads>>

(* A request comes in and takes the lock if it is free and nobody waits.   *)
ArriveFree(c) ==
    /\ task[c] = Idle
    /\ ~locked /\ waiters = <<>>
    /\ task' = [task EXCEPT ![c] = Running]
    /\ locked' = TRUE
    /\ submitted' = submitted \cup {c}
    /\ UNCHANGED <<waiters, threads>>

(* Otherwise it queues, behind a released lock's waiter too.               *)
ArriveBusy(c) ==
    /\ task[c] = Idle
    /\ locked \/ waiters # <<>>
    /\ task' = [task EXCEPT ![c] = Waiting]
    /\ waiters' = Append(waiters, c)
    /\ UNCHANGED <<locked, submitted, threads>>

GrantLast ==  \* mutant: the newest waiter is woken
    /\ ~locked /\ waiters # <<>>
    /\ task' = [task EXCEPT ![Last(waiters)] = Running]
    /\ locked' = TRUE
    /\ waiters' = Front(waiters)
    /\ submitted' = submitted \cup {Last(waiters)}
    /\ UNCHANGED threads

(* The first waiter runs again, takes the free lock and submits its work.  *)
Grant ==
    /\ ~locked /\ waiters # <<>>
    /\ task' = [task EXCEPT ![Head(waiters)] = Running]
    /\ locked' = TRUE
    /\ waiters' = Tail(waiters)
    /\ submitted' = submitted \cup {Head(waiters)}
    /\ UNCHANGED threads

(* A pool thread picks the work up.                                        *)
Start(c) ==
    /\ c \in submitted
    /\ Cardinality(threads) < Workers
    /\ submitted' = submitted \ {c}
    /\ threads' = threads \cup {c}
    /\ UNCHANGED <<task, locked, waiters>>

FinishLate(c) ==  \* mutant: a cancelled call keeps its place as finished
    /\ c \in threads
    /\ threads' = threads \ {c}
    /\ task' = IF task[c] = Cancelled THEN [task EXCEPT ![c] = "finished"] ELSE task
    /\ UNCHANGED <<locked, waiters, submitted>>

(* work() returns or raises; a cancelled call's result goes nowhere.       *)
Finish(c) ==
    /\ c \in threads
    /\ threads' = threads \ {c}
    /\ task' = IF task[c] = Cancelled THEN [task EXCEPT ![c] = Idle] ELSE task
    /\ UNCHANGED <<locked, waiters, submitted>>

ResumeHolding(c) ==  \* mutant: the lock is not released
    /\ task[c] = Running
    /\ c \notin submitted \cup threads
    /\ task' = [task EXCEPT ![c] = Idle]
    /\ UNCHANGED <<locked, waiters, submitted, threads>>

(* The await ends: the result, or the exception made a result, is returned *)
(* and leaving `async with` frees the lock.                                *)
Resume(c) ==
    /\ task[c] = Running
    /\ c \notin submitted \cup threads
    /\ task' = [task EXCEPT ![c] = Idle]
    /\ locked' = FALSE
    /\ UNCHANGED <<waiters, submitted, threads>>

CancelInQueue(c) ==  \* mutant: a cancelled waiter stays in the queue
    /\ MayCancel
    /\ task[c] = Waiting
    /\ task' = [task EXCEPT ![c] = Idle]
    /\ UNCHANGED <<locked, waiters, submitted, threads>>

(* CancelledError in acquire: the waiter leaves the queue.                 *)
CancelWaiting(c) ==
    /\ MayCancel
    /\ task[c] = Waiting
    /\ task' = [task EXCEPT ![c] = Idle]
    /\ \E i \in 1..Len(waiters) :
          waiters[i] = c /\ waiters' = RemoveAt(waiters, i)
    /\ UNCHANGED <<locked, submitted, threads>>

CancelSubmitted(c) ==  \* mutant: the work of a cancelled call stays in the pool
    /\ MayCancel
    /\ task[c] = Running
    /\ task' = [task EXCEPT ![c] = IF c \in threads THEN Cancelled ELSE Idle]
    /\ locked' = FALSE
    /\ UNCHANGED <<waiters, submitted, threads>>

(* CancelledError in to_thread: no except clause of _run catches it, so    *)
(* the lock is released.  Work not yet picked up is withdrawn.             *)
CancelRunning(c) ==
    /\ MayCancel
    /\ task[c] = Running
    /\ task' = [task EXCEPT ![c] = IF c \in threads THEN Cancelled ELSE Idle]
    /\ locked' = FALSE
    /\ submitted' = submitted \ {c}
    /\ UNCHANGED <<waiters, threads>>

Arrive(c) == ArriveFree(c) \/ ArriveBusy(c)
Cancel(c) == CancelWaiting(c) \/ CancelRunning(c)

Next ==
    \/ Grant
    \/ \E c \in Calls :
          Arrive(c) \/ Start(c) \/ Finish(c) \/ Resume(c) \/ Cancel(c)

(* The event loop runs every ready coroutine and the pool every submitted  *)
(* job; every work() ends, because every loop and subprocess in it has a   *)
(* deadline.  Nothing obliges a client to call or the server to cancel.    *)
Fairness ==
    /\ WF_vars(Grant)
    /\ \A c \in Calls :
          WF_vars(Start(c)) /\ WF_vars(Finish(c)) /\ WF_vars(Resume(c))

Spec == Init /\ [][Next]_vars
FairSpec == Spec /\ Fairness

-----------------------------------------------------------------------------
Holders == {c \in Calls : task[c] = Running}

(* While nothing is cancelled, at most one thread uses the camera: the     *)
(* check-then-act sequences of the tools (ensure_awake, the aim guards,    *)
(* Preview.start) rely on it.                                              *)
OneThread == ~MayCancel => \A c, d \in threads : c = d

(* The lock is taken exactly when one call is inside `async with`, and it  *)
(* alone may have work in the pool: a thread that runs without the lock    *)
(* belongs to a call that was cancelled.                                   *)
LockGuardsLive ==
    /\ locked <=> Holders # {}
    /\ \A c, d \in Holders : c = d
    /\ submitted \subseteq Holders
    /\ \A c \in threads : c \in Holders \/ task[c] = Cancelled

(* The queue holds each waiting call once and no other: a wake-up or a     *)
(* cancellation loses and duplicates nobody.                               *)
QueueIsWaiting ==
    /\ \A c \in Calls : (task[c] = Waiting) <=> Contains(waiters, c)
    /\ \A i, j \in 1..Len(waiters) : waiters[i] = waiters[j] => i = j

(* First come, first served: a call enters the lock only when everybody    *)
(* who was waiting before it has gone, so one that arrives between release *)
(* and wake-up does not overtake the queue.                                *)
Ahead(c, d) ==
    \E i \in 1..Len(waiters) :
        /\ waiters[i] = c
        /\ \A j \in 1..i : waiters[j] # d
FirstComeFirstServed ==
    [][\A c, d \in Calls :
          Ahead(c, d) /\ task[d] # Running /\ task'[d] = Running
             => task'[c] # Waiting]_vars

(* Every call that waits or runs is answered, or cancelled.                *)
EveryCallEnds == \A c \in Calls : (task[c] # Idle) ~> (task[c] = Idle)

-----------------------------------------------------------------------------
(* Without cancellation the daemon is a single server: refinement mapping. *)
InService ==
    IF locked THEN <<CHOOSE c \in Calls : task[c] = Running>> \o waiters
              ELSE waiters
Phase ==
    IF ~locked \/ submitted # {} THEN "ready"
    ELSE IF threads # {} THEN "executing" ELSE "executed"

Serial == INSTANCE SerialService WITH queue <- InService, phase <- Phase

(* The calls are executed one at a time, in the order they arrived, each   *)
(* exactly once and before it is answered, and each is answered.           *)
ImplementsSerialService == Serial!FairSpec
=============================================================================
