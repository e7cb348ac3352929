--------------------------- MODULE DispatchProofs ---------------------------
(***************************************************************************)
(* What Dispatch promises for every set of calls, every pool size, and     *)
(* with or without cancellation.  The inductive invariant IInv adds to the *)
(* stated invariants where a cancelled call's thread is and that a job is  *)
(* never both withdrawn and running.                                       *)
(***************************************************************************)
EXTENDS Dispatch, TLAPS

(* A job is in the pool's queue or on a thread, not both; a cancelled call *)
(* still has a thread; nobody is cancelled unless the server cancels.      *)
JobsInv ==
    /\ submitted \cap threads = {}
    /\ \A c \in Calls : task[c] = Cancelled => c \in threads /\ MayCancel

IInv == TypeOK /\ LockGuardsLive /\ JobsInv /\ QueueIsWaiting

-----------------------------------------------------------------------------
LEMMA InitType == Init => TypeOK
<1>1. Init => task \in [Calls -> {Idle, Waiting, Running, Cancelled}]
  BY DEF Init
<1>2. Init => locked \in BOOLEAN
  BY DEF Init
<1>3. Init => waiters \in Seq(Calls)
  BY DEF Init
<1>4. Init => submitted \in SUBSET Calls /\ threads \in SUBSET Calls
  BY DEF Init
<1> QED
  BY <1>1, <1>2, <1>3, <1>4 DEF TypeOK

LEMMA NextType == TypeOK /\ [Next]_vars => TypeOK'
<1> SUFFICES ASSUME TypeOK, [Next]_vars PROVE TypeOK'
  OBVIOUS
<1> USE DEF TypeOK, Idle, Waiting, Running, Cancelled
<1>1. CASE Grant
  BY <1>1 DEF Grant
<1>2. ASSUME NEW c \in Calls, ArriveFree(c) PROVE TypeOK'
  BY <1>2 DEF ArriveFree
<1>3. ASSUME NEW c \in Calls, ArriveBusy(c) PROVE TypeOK'
  BY <1>3 DEF ArriveBusy
<1>4. ASSUME NEW c \in Calls, Start(c) PROVE TypeOK'
  BY <1>4 DEF Start
<1>5. ASSUME NEW c \in Calls, Finish(c) PROVE TypeOK'
  BY <1>5 DEF Finish
<1>6. ASSUME NEW c \in Calls, Resume(c) PROVE TypeOK'
  BY <1>6 DEF Resume
<1>7. ASSUME NEW c \in Calls, CancelWaiting(c) PROVE TypeOK'
  BY <1>7 DEF CancelWaiting, RemoveAt
<1>8. ASSUME NEW c \in Calls, CancelRunning(c) PROVE TypeOK'
  BY <1>8 DEF CancelRunning
<1>9. CASE UNCHANGED vars
  BY <1>9 DEF vars
<1> QED
  BY <1>1, <1>2, <1>3, <1>4, <1>5, <1>6, <1>7, <1>8, <1>9
  DEF Next, Arrive, Cancel

(* Type correctness: every variable of the dispatcher keeps its type.      *)
THEOREM TypeCorrect == Spec => []TypeOK
  BY InitType, NextType, PTL DEF Spec

-----------------------------------------------------------------------------
(* Taking the first waiter, adding a last one, and removing one keep the   *)
(* queue without duplicates and say who is in it.                          *)
Distinct(s) == \A i, j \in 1..Len(s) : s[i] = s[j] => i = j

LEMMA TailQueue ==
    ASSUME NEW S, NEW s \in Seq(S), s # <<>>, Distinct(s)
    PROVE  /\ Distinct(Tail(s))
           /\ \A e : Contains(Tail(s), e) <=> Contains(s, e) /\ e # Head(s)
           /\ Contains(s, Head(s))
<1>1. /\ Len(Tail(s)) = Len(s) - 1 /\ Len(s) \in Nat /\ Len(s) >= 1
      /\ \A i \in 1..Len(Tail(s)) : Tail(s)[i] = s[i + 1]
      /\ Head(s) = s[1]
  OBVIOUS
<1>2. Distinct(Tail(s))
  BY <1>1 DEF Distinct
<1>3. ASSUME NEW e, Contains(s, e), e # Head(s) PROVE Contains(Tail(s), e)
  <2>1. PICK i \in 1..Len(s) : s[i] = e
    BY <1>3 DEF Contains
  <2>2. i - 1 \in 1..Len(Tail(s)) /\ Tail(s)[i - 1] = e
    BY <1>1, <1>3, <2>1
  <2> QED
    BY <2>2 DEF Contains
<1>4. ASSUME NEW e, Contains(Tail(s), e)
      PROVE Contains(s, e) /\ e # Head(s)
  BY <1>1, <1>4 DEF Contains, Distinct
<1>5. Contains(s, Head(s))
  BY <1>1 DEF Contains
<1> QED
  BY <1>2, <1>3, <1>4, <1>5

LEMMA AppendQueue ==
    ASSUME NEW S, NEW s \in Seq(S), NEW e \in S, Distinct(s), ~Contains(s, e)
    PROVE  /\ Distinct(Append(s, e))
           /\ \A d : Contains(Append(s, e), d) <=> Contains(s, d) \/ d = e
<1>1. /\ Len(Append(s, e)) = Len(s) + 1 /\ Len(s) \in Nat
      /\ \A i \in 1..Len(s) : Append(s, e)[i] = s[i]
      /\ Append(s, e)[Len(s) + 1] = e
  OBVIOUS
<1>2. Distinct(Append(s, e))
  BY <1>1 DEF Distinct, Contains
<1>3. ASSUME NEW d, Contains(s, d) \/ d = e PROVE Contains(Append(s, e), d)
  BY <1>1, <1>3 DEF Contains
<1>4. ASSUME NEW d, Contains(Append(s, e), d) PROVE Contains(s, d) \/ d = e
  BY <1>1, <1>4 DEF Contains
<1> QED
  BY <1>2, <1>3, <1>4

LEMMA ConcatQueue ==
    ASSUME NEW S, NEW s \in Seq(S), NEW t \in Seq(S)
    PROVE  /\ Len(s \o t) = Len(s) + Len(t)
           /\ Len(s) \in Nat /\ Len(t) \in Nat
           /\ \A i \in 1..Len(s) : (s \o t)[i] = s[i]
           /\ \A i \in 1..Len(t) : (s \o t)[Len(s) + i] = t[i]
  OBVIOUS

LEMMA RemoveQueue ==
    ASSUME NEW S, NEW s \in Seq(S), NEW k \in 1..Len(s), Distinct(s)
    PROVE  /\ Distinct(RemoveAt(s, k))
           /\ \A e : Contains(RemoveAt(s, k), e)
                        <=> Contains(s, e) /\ e # s[k]
<1> DEFINE r == RemoveAt(s, k)
<1>1. /\ Len(s) \in Nat /\ Len(r) = Len(s) - 1
      /\ \A i \in 1..Len(r) : r[i] = IF i < k THEN s[i] ELSE s[i + 1]
  <2> DEFINE a == SubSeq(s, 1, k - 1)
             b == SubSeq(s, k + 1, Len(s))
  <2>1. /\ a \in Seq(S) /\ Len(a) = k - 1
        /\ \A i \in 1..(k - 1) : a[i] = s[i]
    OBVIOUS
  <2>2. /\ b \in Seq(S) /\ Len(b) = Len(s) - k
        /\ \A i \in 1..(Len(s) - k) : b[i] = s[k + i]
    OBVIOUS
  <2>3. r = a \o b
    BY DEF RemoveAt
  <2>0. Len(s) \in Nat /\ k \in Nat
    OBVIOUS
  <2> HIDE DEF a, b, r
  <2>4. /\ Len(r) = Len(a) + Len(b)
        /\ Len(a) \in Nat /\ Len(b) \in Nat
        /\ \A i \in 1..Len(a) : r[i] = a[i]
        /\ \A i \in 1..Len(b) : r[Len(a) + i] = b[i]
    <3>1. a \in Seq(S) /\ b \in Seq(S)
      BY <2>1, <2>2
    <3> QED
      BY <2>3, <3>1, ConcatQueue
  <2>7. ASSUME NEW i \in 1..Len(r), i >= k PROVE r[i] = s[i + 1]
    <3>1. i - Len(a) \in 1..Len(b) /\ Len(a) + (i - Len(a)) = i
      BY <2>0, <2>1, <2>2, <2>4, <2>7
    <3>2. r[i] = b[i - Len(a)]
      BY <2>4, <3>1
    <3>3. k + (i - Len(a)) = i + 1 /\ i - Len(a) \in 1..(Len(s) - k)
      BY <2>0, <2>1, <2>2, <3>1
    <3> QED
      BY <2>2, <3>2, <3>3
  <2> QED
    BY <2>0, <2>1, <2>2, <2>4, <2>7
<1> HIDE DEF r
<1>2. Distinct(r)
  <2> SUFFICES ASSUME NEW i \in 1..Len(r), NEW j \in 1..Len(r), r[i] = r[j]
               PROVE i = j
    BY DEF Distinct
  <2>1. \A m \in 1..Len(r) : r[m] = s[IF m < k THEN m ELSE m + 1]
    BY <1>1
  <2>2. \A m \in 1..Len(r) : (IF m < k THEN m ELSE m + 1) \in 1..Len(s)
    BY <1>1
  <2>3. (IF i < k THEN i ELSE i + 1) = (IF j < k THEN j ELSE j + 1)
    BY <2>1, <2>2 DEF Distinct
  <2> QED
    BY <1>1, <2>3
<1>3. ASSUME NEW e, Contains(s, e), e # s[k] PROVE Contains(r, e)
  <2>1. PICK i \in 1..Len(s) : s[i] = e
    BY <1>3 DEF Contains
  <2>2. CASE i < k
    BY <1>1, <2>1, <2>2 DEF Contains
  <2>3. CASE i > k
    <3>1. i - 1 \in 1..Len(r) /\ r[i - 1] = e
      BY <1>1, <2>1, <2>3
    <3> QED
      BY <3>1 DEF Contains
  <2> QED
    BY <1>3, <2>1, <2>2, <2>3
<1>4. ASSUME NEW e, Contains(r, e) PROVE Contains(s, e) /\ e # s[k]
  <2>1. PICK i \in 1..Len(r) : r[i] = e
    BY <1>4 DEF Contains
  <2>2. CASE i < k
    BY <1>1, <2>1, <2>2 DEF Contains, Distinct
  <2>3. CASE i >= k
    BY <1>1, <2>1, <2>3 DEF Contains, Distinct
  <2> QED
    BY <1>1, <2>1, <2>2, <2>3
<1> QED
  BY <1>2, <1>3, <1>4 DEF r

-----------------------------------------------------------------------------
LEMMA InitInv == Init => IInv
<1> SUFFICES ASSUME Init PROVE IInv
  OBVIOUS
<1>1. Len(waiters) = 0 /\ Holders = {} /\ Idle # Waiting /\ Idle # Cancelled
  BY DEF Init, Holders, Idle, Running, Waiting, Cancelled
<1>2. LockGuardsLive
  BY <1>1 DEF Init, LockGuardsLive
<1>3. JobsInv
  BY <1>1 DEF Init, JobsInv
<1>4. QueueIsWaiting
  BY <1>1 DEF Init, QueueIsWaiting, Contains
<1> QED
  BY <1>2, <1>3, <1>4, InitType DEF IInv

(* The first waiter is a waiting call.                                     *)
LEMMA HeadWaits ==
    ASSUME TypeOK, QueueIsWaiting, waiters # <<>>
    PROVE  Head(waiters) \in Calls /\ task[Head(waiters)] = Waiting
<1>1. Head(waiters) \in Calls
  BY DEF TypeOK
<1>2. Contains(waiters, Head(waiters))
  BY TailQueue DEF TypeOK, QueueIsWaiting, Distinct
<1> QED
  BY <1>1, <1>2 DEF QueueIsWaiting

LEMMA NextLock == IInv /\ [Next]_vars => LockGuardsLive' /\ JobsInv'
<1> SUFFICES ASSUME IInv, [Next]_vars PROVE LockGuardsLive' /\ JobsInv'
  OBVIOUS
<1> USE DEF IInv, TypeOK, LockGuardsLive, JobsInv, Holders,
            Idle, Waiting, Running, Cancelled
<1>1. CASE Grant
  <2>1. Head(waiters) \in Calls /\ task[Head(waiters)] = Waiting
    BY <1>1, HeadWaits DEF Grant
  <2> QED
    BY <1>1, <2>1 DEF Grant
<1>2. ASSUME NEW c \in Calls, ArriveFree(c) PROVE LockGuardsLive' /\ JobsInv'
  BY <1>2 DEF ArriveFree
<1>3. ASSUME NEW c \in Calls, ArriveBusy(c) PROVE LockGuardsLive' /\ JobsInv'
  BY <1>3 DEF ArriveBusy
<1>4. ASSUME NEW c \in Calls, Start(c) PROVE LockGuardsLive' /\ JobsInv'
  BY <1>4 DEF Start
<1>5. ASSUME NEW c \in Calls, Finish(c) PROVE LockGuardsLive' /\ JobsInv'
  BY <1>5 DEF Finish
<1>6. ASSUME NEW c \in Calls, Resume(c) PROVE LockGuardsLive' /\ JobsInv'
  BY <1>6 DEF Resume
<1>7. ASSUME NEW c \in Calls, CancelWaiting(c)
      PROVE LockGuardsLive' /\ JobsInv'
  BY <1>7 DEF CancelWaiting
<1>8. ASSUME NEW c \in Calls, CancelRunning(c)
      PROVE LockGuardsLive' /\ JobsInv'
  BY <1>8 DEF CancelRunning
<1>9. CASE UNCHANGED vars
  BY <1>9 DEF vars
<1> QED
  BY <1>1, <1>2, <1>3, <1>4, <1>5, <1>6, <1>7, <1>8, <1>9
  DEF Next, Arrive, Cancel

LEMMA NextQueue == IInv /\ [Next]_vars => QueueIsWaiting'
<1> SUFFICES ASSUME IInv, [Next]_vars PROVE QueueIsWaiting'
  OBVIOUS
<1> USE DEF IInv, TypeOK, Idle, Waiting, Running, Cancelled
<1>0. Distinct(waiters)
      /\ \A c \in Calls : (task[c] = Waiting) <=> Contains(waiters, c)
  BY DEF QueueIsWaiting, Distinct
<1>q. ASSUME Distinct(waiters'),
             \A c \in Calls : (task'[c] = Waiting) <=> Contains(waiters', c)
      PROVE  QueueIsWaiting'
  BY <1>q DEF QueueIsWaiting, Distinct
<1>1. CASE Grant
  <2>1. waiters # <<>> /\ waiters' = Tail(waiters)
        /\ task' = [task EXCEPT ![Head(waiters)] = Running]
    BY <1>1 DEF Grant
  <2>2. /\ Distinct(Tail(waiters))
        /\ \A e : Contains(Tail(waiters), e)
                     <=> Contains(waiters, e) /\ e # Head(waiters)
    BY <1>0, <2>1, TailQueue
  <2>3. Head(waiters) \in Calls
    BY <2>1
  <2> QED
    BY <1>0, <1>q, <2>1, <2>2, <2>3
<1>2. ASSUME NEW c \in Calls, ArriveFree(c) PROVE QueueIsWaiting'
  BY <1>0, <1>q, <1>2 DEF ArriveFree
<1>3. ASSUME NEW c \in Calls, ArriveBusy(c) PROVE QueueIsWaiting'
  <2>1. waiters' = Append(waiters, c) /\ ~Contains(waiters, c)
        /\ task' = [task EXCEPT ![c] = Waiting]
    BY <1>0, <1>3 DEF ArriveBusy
  <2>2. /\ Distinct(Append(waiters, c))
        /\ \A d : Contains(Append(waiters, c), d)
                     <=> Contains(waiters, d) \/ d = c
    BY <1>0, <2>1, AppendQueue
  <2> QED
    BY <1>0, <1>q, <2>1, <2>2
<1>4. ASSUME NEW c \in Calls, Start(c) PROVE QueueIsWaiting'
  BY <1>0, <1>q, <1>4 DEF Start
<1>5. ASSUME NEW c \in Calls, Finish(c) PROVE QueueIsWaiting'
  BY <1>0, <1>q, <1>5 DEF Finish
<1>6. ASSUME NEW c \in Calls, Resume(c) PROVE QueueIsWaiting'
  BY <1>0, <1>q, <1>6 DEF Resume
<1>7. ASSUME NEW c \in Calls, CancelWaiting(c) PROVE QueueIsWaiting'
  <2>1. PICK i \in 1..Len(waiters) :
           waiters[i] = c /\ waiters' = RemoveAt(waiters, i)
    BY <1>7 DEF CancelWaiting
  <2>2. /\ Distinct(RemoveAt(waiters, i))
        /\ \A e : Contains(RemoveAt(waiters, i), e)
                     <=> Contains(waiters, e) /\ e # waiters[i]
    BY <1>0, RemoveQueue
  <2>3. task' = [task EXCEPT ![c] = Idle]
    BY <1>7 DEF CancelWaiting
  <2> QED
    BY <1>0, <1>q, <2>1, <2>2, <2>3
<1>8. ASSUME NEW c \in Calls, CancelRunning(c) PROVE QueueIsWaiting'
  BY <1>0, <1>q, <1>8 DEF CancelRunning
<1>9. CASE UNCHANGED vars
  BY <1>0, <1>q, <1>9 DEF vars
<1> QED
  BY <1>1, <1>2, <1>3, <1>4, <1>5, <1>6, <1>7, <1>8, <1>9
  DEF Next, Arrive, Cancel

LEMMA Inductive == Spec => []IInv
<1>1. IInv /\ [Next]_vars => IInv'
  BY NextType, NextLock, NextQueue DEF IInv
<1> QED
  BY <1>1, InitInv, PTL DEF Spec

-----------------------------------------------------------------------------
(* The lock is taken exactly when one call is inside it, and a thread that *)
(* uses the camera without it belongs to a cancelled call.                 *)
THEOREM LockProtects == Spec => []LockGuardsLive
<1>1. IInv => LockGuardsLive
  BY DEF IInv
<1> QED
  BY <1>1, Inductive, PTL

(* The lock's queue holds each waiting call exactly once.                  *)
THEOREM QueueHonest == Spec => []QueueIsWaiting
<1>1. IInv => QueueIsWaiting
  BY DEF IInv
<1> QED
  BY <1>1, Inductive, PTL

(* Without cancellation the camera is used by one thread at a time,        *)
(* whatever the number of clients and of pool threads.                     *)
THEOREM CameraExclusive == Spec => []OneThread
<1>1. IInv => OneThread
  BY DEF IInv, OneThread, LockGuardsLive, JobsInv, TypeOK
<1> QED
  BY <1>1, Inductive, PTL

(* No call overtakes another in the queue of the lock.                     *)
THEOREM FirstServed == Spec => FirstComeFirstServed
<1> DEFINE A == \A c, d \in Calls :
                   Ahead(c, d) /\ task[d] # Running /\ task'[d] = Running
                      => task'[c] # Waiting
<1>1. IInv /\ [Next]_vars => [A]_vars
  <2> SUFFICES ASSUME IInv, Next, NEW c \in Calls, NEW d \in Calls,
                      Ahead(c, d), task[d] # Running, task'[d] = Running
               PROVE  task'[c] # Waiting
    OBVIOUS
  <2>1. task \in [Calls -> {Idle, Waiting, Running, Cancelled}]
        /\ waiters \in Seq(Calls)
    BY DEF IInv, TypeOK
  <2>2. Len(waiters) \in Nat /\ waiters # <<>>
    BY <2>1 DEF Ahead
  <2>3. CASE Grant
    <3>1. d = Head(waiters) /\ Head(waiters) = waiters[1]
      BY <2>1, <2>2, <2>3 DEF Grant
    <3> QED
      BY <2>2, <3>1 DEF Ahead
  <2>4. ASSUME NEW e \in Calls, ArriveFree(e) PROVE FALSE
    BY <2>2, <2>4 DEF ArriveFree
  <2>5. ASSUME NEW e \in Calls, \/ ArriveBusy(e) \/ Start(e) \/ Finish(e)
                                \/ Resume(e) \/ Cancel(e)
        PROVE  FALSE
    BY <2>1, <2>5 DEF ArriveBusy, Start, Finish, Resume, Cancel,
       CancelWaiting, CancelRunning, Idle, Waiting, Running, Cancelled
  <2> QED
    BY <2>3, <2>4, <2>5 DEF Next, Arrive
<1> QED
  BY <1>1, Inductive, PTL DEF Spec, FirstComeFirstServed

-----------------------------------------------------------------------------
LEMMA TheHolder ==
    ASSUME NEW t, NEW c \in Calls, t[c] = Running,
           \A d \in Calls : t[d] = Running => d = c
    PROVE  (CHOOSE d \in Calls : t[d] = Running) = c
  OBVIOUS

LEMMA HolderFirst ==
    ASSUME NEW s \in Seq(Calls), NEW c \in Calls
    PROVE  /\ <<c>> \o s \in Seq(Calls)
           /\ <<c>> \o s # <<>>
           /\ Tail(<<c>> \o s) = s
           /\ s = <<>> => <<c>> \o s = Append(<<>>, c)
           /\ s # <<>> => <<Head(s)>> \o Tail(s) = s
           /\ \A d \in Calls : <<c>> \o Append(s, d) = Append(<<c>> \o s, d)
           /\ \A i \in 1..Len(<<c>> \o s) :
                 (<<c>> \o s)[i] = c \/ \E j \in 1..Len(s) :
                                           (<<c>> \o s)[i] = s[j]
<1>1. /\ Len(<<c>> \o s) = Len(s) + 1 /\ Len(s) \in Nat
      /\ \A i \in 1..(Len(s) + 1) :
            (<<c>> \o s)[i] = IF i = 1 THEN c ELSE s[i - 1]
  OBVIOUS
<1>2. \A d \in Calls : <<c>> \o Append(s, d) = Append(<<c>> \o s, d)
  OBVIOUS
<1>3. s # <<>> => <<Head(s)>> \o Tail(s) = s
  OBVIOUS
<1>4. Tail(<<c>> \o s) = s /\ <<c>> \o s # <<>> /\ <<c>> \o s \in Seq(Calls)
  OBVIOUS
<1>5. s = <<>> => <<c>> \o s = Append(<<>>, c)
  OBVIOUS
<1>6. ASSUME NEW i \in 1..Len(<<c>> \o s), (<<c>> \o s)[i] # c
      PROVE  \E j \in 1..Len(s) : (<<c>> \o s)[i] = s[j]
  <2>1. i - 1 \in 1..Len(s) /\ (<<c>> \o s)[i] = s[i - 1]
    BY <1>1, <1>6
  <2> QED
    BY <2>1
<1> QED
  BY <1>2, <1>3, <1>4, <1>5, <1>6

(* The dispatcher without cancellation is a single server that executes    *)
(* every call alone, once and in order of arrival: the safety part of      *)
(* ImplementsSerialService.                                                *)
THEOREM RefinesSerial ==
    ASSUME MayCancel = FALSE
    PROVE  Spec => Serial!Spec
<1>1. Init => Serial!Init
  BY DEF Init, Serial!Init, InService, Phase
<1>2. IInv /\ IInv' /\ [Next]_vars => [Serial!Next]_(Serial!vars)
  <2> SUFFICES ASSUME IInv, IInv', [Next]_vars
               PROVE  [Serial!Next]_(Serial!vars)
    OBVIOUS
  <2>1. ASSUME NEW c \in Calls, task[c] = Running
        PROVE  /\ locked /\ InService = <<c>> \o waiters
               /\ submitted \cup threads \subseteq {c}
    BY <2>1, TheHolder
    DEF IInv, LockGuardsLive, JobsInv, Holders, InService, TypeOK
  <2>2. ASSUME NEW c \in Calls, task'[c] = Running
        PROVE  /\ locked' /\ InService' = <<c>> \o waiters'
               /\ submitted' \cup threads' \subseteq {c}
    BY <2>2, TheHolder
    DEF IInv, LockGuardsLive, JobsInv, Holders, InService, TypeOK
  <2>3. waiters \in Seq(Calls) /\ task \in [Calls -> {Idle, Waiting, Running,
           Cancelled}] /\ waiters' \in Seq(Calls)
    BY DEF IInv, TypeOK
  <2>4. ~locked => InService = waiters
    BY DEF InService
  <2>5. ~locked' => InService' = waiters'
    BY DEF InService
  <2>6. CASE Grant
    <3>1. Head(waiters) \in Calls /\ task'[Head(waiters)] = Running
          /\ ~locked /\ waiters # <<>> /\ waiters' = Tail(waiters)
          /\ submitted' # {}
      BY <2>3, <2>6 DEF Grant
    <3>2. InService' = <<Head(waiters)>> \o Tail(waiters)
      BY <2>2, <3>1
    <3>3. InService' = InService
      BY <2>3, <2>4, <3>1, <3>2, HolderFirst
    <3>4. Phase' = Phase
      BY <3>1 DEF Phase
    <3> QED
      BY <3>3, <3>4 DEF Serial!vars
  <2>7. ASSUME NEW c \in Calls, ArriveFree(c) PROVE Serial!Submit(c)
    <3>1. task'[c] = Running /\ ~locked /\ waiters = <<>> /\ waiters' = <<>>
          /\ submitted' # {}
      BY <2>3, <2>7 DEF ArriveFree
    <3>2. InService = <<>> /\ InService' = Append(<<>>, c)
      BY <2>2, <2>3, <2>4, <3>1, HolderFirst
    <3>3. Phase' = Phase
      BY <3>1 DEF Phase
    <3> QED
      BY <3>2, <3>3 DEF Serial!Submit
  <2>8. ASSUME NEW c \in Calls, ArriveBusy(c) PROVE Serial!Submit(c)
    <3>1. /\ task' = [task EXCEPT ![c] = Waiting] /\ task[c] = Idle
          /\ waiters' = Append(waiters, c)
          /\ UNCHANGED <<locked, submitted, threads>>
      BY <2>8 DEF ArriveBusy
    <3>2. Phase' = Phase
      BY <3>1 DEF Phase
    <3>3. \A i \in 1..Len(waiters) : waiters[i] # c
      BY <3>1 DEF IInv, QueueIsWaiting, Contains, Idle, Waiting
    <3>4. CASE locked
      <4>1. PICK h \in Calls : task[h] = Running
        BY <3>4 DEF IInv, LockGuardsLive, Holders
      <4>2. h # c /\ task'[h] = Running
        BY <2>3, <3>1, <4>1 DEF Idle, Running
      <4>3. InService = <<h>> \o waiters
            /\ InService' = <<h>> \o Append(waiters, c)
        BY <2>1, <2>2, <3>1, <4>1, <4>2
      <4>4. InService' = Append(InService, c)
        BY <2>3, <4>3, HolderFirst
      <4>5. \A i \in 1..Len(InService) : InService[i] # c
        BY <2>3, <3>3, <4>2, <4>3, HolderFirst
      <4> QED
        BY <3>2, <4>4, <4>5 DEF Serial!Submit
    <3>5. CASE ~locked
      BY <2>4, <2>5, <3>1, <3>2, <3>3, <3>5 DEF Serial!Submit
    <3> QED
      BY <3>4, <3>5
  <2>9. ASSUME NEW c \in Calls, Start(c) PROVE Serial!Begin
    <3>1. task[c] = Running /\ UNCHANGED <<task, locked, waiters>>
          /\ submitted' = submitted \ {c} /\ threads' = threads \cup {c}
          /\ c \in submitted
      BY <2>9 DEF Start, IInv, LockGuardsLive, Holders
    <3>2. locked /\ locked' /\ InService' = InService /\ InService # <<>>
      <4>1. locked /\ InService = <<c>> \o waiters
        BY <2>1, <3>1
      <4>2. locked' /\ InService' = <<c>> \o waiters
        BY <2>2, <3>1
      <4>3. <<c>> \o waiters # <<>>
        BY <2>3, HolderFirst
      <4> QED
        BY <4>1, <4>2, <4>3
    <3>3. submitted' = {}
      BY <2>1, <3>1
    <3>4. Phase = "ready" /\ Phase' = "executing"
      BY <3>1, <3>2, <3>3 DEF Phase
    <3> QED
      BY <3>2, <3>4 DEF Serial!Begin
  <2>10. ASSUME NEW c \in Calls, Finish(c) PROVE Serial!End
    <3>1. task[c] = Running
      BY <2>10 DEF Finish, IInv, LockGuardsLive, JobsInv, Holders
    <3>2. UNCHANGED <<task, locked, waiters, submitted>>
          /\ threads' = threads \ {c} /\ c \in threads
      BY <2>10, <3>1 DEF Finish, Running, Cancelled
    <3>3. locked /\ submitted = {} /\ threads' = {} /\ InService' = InService
      <4>1. /\ locked /\ InService = <<c>> \o waiters
            /\ submitted \cup threads \subseteq {c}
        BY <2>1, <3>1
      <4>2. InService' = <<c>> \o waiters
        BY <2>2, <3>1, <3>2
      <4>3. submitted \cap threads = {}
        BY DEF IInv, JobsInv
      <4>4. submitted = {} /\ threads' = {}
        BY <3>2, <4>1, <4>3
      <4> QED
        BY <4>1, <4>2, <4>4
    <3>4. Phase = "executing" /\ Phase' = "executed"
      BY <3>2, <3>3 DEF Phase
    <3> QED
      BY <3>3, <3>4 DEF Serial!End
  <2>11. ASSUME NEW c \in Calls, Resume(c) PROVE Serial!Answer
    <3>1. /\ task[c] = Running /\ c \notin submitted \cup threads
          /\ locked' = FALSE /\ waiters' = waiters
      BY <2>11 DEF Resume
    <3>2. locked /\ InService = <<c>> \o waiters
          /\ submitted = {} /\ threads = {}
      BY <2>1, <3>1
    <3>3. Phase = "executed" /\ Phase' = "ready"
      BY <3>1, <3>2 DEF Phase
    <3>4. InService' = Tail(InService)
      BY <2>3, <2>5, <3>1, <3>2, HolderFirst
    <3> QED
      BY <3>3, <3>4 DEF Serial!Answer
  <2>12. ASSUME NEW c \in Calls, Cancel(c) PROVE FALSE
    BY <2>12 DEF Cancel, CancelWaiting, CancelRunning
  <2>13. CASE UNCHANGED vars
    BY <2>13 DEF vars, Serial!vars, InService, Phase
  <2> QED
    BY <2>6, <2>7, <2>8, <2>9, <2>10, <2>11, <2>12, <2>13
    DEF Next, Arrive, Serial!Next
<1> QED
  BY <1>1, <1>2, Inductive, PTL DEF Spec, Serial!Spec
=============================================================================
