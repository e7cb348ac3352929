--------------------------- MODULE SerialService ---------------------------
(***************************************************************************)
(* What server.py's _run promises the tools: each call's work is executed  *)
(* alone on the camera, once, in the order the calls came in, and its      *)
(* answer is given before the next call's work begins.                     *)
(***************************************************************************)
EXTENDS Sequences, Naturals

CONSTANT Calls

VARIABLES
    queue,  \* the calls not answered yet, in the order they came in
    phase   \* how far the first of them is: ready, executing, executed

vars == <<queue, phase>>

TypeOK ==
    /\ queue \in Seq(Calls)
    /\ phase \in {"ready", "executing", "executed"}

Init == queue = <<>> /\ phase = "ready"

Submit(c) ==
    /\ \A i \in 1..Len(queue) : queue[i] # c
    /\ queue' = Append(queue, c)
    /\ UNCHANGED phase

Begin ==
    /\ queue # <<>> /\ phase = "ready"
    /\ phase' = "executing"
    /\ UNCHANGED queue

End ==
    /\ phase = "executing"
    /\ phase' = "executed"
    /\ UNCHANGED queue

Answer ==
    /\ phase = "executed"
    /\ queue' = Tail(queue)
    /\ phase' = "ready"

Next == Begin \/ End \/ Answer \/ \E c \in Calls : Submit(c)

Spec == Init /\ [][Next]_vars
FairSpec == Spec /\ WF_vars(Begin) /\ WF_vars(End) /\ WF_vars(Answer)
=============================================================================
