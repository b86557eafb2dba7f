----------------------------- MODULE WorkQueue -----------------------------
(***************************************************************************)
(* What the two job queues of Voxform promise to the rest of the backend,  *)
(* without retries, rows or requests: a bounded first-in first-out line of *)
(* items, each taken by exactly one worker, where an item leaves the line  *)
(* only with a worker or in the death of the process, and a worker lets go *)
(* of an item only by ending its run.  The job queue has no state outside  *)
(* the process, so a death empties it.                                     *)
(*                                                                         *)
(* JobQueue (FastAPI) and GoQueue (Go) are two ways to implement this.     *)
(***************************************************************************)
EXTENDS Naturals, Sequences

CONSTANTS Items, Workers, Capacity, Nobody

VARIABLES
    line,      \* items waiting, oldest first
    running    \* the item each worker runs

wqVars == <<line, running>>

Init ==
    /\ line = <<>>
    /\ running = [w \in Workers |-> Nobody]

\* A full queue refuses an item; that is no step here.
Accept(i) ==
    /\ Len(line) < Capacity
    /\ line' = Append(line, i)
    /\ UNCHANGED running

Take(w) ==
    /\ running[w] = Nobody
    /\ line # <<>>
    /\ running' = [running EXCEPT ![w] = Head(line)]
    /\ line' = Tail(line)

\* The run ended: with success, or for good.
Done(w) ==
    /\ running[w] # Nobody
    /\ running' = [running EXCEPT ![w] = Nobody]
    /\ UNCHANGED line

\* The run failed and the worker itself puts the item at the end of the line.
GiveBack(w) ==
    /\ running[w] # Nobody
    /\ Len(line) < Capacity
    /\ running' = [running EXCEPT ![w] = Nobody]
    /\ line' = Append(line, running[w])

Die ==
    /\ line' = <<>>
    /\ running' = [w \in Workers |-> Nobody]

Next ==
    \/ \E i \in Items : Accept(i)
    \/ \E w \in Workers : Take(w) \/ Done(w) \/ GiveBack(w)
    \/ Die

Spec == Init /\ [][Next]_wqVars
=============================================================================
