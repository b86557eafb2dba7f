------------------------------ MODULE GoDrops ------------------------------
(***************************************************************************)
(* GoPipeline with a record of the uploads whose job found the channel     *)
(* full, to look at what Start() does for them.                            *)
(***************************************************************************)
EXTENDS GoPipeline

VARIABLE dropped   \* history: responses with no job but one an upload found
                   \* no room for, until one is queued

\* This step is the Enqueue() of an upload for r that finds no room.
TurnedAway(r) ==
    /\ UNCHANGED jobs
    /\ \E u \in Uploads : upFor[u] = r /\ upPc[u] = "enqueue" /\ upPc'[u] = "done"

DroppedNext ==
    dropped' = {r \in Responses :
                  /\ jobs'[r] = jobs[r]
                  /\ \/ r \in dropped
                     \/ TurnedAway(r) /\ ~(Queued(r) \/ Held(r) \/ Sleeping(r))}

DropSpec == Init /\ dropped = {} /\ [][Next /\ DroppedNext]_<<vars, dropped>>

\* "queue full -- job dropped, will retry on next startup": when the process
\* has come up again and serves requests, every response whose only job found
\* the channel full has had one queued.
RetriedOnNextStartup ==
    [][server = "starting" /\ server' = "up" => dropped = {}]_<<vars, dropped>>
=============================================================================
