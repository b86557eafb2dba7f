---------------------------- MODULE AudioRetries ----------------------------
(***************************************************************************)
(* AudioPipeline with a count of the runs each response has had, to look   *)
(* at the retry of job_queue.py by itself.                                 *)
(***************************************************************************)
EXTENDS AudioPipeline

VARIABLE tries   \* history: runs started for each response

\* The worker that takes a job for r in this step.
Taken(r) == {w \in Workers : pc[w] = "idle" /\ pc'[w] = "load" /\ held'[w] = r}

CountingSpec ==
    /\ Init /\ tries = [r \in Responses |-> 0]
    /\ [][Next /\ tries' = [r \in Responses |->
                              tries[r] + Cardinality(Taken(r))]]_<<vars, tries>>

\* "Worker pool backed by asyncio.Queue with exponential-backoff retry (max 3
\* attempts)": while the process lives, the pipeline is run at most three
\* times for each accepted upload.
AtMostThreeAttempts ==
    \A r \in Responses :
        tries[r] <= 3 * Cardinality({u \in Uploads : upFor[u] = r /\ upPc[u] = "done"})
=============================================================================
