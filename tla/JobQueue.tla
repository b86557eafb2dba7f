------------------------------ MODULE JobQueue ------------------------------
(***************************************************************************)
(* job_queue.py: one bounded asyncio.Queue in the memory of the FastAPI    *)
(* process, the workers that take jobs from it, the retry of a failed run, *)
(* and the recovery start() makes when the process comes up again.         *)
(*                                                                         *)
(* put_nowait and the code around it run without an await, so handing a    *)
(* job over is one step; so is each stretch between two awaits.            *)
(***************************************************************************)
EXTENDS AudioTables

CONSTANTS
    Workers,     \* the worker tasks start() creates (3 in main.py)
    QueueCap,    \* maxsize of the asyncio.Queue (500 in job_queue.py)
    MaxCrashes   \* bound: how often the process may die

ASSUME QueueAssumption ==
    /\ Workers # {}
    /\ QueueCap \in Nat \ {0}
    /\ MaxCrashes \in Nat

VARIABLES
    queue,       \* the asyncio.Queue
    pc,          \* where each worker is in its run
    held,        \* the response a worker works for
    attempts,    \* the attempts field of the job a worker holds
    server,      \* "down", "starting" (inside start()) or "up"
    recovering,  \* rows start() has fetched and not yet enqueued
    crashes,     \* number of crashes so far
    lost,        \* history: responses whose job was dropped or died with the
                 \* process, until a job for them is queued again
    settled      \* history: responses whose verdict was given while no job
                 \* for them existed, until one is queued

queueVars == <<queue, pc, held, attempts, server, recovering, crashes, lost,
               settled>>

Job == [resp : Responses, attempts : Nat]

\* dataclass Job: a new job always starts with attempts = 0.
NewJob(r) == [resp |-> r, attempts |-> 0]

\* The statement a worker executes next: process() from top to bottom, then
\* the sleep of a failed run.
WorkerPc == {"idle", "load", "passed", "convert", "transcribing", "listen",
             "scribe", "extracting", "extract", "playback", "complete",
             "reset", "backoff"}

Queued(r) == \E i \in DOMAIN queue : queue[i].resp = r

HeldBy(w, r) == pc[w] # "idle" /\ held[w] = r

Held(r) == \E w \in Workers : HeldBy(w, r)

QueueTypeOK ==
    /\ queue \in Seq(Job)
    /\ Len(queue) <= QueueCap
    /\ pc \in [Workers -> WorkerPc]
    /\ held \in [Workers -> Responses \cup {None}]
    /\ \A w \in Workers : IF pc[w] = "idle" THEN held[w] = None
                                             ELSE held[w] \in Responses
    /\ attempts \in [Workers -> Nat]
    /\ server \in {"down", "starting", "up"}
    /\ recovering \subseteq Responses
    /\ crashes \in 0 .. MaxCrashes
    /\ lost \subseteq Responses
    /\ settled \subseteq Responses

-----------------------------------------------------------------------------

QueueInit ==
    /\ queue = <<>>
    /\ pc = [w \in Workers |-> "idle"]
    /\ held = [w \in Workers |-> None]
    /\ attempts = [w \in Workers |-> 0]
    /\ server = "up"
    /\ recovering = {}
    /\ crashes = 0
    /\ lost = {}
    /\ settled = {}

\* Mutant: a job is not queued twice, not even when the first one is at its end.
EnqueueOnce(r) ==
    \/ /\ ~Queued(r) /\ ~Held(r)
       /\ queue' = Append(queue, NewJob(r))
       /\ lost' = lost \ {r}
       /\ settled' = settled \ {r}
    \/ /\ Queued(r) \/ Held(r)
       /\ UNCHANGED <<queue, lost, settled>>

\* enqueue(): put_nowait, or a warning and nothing else when the queue is full.
Enqueue(r) ==
    \/ /\ Len(queue) < QueueCap
       /\ queue' = Append(queue, NewJob(r))
       /\ lost' = lost \ {r}
       /\ settled' = settled \ {r}
    \/ /\ Len(queue) >= QueueCap
       /\ lost' = lost \cup {r}
       /\ UNCHANGED <<queue, settled>>

\* Mutant: the newest job is taken first.
GetNewest(w) ==
    /\ server = "up"
    /\ pc[w] = "idle"
    /\ queue # <<>>
    /\ queue' = SubSeq(queue, 1, Len(queue) - 1)
    /\ held' = [held EXCEPT ![w] = queue[Len(queue)].resp]
    /\ attempts' = [attempts EXCEPT ![w] = queue[Len(queue)].attempts]
    /\ pc' = [pc EXCEPT ![w] = "load"]
    /\ UNCHANGED <<server, recovering, crashes, lost, settled>>

\* _worker(): job = await _queue.get()
Get(w) ==
    /\ server = "up"
    /\ pc[w] = "idle"
    /\ queue # <<>>
    /\ queue' = Tail(queue)
    /\ held' = [held EXCEPT ![w] = Head(queue).resp]
    /\ attempts' = [attempts EXCEPT ![w] = Head(queue).attempts]
    /\ pc' = [pc EXCEPT ![w] = "load"]
    /\ UNCHANGED <<server, recovering, crashes, lost, settled>>

\* The handler returned: _run() logs "job done" and the worker loops.
Release(w) ==
    /\ pc' = [pc EXCEPT ![w] = "idle"]
    /\ held' = [held EXCEPT ![w] = None]
    /\ UNCHANGED <<queue, attempts, server, recovering, crashes, lost, settled>>

Advance(w, to) ==
    /\ pc' = [pc EXCEPT ![w] = to]
    /\ UNCHANGED <<queue, held, attempts, server, recovering, crashes, lost,
                   settled>>

\* Mutant: a failed run is not repeated.
RunIsForgotten(w) ==
    /\ attempts' = [attempts EXCEPT ![w] = @ + 1]
    /\ pc' = [pc EXCEPT ![w] = "idle"]
    /\ held' = [held EXCEPT ![w] = None]
    /\ UNCHANGED <<queue, lost, server, recovering, crashes, settled>>

\* Mutant: the exception leaves the worker's loop and ends its task.
RunEndsWorker(w) ==
    /\ pc' = [pc EXCEPT ![w] = "ended"]
    /\ UNCHANGED <<queue, held, attempts, lost, server, recovering, crashes,
                   settled>>

\* The except branch of _run(): below three attempts the worker itself sleeps
\* before it queues the work again, otherwise the job is given up.  As every
\* Job starts at 0 attempts, the second branch is written but never reached.
RunFails(w) ==
    /\ attempts' = [attempts EXCEPT ![w] = @ + 1]
    /\ \/ /\ attempts[w] + 1 < 3
          /\ pc' = [pc EXCEPT ![w] = "backoff"]
          /\ UNCHANGED <<held, lost>>
       \/ /\ attempts[w] + 1 >= 3
          /\ pc' = [pc EXCEPT ![w] = "idle"]
          /\ held' = [held EXCEPT ![w] = None]
          /\ lost' = lost \cup {held[w]}
    /\ UNCHANGED <<queue, server, recovering, crashes, settled>>

\* The sleep is over: enqueue(job.type, job.payload) makes a new Job.
Retry(w) ==
    /\ pc[w] = "backoff"
    /\ Enqueue(held[w])
    /\ pc' = [pc EXCEPT ![w] = "idle"]
    /\ held' = [held EXCEPT ![w] = None]
    /\ UNCHANGED <<attempts, server, recovering, crashes>>

-----------------------------------------------------------------------------
(* The process dies and comes up again.                                    *)

\* Everything in memory is gone; orphans are the responses whose job was in
\* the queue, with a worker, or about to be enqueued by a handler.
QueueDies(orphans) ==
    /\ server # "down"
    /\ crashes < MaxCrashes
    /\ crashes' = crashes + 1
    /\ server' = "down"
    /\ queue' = <<>>
    /\ pc' = [w \in Workers |-> "idle"]
    /\ held' = [w \in Workers |-> None]
    /\ attempts' = [w \in Workers |-> 0]
    /\ recovering' = {}
    /\ lost' = lost \cup orphans
    /\ UNCHANGED settled

\* start(): fetch the rows a previous run left behind.
Restart ==
    /\ server = "down"
    /\ server' = "starting"
    /\ recovering' = {r \in Responses : jobStatus[r] \in RecoverableStatus}
    /\ UNCHANGED <<queue, pc, held, attempts, crashes, lost, settled, storeVars>>

\* start(): one turn of the loop over those rows.
Recover(r) ==
    /\ server = "starting"
    /\ r \in recovering
    /\ recovering' = recovering \ {r}
    /\ Enqueue(r)
    /\ UNCHANGED <<pc, held, attempts, server, crashes, storeVars>>

\* start() creates the workers and the lifespan handler lets requests in.
Started ==
    /\ server = "starting"
    /\ recovering = {}
    /\ server' = "up"
    /\ UNCHANGED <<queue, pc, held, attempts, recovering, crashes, lost,
                   settled, storeVars>>
=============================================================================
