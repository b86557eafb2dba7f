------------------------------ MODULE GoQueue ------------------------------
(***************************************************************************)
(* queue.go: a buffered channel of jobs, the worker goroutines that        *)
(* receive from it, a goroutine per failed run that sleeps and sends the   *)
(* job again, the recovery in Start(), and Stop().                         *)
(*                                                                         *)
(* Unlike the asyncio queue the workers run while Start() is still         *)
(* enqueueing, a failed run does not occupy its worker while it waits, and *)
(* a retried job keeps its count of attempts.                              *)
(***************************************************************************)
EXTENDS AudioTables

CONSTANTS
    Workers,    \* the worker goroutines New() starts (3 in main.go)
    QueueCap,   \* capacity of the channel (500 in queue.go)
    MaxStops    \* bound: how often the process may end

ASSUME GoQueueAssumption ==
    /\ Workers # {}
    /\ QueueCap \in Nat \ {0}
    /\ MaxStops \in Nat

VARIABLES
    ch,          \* the channel
    pc,          \* where each worker is in its run
    held,        \* the response a worker works for
    attempts,    \* Attempts of the job a worker holds
    sleeping,    \* how many retry goroutines sleep with each job
    server,      \* "down", "starting" (inside Start()), "up", "stopping"
    recovering,  \* rows Start() has yet to enqueue
    stops,       \* number of times the process has ended
    lost,        \* history: responses whose job was dropped, given up or died
                 \* with the process, until a job for them is queued again
    settled,     \* history: responses whose verdict was given while no job
                 \* for them existed, until one is queued
    jobs,        \* history: jobs accepted for each response
    runs         \* history: runs begun for each response

goQueueVars == <<ch, pc, held, attempts, sleeping, server, recovering, stops,
                 lost, settled, jobs, runs>>

Job == [resp : Responses, attempts : 0 .. 2]

\* A job that waits for its second or third run.
Retries == [resp : Responses, attempts : 1 .. 2]

WorkerPc == {"idle", "gone", "load", "passed", "convert", "save",
             "transcribing", "listen", "scribe", "extracting", "extract",
             "complete", "reset"}

Queued(r) == \E i \in DOMAIN ch : ch[i].resp = r

Sleeping(r) == \E j \in Retries : j.resp = r /\ sleeping[j] > 0

Held(r) == \E w \in Workers : held[w] = r

GoQueueTypeOK ==
    /\ ch \in Seq(Job)
    /\ Len(ch) <= QueueCap
    /\ pc \in [Workers -> WorkerPc]
    /\ held \in [Workers -> Responses \cup {None}]
    /\ \A w \in Workers : held[w] = None <=> pc[w] \in {"idle", "gone"}
    /\ attempts \in [Workers -> 0 .. 2]
    /\ sleeping \in [Retries -> Nat]
    /\ server \in {"down", "starting", "up", "stopping"}
    /\ \A w \in Workers : pc[w] = "gone" => server = "stopping"
    /\ recovering \subseteq Responses
    /\ stops \in 0 .. MaxStops
    /\ lost \subseteq Responses
    /\ settled \subseteq Responses
    /\ jobs \in [Responses -> Nat]
    /\ runs \in [Responses -> Nat]

GoQueueInit ==
    /\ ch = <<>>
    /\ pc = [w \in Workers |-> "idle"]
    /\ held = [w \in Workers |-> None]
    /\ attempts = [w \in Workers |-> 0]
    /\ sleeping = [j \in Retries |-> 0]
    /\ server = "up"
    /\ recovering = {}
    /\ stops = 0
    /\ lost = {}
    /\ settled = {}
    /\ jobs = [r \in Responses |-> 0]
    /\ runs = [r \in Responses |-> 0]

-----------------------------------------------------------------------------

\* Mutant: the send blocks nobody and checks nothing.
EnqueueUnbounded(r) ==
    /\ ch' = Append(ch, [resp |-> r, attempts |-> 0])
    /\ jobs' = [jobs EXCEPT ![r] = @ + 1]
    /\ lost' = lost \ {r}
    /\ settled' = settled \ {r}

\* Enqueue(): a send that does not block; a full channel drops the job.
Enqueue(r) ==
    \/ /\ Len(ch) < QueueCap
       /\ ch' = Append(ch, [resp |-> r, attempts |-> 0])
       /\ jobs' = [jobs EXCEPT ![r] = @ + 1]
       /\ lost' = lost \ {r}
       /\ settled' = settled \ {r}
    \/ /\ Len(ch) >= QueueCap
       /\ lost' = lost \cup {r}
       /\ UNCHANGED <<ch, jobs, settled>>

\* worker(): case job := <-q.ch.  A closed quit does not rule this case out.
Get(w) ==
    /\ server # "down"
    /\ pc[w] = "idle"
    /\ ch # <<>>
    /\ ch' = Tail(ch)
    /\ held' = [held EXCEPT ![w] = Head(ch).resp]
    /\ attempts' = [attempts EXCEPT ![w] = Head(ch).attempts]
    /\ pc' = [pc EXCEPT ![w] = "load"]
    /\ runs' = [runs EXCEPT ![Head(ch).resp] = @ + 1]
    /\ UNCHANGED <<sleeping, server, recovering, stops, lost, settled, jobs>>

\* worker(): case <-q.quit
Leave(w) ==
    /\ server = "stopping"
    /\ pc[w] = "idle"
    /\ pc' = [pc EXCEPT ![w] = "gone"]
    /\ UNCHANGED <<ch, held, attempts, sleeping, server, recovering, stops,
                   lost, settled, jobs, runs>>

Advance(w, to) ==
    /\ pc' = [pc EXCEPT ![w] = to]
    /\ UNCHANGED <<ch, held, attempts, sleeping, server, recovering, stops,
                   lost, settled, jobs, runs>>

\* The handler returned nil.
Release(w) ==
    /\ pc' = [pc EXCEPT ![w] = "idle"]
    /\ held' = [held EXCEPT ![w] = None]
    /\ UNCHANGED <<ch, attempts, sleeping, server, recovering, stops, lost,
                   settled, jobs, runs>>

\* Mutant: the goroutine sends the job with the count it came with.
RunFailsUncounted(w) ==
    LET job == [resp |-> held[w], attempts |-> IF attempts[w] = 0 THEN 1 ELSE attempts[w]] IN
    /\ sleeping' = [sleeping EXCEPT ![job] = @ + 1]
    /\ pc' = [pc EXCEPT ![w] = "idle"]
    /\ held' = [held EXCEPT ![w] = None]
    /\ UNCHANGED <<lost, ch, attempts, server, recovering, stops, settled, jobs, runs>>

\* run(), handler error: below three attempts a goroutine takes the job and
\* sleeps; the worker is free at once.
RunFails(w) ==
    LET job == [resp |-> held[w], attempts |-> attempts[w] + 1] IN
    /\ \/ /\ job.attempts < 3
          /\ sleeping' = [sleeping EXCEPT ![job] = @ + 1]
          /\ UNCHANGED lost
       \/ /\ job.attempts >= 3
          /\ lost' = lost \cup {held[w]}
          /\ UNCHANGED sleeping
    /\ pc' = [pc EXCEPT ![w] = "idle"]
    /\ held' = [held EXCEPT ![w] = None]
    /\ UNCHANGED <<ch, attempts, server, recovering, stops, settled, jobs, runs>>

\* Mutant: a repeated job goes to the front.
WakePrepends(job) ==
    /\ sleeping[job] > 0
    /\ sleeping' = [sleeping EXCEPT ![job] = @ - 1]
    /\ \/ /\ Len(ch) < QueueCap
          /\ ch' = <<job>> \o ch
          /\ UNCHANGED lost
       \/ /\ Len(ch) >= QueueCap
          /\ lost' = lost \cup {job.resp}
          /\ UNCHANGED ch
    /\ UNCHANGED <<pc, held, attempts, server, recovering, stops, settled, jobs,
                   runs>>

\* The goroutine's sleep is over: it sends, or drops the job when the channel
\* is full.
Wake(job) ==
    /\ sleeping[job] > 0
    /\ sleeping' = [sleeping EXCEPT ![job] = @ - 1]
    /\ \/ /\ Len(ch) < QueueCap
          /\ ch' = Append(ch, job)
          /\ UNCHANGED lost
       \/ /\ Len(ch) >= QueueCap
          /\ lost' = lost \cup {job.resp}
          /\ UNCHANGED ch
    /\ UNCHANGED <<pc, held, attempts, server, recovering, stops, settled, jobs,
                   runs>>

-----------------------------------------------------------------------------
(* The process ends and comes up again.                                    *)

\* SIGTERM: no new request is let in.  srv.Shutdown() waits for the handlers
\* that run, for ten seconds at most; then Stop() closes quit.
Shutdown ==
    /\ server = "up"
    /\ stops < MaxStops
    /\ server' = "stopping"
    /\ UNCHANGED <<ch, pc, held, attempts, sleeping, recovering, stops, lost,
                   settled, jobs, runs>>

\* The process ends: at the end of main(), once the last worker has left, or
\* at any moment because it is killed or a worker panics.  orphans are the
\* responses whose job was in the channel, with a worker or a sleeping
\* goroutine, or about to be enqueued.
QueueDies(orphans) ==
    /\ server # "down"
    /\ stops < MaxStops
    /\ stops' = stops + 1
    /\ server' = "down"
    /\ ch' = <<>>
    /\ pc' = [w \in Workers |-> "idle"]
    /\ held' = [w \in Workers |-> None]
    /\ attempts' = [w \in Workers |-> 0]
    /\ sleeping' = [j \in Retries |-> 0]
    /\ recovering' = {}
    /\ lost' = lost \cup orphans
    /\ UNCHANGED <<settled, jobs, runs>>

\* New() starts the workers, Start() has the rows it recovers.
StartWith(rows) ==
    /\ server = "down"
    /\ server' = "starting"
    /\ recovering' = rows
    /\ UNCHANGED <<ch, pc, held, attempts, sleeping, stops, lost, settled, jobs,
                   runs>>

\* Start() reads the rows a previous run left.
Restart == StartWith({r \in Responses : jobStatus[r] \in RecoverableStatus})

\* Start(): one turn of the loop.
Recover(r) ==
    /\ server = "starting"
    /\ r \in recovering
    /\ recovering' = recovering \ {r}
    /\ Enqueue(r)
    /\ UNCHANGED <<pc, held, attempts, sleeping, server, stops, runs>>

\* main() goes on to serve requests.
Serve ==
    /\ server = "starting"
    /\ recovering = {}
    /\ server' = "up"
    /\ UNCHANGED <<ch, pc, held, attempts, sleeping, recovering, stops, lost,
                   settled, jobs, runs>>
=============================================================================
