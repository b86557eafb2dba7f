----------------------------- MODULE GoPipeline -----------------------------
(***************************************************************************)
(* The Go audio pipeline: Process() of processor.go, run by the workers of *)
(* GoQueue while the handlers of GoUpload serve requests, with database    *)
(* errors, the shutdown and the death of the process.                      *)
(***************************************************************************)
EXTENDS GoUpload

CONSTANTS
    HasGroq,    \* GROQ_API_KEY is set
    HasClaude   \* ANTHROPIC_API_KEY is set

ASSUME GoKeysAssumption ==
    /\ HasGroq \in BOOLEAN
    /\ HasClaude \in BOOLEAN

VARIABLES
    src,      \* wavPath of each run: the slot whose file it names ..
    useCopy,  \* .. or, when TRUE, whose converted copy
    heard     \* the recording whose transcript the run has in hand

runVars == <<src, useCopy, heard>>

vars == <<storeVars, goQueueVars, requestVars, runVars>>

GoRunTypeOK ==
    /\ src     \in [Workers -> Slots \cup {None}]
    /\ useCopy \in [Workers -> BOOLEAN]
    /\ heard   \in [Workers -> Uploads \cup {None}]
    /\ \A w \in Workers :
        /\ pc[w] \notin {"idle", "gone", "load"} =>
              src[w] # None /\ jobStatus[held[w]] # "ABSENT"
        /\ pc[w] = "save" => useCopy[w]
        /\ useCopy[w] => src[w] # None /\ wavCopy[src[w]] # None
        /\ pc[w] \in {"scribe", "extracting", "extract"} => heard[w] # None

TypeOK ==
    /\ StoreTypeOK
    /\ GoQueueTypeOK
    /\ GoRequestTypeOK
    /\ GoRunTypeOK

Init ==
    /\ StoreInit
    /\ GoQueueInit
    /\ GoRequestInit
    /\ src     = [w \in Workers |-> None]
    /\ useCopy = [w \in Workers |-> FALSE]
    /\ heard   = [w \in Workers |-> None]

-----------------------------------------------------------------------------
(* Process(job), statement by statement.                                   *)

\* Exec of a statement on the rows of the response a worker works for.
Exec(w, statement) ==
    /\ Done(statement) \/ Skip(held[w])
    /\ UNCHANGED <<fileVars, slotPc, slotFor, upPc, upFor, upSlot, runVars>>

ClearRun(w) ==
    /\ src' = [src EXCEPT ![w] = None]
    /\ useCopy' = [useCopy EXCEPT ![w] = FALSE]
    /\ heard' = [heard EXCEPT ![w] = None]

Load(w) ==
    /\ pc[w] = "load"
    /\ jobStatus[held[w]] # "ABSENT"
    /\ src' = [src EXCEPT ![w] = wavPath[held[w]]]
    /\ useCopy' = [useCopy EXCEPT ![w] = isWav[held[w]]]
    /\ Advance(w, "passed")
    /\ UNCHANGED <<storeVars, requestVars, heard>>

\* Mutant: Process() returns nil when the row cannot be read.
LoadFailsQuietly(w) ==
    /\ pc[w] = "load"
    /\ \/ DbFault
       \/ jobStatus[held[w]] = "ABSENT" /\ UNCHANGED faults
    /\ Release(w)
    /\ UNCHANGED <<storeVars, isWav, slotPc, slotFor, upPc, upFor, upSlot,
                   skipped, newest, runVars>>

\* Get fails, for want of a row or for a reason of the database: the only
\* error Process() returns.
LoadFails(w) ==
    /\ pc[w] = "load"
    /\ \/ DbFault
       \/ jobStatus[held[w]] = "ABSENT" /\ UNCHANGED faults
    /\ RunFails(w)
    /\ UNCHANGED <<storeVars, isWav, slotPc, slotFor, upPc, upFor, upSlot,
                   skipped, newest, runVars>>

MarkPassed(w) ==
    /\ pc[w] = "passed"
    /\ Exec(w, SetJobStatus(held[w], "QC_PASSED"))
    /\ Advance(w, "convert")

\* Groq is asked with a key; whether the file is there is found out later.
AfterConvert == IF HasGroq THEN "transcribing" ELSE "complete"

\* Mutant: ffmpeg's error is not looked at.
ConvertUnchecked(w) ==
    /\ pc[w] = "convert"
    /\ wavCopy' = [wavCopy EXCEPT ![src[w]] = IF useCopy[w] THEN @ ELSE file[src[w]]]
    /\ useCopy' = [useCopy EXCEPT ![w] = TRUE]
    /\ Advance(w, "save")
    /\ UNCHANGED <<tableVars, file, requestVars, src, heard>>

\* ffmpeg makes the copy the run goes on with.  It is not asked for a path
\* that ends in .wav, and when it fails the run goes on with the original.
Convert(w) ==
    /\ pc[w] = "convert"
    /\ \/ /\ ~useCopy[w]
          /\ file[src[w]] # None
          /\ wavCopy' = [wavCopy EXCEPT ![src[w]] = file[src[w]]]
          /\ useCopy' = [useCopy EXCEPT ![w] = TRUE]
          /\ Advance(w, "save")
       \/ /\ Advance(w, AfterConvert)
          /\ UNCHANGED <<wavCopy, useCopy>>
    /\ UNCHANGED <<tableVars, file, requestVars, src, heard>>

\* UPDATE audio_jobs SET wav_path = ..: the row is given the copy of the path
\* this run has read, whatever path the row has now.
SavePath(w) ==
    LET r == held[w] IN
    /\ pc[w] = "save"
    /\ \/ /\ SetJobPath(r, jobStatus[r], src[w])
          /\ isWav' = [isWav EXCEPT ![r] = TRUE]
          /\ UNCHANGED <<faults, skipped, newest>>
       \/ Skip(r)
    /\ Advance(w, AfterConvert)
    /\ UNCHANGED <<fileVars, slotPc, slotFor, upPc, upFor, upSlot, runVars>>

MarkTranscribing(w) ==
    /\ pc[w] = "transcribing"
    /\ Exec(w, SetJobStatus(held[w], "TRANSCRIBING"))
    /\ Advance(w, "listen")

\* The recording at a run's wavPath.
Recording(w) == IF useCopy[w] THEN wavCopy[src[w]] ELSE file[src[w]]

\* transcribeGroq() opens the file and gets a transcript, or returns an error
\* and the transcription is skipped.
Transcribe(w) ==
    /\ pc[w] = "listen"
    /\ \/ /\ Recording(w) # None
          /\ heard' = [heard EXCEPT ![w] = Recording(w)]
          /\ Advance(w, "scribe")
       \/ /\ Advance(w, "complete")
          /\ UNCHANGED heard
    /\ UNCHANGED <<storeVars, requestVars, src, useCopy>>

StoreTranscript(w) ==
    /\ pc[w] = "scribe"
    /\ Exec(w, SetTranscript(held[w], heard[w]))
    /\ Advance(w, IF HasClaude THEN "extracting" ELSE "complete")

MarkExtracting(w) ==
    /\ pc[w] = "extracting"
    /\ Exec(w, SetJobStatus(held[w], "EXTRACTING"))
    /\ Advance(w, "extract")

\* extractClaude() and the UPDATE of its result, or extraction is skipped.
Extract(w) ==
    /\ pc[w] = "extract"
    /\ \/ Exec(w, SetAnswer(held[w], heard[w]))
       \/ UNCHANGED <<storeVars, requestVars, runVars>>
    /\ Advance(w, "complete")

\* Mutant: Process() returns after COMPLETE.
MarkCompleteReturns(w) ==
    /\ pc[w] = "complete"
    /\ Exec(w, SetJobStatus(held[w], "COMPLETE"))
    /\ Release(w)

MarkComplete(w) ==
    /\ pc[w] = "complete"
    /\ Exec(w, SetJobStatus(held[w], "COMPLETE"))
    /\ Advance(w, "reset")

\* The last statement of Process(); the worker is free.
Finish(w) ==
    /\ pc[w] = "reset"
    /\ Done(ResubmitIfProcessing(held[w])) \/ Skip(held[w])
    /\ Release(w)
    /\ ClearRun(w)
    /\ UNCHANGED <<fileVars, slotPc, slotFor, upPc, upFor, upSlot>>

-----------------------------------------------------------------------------
(* The process ends, with every request and every run in it.               *)

\* At any moment: the process is killed, or a worker panics (on a transcript
\* without a text, on an answer that is not an object).
Killed ==
    /\ QueueDies({r \in Responses : Outstanding(r)})
    /\ slotPc' = [s \in Slots |-> IF slotPc[s] \in {"insert", "update"}
                                  THEN "failed" ELSE slotPc[s]]
    /\ upPc' = [u \in Uploads |-> IF upPc[u] \in {"mark", "enqueue"}
                                  THEN "failed" ELSE upPc[u]]
    /\ src' = [w \in Workers |-> None]
    /\ useCopy' = [w \in Workers |-> FALSE]
    /\ heard' = [w \in Workers |-> None]
    /\ UNCHANGED <<storeVars, isWav, slotFor, upFor, upSlot, faults, skipped,
                   newest>>

\* The query of Start() fails: it logs so and returns, and nothing is recovered.
RestartBlind ==
    /\ StartWith({})
    /\ DbFault
    /\ UNCHANGED <<storeVars, isWav, slotPc, slotFor, upPc, upFor, upSlot, skipped,
                   newest, runVars>>

\* Stop() has waited for the last worker and main() returns.
Exit == (\A w \in Workers : pc[w] = "gone") /\ Killed

-----------------------------------------------------------------------------

Run(w) ==
    \/ Load(w)             \/ LoadFails(w)  \/ MarkPassed(w)      \/ Convert(w)
    \/ SavePath(w)         \/ Transcribe(w) \/ MarkTranscribing(w)
    \/ StoreTranscript(w)  \/ Extract(w)    \/ MarkExtracting(w)
    \/ MarkComplete(w)     \/ Finish(w)

Work(w) ==
    \/ Run(w)
    \/ Get(w) /\ UNCHANGED <<storeVars, requestVars, runVars>>

WakeUp(job) == Wake(job) /\ UNCHANGED <<storeVars, requestVars, runVars>>

Handle ==
    \/ \E s \in Slots : \/ \E r \in Responses : SlotLookup(s, r)
                        \/ SlotStore(s)
    \/ \E u \in Uploads : \/ \E s \in Slots : UploadWrite(u, s)
                          \/ UploadMark(u) \/ UploadEnqueue(u)
    \/ \E r \in Responses, v \in Verdicts : Review(r, v)

Life ==
    \/ Restart
    \/ \E r \in Responses : Recover(r)
    \/ Serve
    \/ Shutdown
    \/ \E w \in Workers : Leave(w)

Next ==
    \/ \E w \in Workers : Work(w)
    \/ \E job \in Retries : WakeUp(job)
    \/ Handle /\ UNCHANGED runVars
    \/ Life /\ UNCHANGED <<storeVars, requestVars, runVars>>
    \/ RestartBlind
    \/ Killed

Spec == Init /\ [][Next]_vars

\* Goroutines that can run do run, calls answer or fail, sleeps end.  A worker
\* of a process that is stopping may leave instead of taking the next job;
\* when all have left the process ends.
Fairness ==
    /\ \A w \in Workers : WF_vars(Work(w))
    /\ \A job \in Retries : WF_vars(WakeUp(job))
    /\ \A u \in Uploads : WF_vars(UploadEnqueue(u) /\ UNCHANGED runVars)
    /\ WF_vars(Exit)

FairSpec == Spec /\ Fairness

-----------------------------------------------------------------------------
(* Safety.                                                                 *)

\* A row between QC_PENDING and COMPLETE has its job in the channel, with a
\* sleeping goroutine, about to be enqueued or with a worker that has yet to
\* write COMPLETE, unless the job is lost (dropped, given up, dead with the
\* process) or a statement on the response was skipped.
MidJobHasWork ==
    \A r \in Responses : Mid(r) =>
        \/ r \in lost \cup skipped
        \/ Queued(r) \/ Sleeping(r) \/ HandingOver(r)
        \/ \E w \in Workers : held[w] = r /\ pc[w] # "reset"

\* While a response is PROCESSING some job that will take this away again
\* exists, with the same exceptions.
ProcessingHasWork ==
    \A r \in Responses : respStatus[r] = "PROCESSING" =>
        r \in lost \cup skipped \/ Queued(r) \/ Sleeping(r) \/ Held(r)

\* A verdict given when no job for the response existed, sleeping ones
\* included, stands until a new job is queued.
SettledVerdictStands ==
    \A r \in settled : respStatus[r] \in Verdicts

\* A job is run three times at most, through all its sleeps and returns to the
\* channel: what the queue of FastAPI, made to mirror this one, does not do.
AtMostThreeRuns ==
    \A r \in Responses : runs[r] <= 3 * jobs[r]

\* The recording the row of r leads to.
Kept(r) == IF isWav[r] THEN wavCopy[wavPath[r]] ELSE file[wavPath[r]]

\* A response with one slot and one upload: once no job for it is outstanding
\* and none was lost and no statement skipped, its job is COMPLETE and the row
\* leads to the recording -- also when a restart had run the pipeline over the
\* empty path and both runs then wrote the path of their copy.
AcceptedTakeKept ==
    \A r \in Responses, s \in Slots, u \in Uploads :
        /\ {t \in Slots : slotFor[t] = r} = {s}
        /\ {v \in Uploads : upFor[v] = r} = {u}
        /\ upPc[u] = "done"
        /\ r \notin lost \cup skipped
        /\ ~Outstanding(r)
        => jobStatus[r] = "COMPLETE" /\ Kept(r) = u

\* "Update AudioJob with final path": the path an upload puts into the row is
\* final.  When each slot of a response has had its one upload and no job is
\* outstanding, the row leads to the recording whose path was put there last.
FinalPathStays ==
    \A r \in Responses :
        /\ newest[r] # None
        /\ \A s \in Slots : slotFor[s] = r =>
              \E u \in Uploads : /\ upPc[u] = "done"
                                 /\ {v \in Uploads : upSlot[v] = s} = {u}
        /\ r \notin lost \cup skipped
        /\ ~Outstanding(r)
        => Kept(r) = newest[r]

-----------------------------------------------------------------------------
(* Refinement and liveness.                                                *)

WQ == INSTANCE WorkQueue WITH
        Items <- Responses, Workers <- Workers, Capacity <- QueueCap,
        Nobody <- None,
        line <- [i \in DOMAIN ch |-> ch[i].resp],
        running <- held

\* The channel with its workers is the same work queue as FastAPI's, with a
\* retry that comes back as a new item instead of from the worker.
ImplementsWorkQueue == WQ!Spec

\* A recording whose upload was announced is worked off, whether the process
\* stays up, is stopped or is killed, unless its job is lost or a statement
\* was skipped.
MidJobEnds ==
    \A r \in Responses : Mid(r) ~> (~Mid(r) \/ r \in lost \cup skipped)
=============================================================================
