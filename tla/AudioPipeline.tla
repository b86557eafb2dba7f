--------------------------- MODULE AudioPipeline ---------------------------
(***************************************************************************)
(* The FastAPI audio pipeline: process() of processor.py, run by the       *)
(* workers of job_queue.py while the handlers of AudioUpload serve         *)
(* requests, with database errors and crashes of the process.              *)
(*                                                                         *)
(* A worker's pc names the statement process() executes next.              *)
(***************************************************************************)
EXTENDS AudioUpload

CONSTANTS
    HasGroq,     \* GROQ_API_KEY is set
    HasClaude    \* ANTHROPIC_API_KEY is set

ASSUME KeysAssumption ==
    /\ HasGroq \in BOOLEAN
    /\ HasClaude \in BOOLEAN

VARIABLES
    src,     \* original_path of each run
    useCopy, \* transcribe_path is the converted copy
    heard    \* the recording whose transcript the run has in hand

runVars == <<src, useCopy, heard>>

vars == <<storeVars, queueVars, requestVars, runVars>>

\* Where process() is given a file at its path, and where it has a transcript.
GatePassed == {"transcribing", "listen"}
HasText    == {"scribe", "extracting", "extract"}
Loaded     == GatePassed \cup HasText
                \cup {"passed", "convert", "playback", "complete", "reset"}

Exists(path) == path # None /\ file[path] # None

RunTypeOK ==
    /\ src \in [Workers -> Slots \cup {None}]
    /\ useCopy \in [Workers -> BOOLEAN]
    /\ heard \in [Workers -> Uploads \cup {None}]
    /\ \A w \in Workers :
        /\ pc[w] \in Loaded => /\ src[w] \in Slots
                               /\ jobStatus[held[w]] # "ABSENT"
        /\ pc[w] \in GatePassed => Exists(src[w])
        /\ pc[w] \in GatePassed /\ useCopy[w] => wavCopy[src[w]] # None
        /\ pc[w] \in HasText => heard[w] # None

TypeOK ==
    /\ StoreTypeOK
    /\ QueueTypeOK
    /\ RequestTypeOK
    /\ RunTypeOK

Init ==
    /\ StoreInit
    /\ QueueInit
    /\ RequestInit
    /\ src = [w \in Workers |-> None]
    /\ useCopy = [w \in Workers |-> FALSE]
    /\ heard = [w \in Workers |-> None]

-----------------------------------------------------------------------------
(* process(job), one await after the other.                                *)

\* SELECT id, wav_path; without a row process() raises.
Load(w) ==
    /\ pc[w] = "load"
    /\ \/ /\ jobStatus[held[w]] # "ABSENT"
          /\ src' = [src EXCEPT ![w] = wavPath[held[w]]]
          /\ Advance(w, "passed")
       \/ /\ jobStatus[held[w]] = "ABSENT"
          /\ RunFails(w)
          /\ UNCHANGED src
    /\ UNCHANGED <<storeVars, requestVars, useCopy, heard>>

MarkPassed(w) ==
    /\ pc[w] = "passed"
    /\ SetJobStatus(held[w], "QC_PASSED")
    /\ Advance(w, "convert")
    /\ UNCHANGED <<fileVars, requestVars, runVars>>

\* Mutant: the gate looks at the key alone.
AfterConvertUnchecked(w) == IF HasGroq THEN "transcribing" ELSE "playback"

\* Where process() goes once transcribe_path is known: Groq is asked only
\* with a key and with a file at that path.
AfterConvert(w) == IF HasGroq /\ Exists(src[w]) THEN "transcribing" ELSE "playback"

\* ffmpeg leaves a copy beside the original, or it fails (or the recording is
\* a .wav) and the original is used.
Convert(w) ==
    /\ pc[w] = "convert"
    /\ \/ /\ Exists(src[w])
          /\ wavCopy' = [wavCopy EXCEPT ![src[w]] = file[src[w]]]
          /\ useCopy' = [useCopy EXCEPT ![w] = TRUE]
       \/ /\ useCopy' = [useCopy EXCEPT ![w] = FALSE]
          /\ UNCHANGED wavCopy
    /\ Advance(w, AfterConvert(w))
    /\ UNCHANGED <<tableVars, file, requestVars, src, heard>>

MarkTranscribing(w) ==
    /\ pc[w] = "transcribing"
    /\ SetJobStatus(held[w], "TRANSCRIBING")
    /\ Advance(w, "listen")
    /\ UNCHANGED <<fileVars, requestVars, runVars>>

\* _transcribe_groq() reads the file and gets a transcript, or raises and the
\* transcription is skipped.
Transcribe(w) ==
    /\ pc[w] = "listen"
    /\ \/ /\ heard' = [heard EXCEPT ![w] = IF useCopy[w] THEN wavCopy[src[w]]
                                                         ELSE file[src[w]]]
          /\ Advance(w, "scribe")
       \/ /\ Advance(w, "playback")
          /\ UNCHANGED heard
    /\ UNCHANGED <<storeVars, requestVars, src, useCopy>>

StoreTranscript(w) ==
    /\ pc[w] = "scribe"
    /\ SetTranscript(held[w], heard[w])
    /\ Advance(w, IF HasClaude THEN "extracting" ELSE "playback")
    /\ UNCHANGED <<fileVars, requestVars, runVars>>

MarkExtracting(w) ==
    /\ pc[w] = "extracting"
    /\ SetJobStatus(held[w], "EXTRACTING")
    /\ Advance(w, "extract")
    /\ UNCHANGED <<fileVars, requestVars, runVars>>

\* _extract_claude() and the UPDATE of its result, or extraction is skipped.
Extract(w) ==
    /\ pc[w] = "extract"
    /\ SetAnswer(held[w], heard[w]) \/ UNCHANGED tableVars
    /\ Advance(w, "playback")
    /\ UNCHANGED <<fileVars, requestVars, runVars>>

\* The try blocks swallow a database error: the rest of the block is skipped.
SkipOnFault(w) ==
    /\ pc[w] \in {"scribe", "extracting"}
    /\ DbFault
    /\ Advance(w, "playback")
    /\ UNCHANGED <<storeVars, slotPc, slotFor, upPc, upFor, upPath, runVars>>

\* The playback URL is that of the original recording, when it is there.
StoreUrl(w) ==
    /\ pc[w] = "playback"
    /\ \/ Exists(src[w]) /\ SetAudioUrl(held[w], src[w])
       \/ ~Exists(src[w]) /\ UNCHANGED tableVars
    /\ Advance(w, "complete")
    /\ UNCHANGED <<fileVars, requestVars, runVars>>

\* Mutant: process() returns after COMPLETE.
MarkCompleteReturns(w) ==
    /\ pc[w] = "complete"
    /\ SetJobStatus(held[w], "COMPLETE")
    /\ Release(w)
    /\ UNCHANGED <<fileVars, requestVars, runVars>>

MarkComplete(w) ==
    /\ pc[w] = "complete"
    /\ SetJobStatus(held[w], "COMPLETE")
    /\ Advance(w, "reset")
    /\ UNCHANGED <<fileVars, requestVars, runVars>>

\* A run that ends leaves no local of process() behind.
ClearRun(w) ==
    /\ src' = [src EXCEPT ![w] = None]
    /\ useCopy' = [useCopy EXCEPT ![w] = FALSE]
    /\ heard' = [heard EXCEPT ![w] = None]

\* Mutant: the last statement runs only while the job still says COMPLETE.
FinishIfComplete(w) ==
    /\ pc[w] = "reset"
    /\ IF jobStatus[held[w]] = "COMPLETE" THEN ResubmitIfProcessing(held[w])
                                         ELSE UNCHANGED tableVars
    /\ Release(w)
    /\ ClearRun(w)
    /\ UNCHANGED <<fileVars, requestVars>>

\* The last statement of process(); _run() returns to the worker's loop.
Finish(w) ==
    /\ pc[w] = "reset"
    /\ ResubmitIfProcessing(held[w])
    /\ Release(w)
    /\ ClearRun(w)
    /\ UNCHANGED <<fileVars, requestVars>>

\* Outside the try blocks a database error ends the run.
RunRaises(w) ==
    /\ pc[w] \in {"load", "passed", "convert", "transcribing", "playback",
                  "complete", "reset"}
    /\ DbFault
    /\ RunFails(w)
    /\ ClearRun(w)
    /\ UNCHANGED <<storeVars, slotPc, slotFor, upPc, upFor, upPath>>

-----------------------------------------------------------------------------
(* The process dies, with every request and every run in it.               *)

Crash ==
    /\ QueueDies({r \in Responses : Outstanding(r)})
    /\ slotPc' = [s \in Slots |-> IF slotPc[s] \in {"insert", "update"}
                                  THEN "failed" ELSE slotPc[s]]
    /\ upPc' = [u \in Uploads |-> IF upPc[u] \in {"write", "mark", "enqueue"}
                                  THEN "failed" ELSE upPc[u]]
    /\ src' = [w \in Workers |-> None]
    /\ useCopy' = [w \in Workers |-> FALSE]
    /\ heard' = [w \in Workers |-> None]
    /\ UNCHANGED <<slotFor, upFor, upPath, faults, storeVars>>

-----------------------------------------------------------------------------

Run(w) ==
    \/ Load(w)             \/ MarkPassed(w)      \/ Convert(w)
    \/ MarkTranscribing(w) \/ Transcribe(w)      \/ StoreTranscript(w)
    \/ MarkExtracting(w)   \/ Extract(w)         \/ SkipOnFault(w)
    \/ StoreUrl(w)         \/ MarkComplete(w)    \/ Finish(w)
    \/ RunRaises(w)

Work(w) ==
    \/ Run(w)
    \/ (Get(w) \/ Retry(w)) /\ UNCHANGED <<storeVars, requestVars, runVars>>

Handle ==
    \/ \E s \in Slots : \/ \E r \in Responses : SlotLookup(s, r)
                        \/ SlotStore(s) \/ SlotFails(s)
    \/ \E u \in Uploads : \/ \E r \in Responses : UploadLookup(u, r)
                          \/ UploadWrite(u) \/ UploadMark(u)
                          \/ UploadEnqueue(u) \/ UploadFails(u)
    \/ \E r \in Responses, v \in Verdicts : Review(r, v)

Boot ==
    \/ Restart
    \/ \E r \in Responses : Recover(r)
    \/ Started

Next ==
    \/ \E w \in Workers : Work(w)
    \/ Handle /\ UNCHANGED runVars
    \/ Boot /\ UNCHANGED <<requestVars, runVars>>
    \/ Crash

Spec == Init /\ [][Next]_vars

\* The event loop runs every coroutine that is ready, and the calls a worker
\* waits for answer or time out; so a worker keeps stepping, and a handler
\* that has announced a recording goes on to enqueue it.
Fairness ==
    /\ \A w \in Workers : WF_vars(Work(w))
    /\ \A u \in Uploads : WF_vars(UploadEnqueue(u) /\ UNCHANGED runVars)

FairSpec == Spec /\ Fairness

-----------------------------------------------------------------------------
(* Safety.                                                                 *)

\* An audio_jobs row between QC_PENDING and COMPLETE is never forgotten while
\* the process lives: its job is in the queue, about to be enqueued by the
\* upload handler, or with a worker that has yet to write COMPLETE (sleeping
\* before a retry included) -- unless the job was dropped at a full queue or
\* died with the process, the two ways the code has of losing one.
MidJobHasWork ==
    \A r \in Responses : Mid(r) =>
        \/ r \in lost
        \/ Queued(r)
        \/ HandingOver(r)
        \/ \E w \in Workers : HeldBy(w, r) /\ pc[w] # "reset"

\* PROCESSING is a passing status of a response: while a response has it,
\* some job that will take it away again exists, whatever runs overlap and
\* whichever statements fail -- with the same two exceptions.
ProcessingHasWork ==
    \A r \in Responses : respStatus[r] = "PROCESSING" =>
        r \in lost \/ Queued(r) \/ Held(r)

\* A verdict given when no job for the response existed stands until a new
\* job is queued: neither a late statement of an earlier run or of a retry nor
\* a slot or an upload that has not got to its enqueue() replaces APPROVED or
\* REJECTED.  (The run of that new job may: see the README.)
SettledVerdictStands ==
    \A r \in settled : respStatus[r] \in Verdicts

\* Runs of different responses never mix: what is stored as the transcript,
\* the extracted answer or the playback URL of a response comes from a
\* recording that was uploaded for that response.
NothingMixedUp ==
    \A r \in Responses :
        /\ transcript[r] # None => upFor[transcript[r]] = r
        /\ answer[r] # None => upFor[answer[r]] = r
        /\ audioUrl[r] # None => upFor[file[audioUrl[r]]] = r

\* The collect page asks for one slot and makes one upload per response.
OneTake(r, s, u) ==
    /\ {t \in Slots : slotFor[t] = r} = {s}
    /\ {v \in Uploads : upFor[v] = r} = {u}

\* What a 201 for an upload means to such a client: once no job for the
\* response is outstanding and none was lost, the job is COMPLETE and the
\* playback URL leads to the uploaded recording, even when a restart had run
\* the pipeline over the empty slot and failed runs were repeated.
AcceptedUploadPlayable ==
    \A r \in Responses, s \in Slots, u \in Uploads :
        /\ OneTake(r, s, u)
        /\ upPc[u] = "done"
        /\ r \notin lost
        /\ ~Outstanding(r)
        => /\ jobStatus[r] = "COMPLETE"
           /\ audioUrl[r] = s
           /\ file[s] = u

-----------------------------------------------------------------------------
(* Refinement.                                                             *)

WQ == INSTANCE WorkQueue WITH
        Items <- Responses, Workers <- Workers, Capacity <- QueueCap,
        Nobody <- None,
        line <- [i \in DOMAIN queue |-> queue[i].resp],
        running <- held

\* The queue with its retries, its recovery and the pipeline on top of it is
\* a work queue: jobs are taken in order, each by one worker, and none leaves
\* the line or a worker in any way but those WorkQueue has.
ImplementsWorkQueue == WQ!Spec

-----------------------------------------------------------------------------
(* Liveness.                                                               *)

\* A recording whose upload was announced is worked off: its row leaves the
\* statuses before COMPLETE, unless the job is lost.
MidJobEnds == \A r \in Responses : Mid(r) ~> (~Mid(r) \/ r \in lost)

\* A response does not stay PROCESSING, unless its job is lost.
ProcessingEnds ==
    \A r \in Responses : respStatus[r] = "PROCESSING" ~>
                              (respStatus[r] # "PROCESSING" \/ r \in lost)
=============================================================================
