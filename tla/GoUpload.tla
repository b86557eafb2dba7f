------------------------------ MODULE GoUpload ------------------------------
(***************************************************************************)
(* The request handlers of the Go backend around a recording: upload slot  *)
(* and upload (handlers/audio.go, and the same two for anonymous           *)
(* respondents in handlers/public.go) and the verdict                      *)
(* (handlers/response.go).  Each request has a goroutine of its own.       *)
(*                                                                         *)
(* The result of Exec is ignored throughout: a statement that fails is     *)
(* skipped and the code goes on, and answers, as if it had been executed.  *)
(***************************************************************************)
EXTENDS GoQueue

CONSTANT MaxFaults   \* bound: how many database calls may fail

ASSUME GoFaultAssumption == MaxFaults \in Nat

VARIABLES
    isWav,    \* the row's wav_path is the converted copy's, which ends in .wav
    slotPc,   \* where each slot request is
    slotFor,  \* the responseId in its body
    upPc,     \* where each upload is
    upFor,    \* the responseId in its form
    upSlot,   \* the uploadId in its URL
    faults,   \* number of database calls that have failed
    skipped,  \* history: responses with a statement that was skipped
    newest    \* history: the upload whose path was put into the row last

requestVars == <<isWav, slotPc, slotFor, upPc, upFor, upSlot, faults, skipped,
                 newest>>

SlotPc == {"new", "insert", "update", "done", "failed"}
UpPc   == {"new", "mark", "enqueue", "done", "failed"}

GoRequestTypeOK ==
    /\ isWav   \in [Responses -> BOOLEAN]
    /\ slotPc  \in [Slots -> SlotPc]
    /\ slotFor \in [Slots -> Responses \cup {None}]
    /\ upPc    \in [Uploads -> UpPc]
    /\ upFor   \in [Uploads -> Responses \cup {None}]
    /\ upSlot  \in [Uploads -> Slots \cup {None}]
    /\ faults  \in 0 .. MaxFaults
    /\ skipped \subseteq Responses
    /\ newest  \in [Responses -> Uploads \cup {None}]
    /\ \A r \in Responses :
        isWav[r] => jobStatus[r] # "ABSENT" /\ wavCopy[wavPath[r]] # None
    /\ \A s \in Slots : slotPc[s] # "new" => slotFor[s] \in Responses
    /\ \A u \in Uploads :
        upPc[u] # "new" => upFor[u] \in Responses /\ upSlot[u] \in Slots

GoRequestInit ==
    /\ isWav   = [r \in Responses |-> FALSE]
    /\ slotPc  = [s \in Slots |-> "new"]
    /\ slotFor = [s \in Slots |-> None]
    /\ upPc    = [u \in Uploads |-> "new"]
    /\ upFor   = [u \in Uploads |-> None]
    /\ upSlot  = [u \in Uploads |-> None]
    /\ faults  = 0
    /\ skipped = {}
    /\ newest  = [r \in Responses |-> None]

\* A database call fails; the budget of such calls is MaxFaults.
DbFault == faults < MaxFaults /\ faults' = faults + 1

\* The statement on the rows of r that comes next is skipped.
Skip(r) ==
    /\ DbFault
    /\ skipped' = skipped \cup {r}
    /\ UNCHANGED <<tableVars, isWav, newest>>

\* A statement that is executed and leaves wav_path alone.
Done(statement) ==
    /\ statement
    /\ UNCHANGED <<isWav, faults, skipped, newest>>

HandingOver(r) == \E u \in Uploads : upPc[u] = "enqueue" /\ upFor[u] = r

Outstanding(r) == Queued(r) \/ Held(r) \/ Sleeping(r) \/ HandingOver(r)

-----------------------------------------------------------------------------
(* CreateSlot and CreateAudioSlot                                          *)

\* SELECT COUNT(*): its error is ignored too and leaves the count at zero.
SlotLookup(s, r) ==
    /\ server = "up"
    /\ slotPc[s] = "new"
    /\ slotFor' = [slotFor EXCEPT ![s] = r]
    /\ \/ /\ slotPc' = [slotPc EXCEPT ![s] = IF jobStatus[r] = "ABSENT"
                                             THEN "insert" ELSE "update"]
          /\ UNCHANGED faults
       \/ /\ slotPc' = [slotPc EXCEPT ![s] = "insert"]
          /\ DbFault
    /\ UNCHANGED <<storeVars, goQueueVars, isWav, upPc, upFor, upSlot, skipped,
                   newest>>

\* INSERT or UPDATE.  An INSERT against UNIQUE(response_id) fails, and the
\* answer is 200 all the same.
SlotStore(s) ==
    LET r == slotFor[s] IN
    /\ slotPc[s] \in {"insert", "update"}
    /\ slotPc' = [slotPc EXCEPT ![s] = "done"]
    /\ \/ /\ slotPc[s] = "insert" => jobStatus[r] = "ABSENT"
          /\ SetJobPath(r, "UPLOADING", s)
          /\ isWav' = [isWav EXCEPT ![r] = FALSE]
          /\ UNCHANGED <<faults, skipped, newest>>
       \/ /\ slotPc[s] = "insert" /\ jobStatus[r] # "ABSENT"
          /\ skipped' = skipped \cup {r}
          /\ UNCHANGED <<tableVars, isWav, faults, newest>>
       \/ Skip(r)
    /\ UNCHANGED <<fileVars, goQueueVars, slotFor, upPc, upFor, upSlot>>

-----------------------------------------------------------------------------
(* Upload and UploadAudio                                                  *)

\* The recording is written to the path the upload id names, whatever the row
\* says; the client has the id from the answer to its slot request.
UploadWrite(u, s) ==
    /\ server = "up"
    /\ upPc[u] = "new"
    /\ slotPc[s] = "done"
    /\ upFor' = [upFor EXCEPT ![u] = slotFor[s]]
    /\ upSlot' = [upSlot EXCEPT ![u] = s]
    /\ file' = [file EXCEPT ![s] = u]
    /\ upPc' = [upPc EXCEPT ![u] = "mark"]
    /\ UNCHANGED <<tableVars, wavCopy, goQueueVars, isWav, slotPc, slotFor,
                   faults, skipped, newest>>

\* Mutant: a new recording also puts the response back to SUBMITTED.
UploadMarkResubmits(u) ==
    LET r == upFor[u] IN
    /\ upPc[u] = "mark"
    /\ upPc' = [upPc EXCEPT ![u] = "enqueue"]
    /\ jobStatus' = [jobStatus EXCEPT ![r] = "QC_PENDING"]
    /\ wavPath' = [wavPath EXCEPT ![r] = upSlot[u]]
    /\ respStatus' = [respStatus EXCEPT ![r] = "SUBMITTED"]
    /\ isWav' = [isWav EXCEPT ![r] = FALSE]
    /\ newest' = [newest EXCEPT ![r] = u]
    /\ UNCHANGED <<transcript, answer, audioUrl, faults, skipped, fileVars,
                   goQueueVars, slotPc, slotFor, upFor, upSlot>>

\* UPDATE audio_jobs SET wav_path = .., status = 'QC_PENDING'; without a row,
\* when the slot's INSERT was skipped, it changes nothing.
UploadMark(u) ==
    LET r == upFor[u] IN
    /\ upPc[u] = "mark"
    /\ upPc' = [upPc EXCEPT ![u] = "enqueue"]
    /\ \/ /\ jobStatus[r] # "ABSENT"
          /\ SetJobPath(r, "QC_PENDING", upSlot[u])
          /\ isWav' = [isWav EXCEPT ![r] = FALSE]
          /\ newest' = [newest EXCEPT ![r] = u]
          /\ UNCHANGED <<faults, skipped>>
       \/ /\ jobStatus[r] = "ABSENT"
          /\ UNCHANGED <<tableVars, isWav, newest, faults, skipped>>
       \/ Skip(r)
    /\ UNCHANGED <<fileVars, goQueueVars, slotPc, slotFor, upFor, upSlot>>

UploadEnqueue(u) ==
    /\ upPc[u] = "enqueue"
    /\ Enqueue(upFor[u])
    /\ upPc' = [upPc EXCEPT ![u] = "done"]
    /\ UNCHANGED <<pc, held, attempts, sleeping, server, recovering, stops, runs,
                   storeVars, isWav, slotPc, slotFor, upFor, upSlot, faults,
                   skipped, newest>>

-----------------------------------------------------------------------------
(* Approve and Reject                                                      *)

\* review(): the row is updated whatever its status is.
Review(r, verdict) ==
    /\ server = "up"
    /\ SetVerdict(r, verdict)
    /\ settled' = IF Outstanding(r) THEN settled \ {r} ELSE settled \cup {r}
    /\ UNCHANGED <<ch, pc, held, attempts, sleeping, server, recovering, stops,
                   lost, jobs, runs, fileVars, requestVars>>
=============================================================================
