---------------------------- MODULE AudioTables ----------------------------
(***************************************************************************)
(* What the audio pipeline keeps on durable storage: the row of audio_jobs *)
(* and the row of responses that belong to one recorded answer, and the    *)
(* files under STORAGE_PATH.  Both backends work on these tables, so the   *)
(* FastAPI and the Go modules extend this one.                             *)
(*                                                                         *)
(* Every SQL statement of the code runs in autocommit mode and is one      *)
(* atomic step.  Columns that no property reads (transcript_raw,           *)
(* extracted_data, qc_result, processing_ms, the timestamps) are left out. *)
(***************************************************************************)
EXTENDS Naturals, Sequences, FiniteSets

CONSTANTS
    Responses,  \* rows of responses: answers of type audio
    Slots,      \* upload-slot requests; the fresh path each one makes up
    Uploads,    \* upload requests; the recording each one carries
    None        \* SQL NULL, and "no such thing"

ASSUME StorageAssumption ==
    /\ None \notin Responses
    /\ None \notin Slots
    /\ None \notin Uploads

VARIABLES
    jobStatus,   \* audio_jobs.status, "ABSENT" while there is no row
    wavPath,     \* audio_jobs.wav_path
    respStatus,  \* responses.status
    transcript,  \* responses.transcript: the recording it is a transcript of
    answer,      \* responses.extracted_value: the recording it was read from
    audioUrl,    \* responses.audio_url: the path it points at
    file,        \* the file at a slot's path: the recording in it
    wavCopy      \* the 16 kHz copy ffmpeg leaves next to that file

tableVars == <<jobStatus, wavPath, respStatus, transcript, answer, audioUrl>>
fileVars  == <<file, wavCopy>>
storeVars == <<jobStatus, wavPath, respStatus, transcript, answer, audioUrl,
               file, wavCopy>>

-----------------------------------------------------------------------------
(* The members of the two ENUM columns that some statement writes.         *)

Verdicts == {"APPROVED", "REJECTED"}

RespStatus == {"SUBMITTED", "PROCESSING", "REVIEWED"} \cup Verdicts

\* A run of the pipeline over the row has been promised and has not ended.
MidStatus == {"QC_PENDING", "QC_PASSED", "TRANSCRIBING", "EXTRACTING"}

JobStatus == {"ABSENT", "UPLOADING", "COMPLETE"} \cup MidStatus

\* The rows start() looks for after a restart.
RecoverableStatus == {"QUEUED", "UPLOADING"}

Mid(r) == jobStatus[r] \in MidStatus

\* Every row has a path: both the INSERT and the UPDATEs set one.
StoreTypeOK ==
    /\ jobStatus  \in [Responses -> JobStatus]
    /\ wavPath    \in [Responses -> Slots \cup {None}]
    /\ respStatus \in [Responses -> RespStatus]
    /\ transcript \in [Responses -> Uploads \cup {None}]
    /\ answer     \in [Responses -> Uploads \cup {None}]
    /\ audioUrl   \in [Responses -> Slots \cup {None}]
    /\ file       \in [Slots -> Uploads \cup {None}]
    /\ wavCopy    \in [Slots -> Uploads \cup {None}]
    /\ \A r \in Responses : jobStatus[r] # "ABSENT" => wavPath[r] \in Slots

\* Responses have been submitted; no recording has been announced yet.
StoreInit ==
    /\ jobStatus  = [r \in Responses |-> "ABSENT"]
    /\ wavPath    = [r \in Responses |-> None]
    /\ respStatus = [r \in Responses |-> "SUBMITTED"]
    /\ transcript = [r \in Responses |-> None]
    /\ answer     = [r \in Responses |-> None]
    /\ audioUrl   = [r \in Responses |-> None]
    /\ file       = [s \in Slots |-> None]
    /\ wavCopy    = [s \in Slots |-> None]

-----------------------------------------------------------------------------
(* The statements of the pipeline and of the handlers.                     *)

SetJobStatus(r, status) ==
    /\ jobStatus' = [jobStatus EXCEPT ![r] = status]
    /\ UNCHANGED <<wavPath, respStatus, transcript, answer, audioUrl>>

\* INSERT or UPDATE of an audio_jobs row that also sets its path.
SetJobPath(r, status, path) ==
    /\ jobStatus' = [jobStatus EXCEPT ![r] = status]
    /\ wavPath' = [wavPath EXCEPT ![r] = path]
    /\ UNCHANGED <<respStatus, transcript, answer, audioUrl>>

\* UPDATE responses SET transcript = .., status = 'PROCESSING'
SetTranscript(r, recording) ==
    /\ transcript' = [transcript EXCEPT ![r] = recording]
    /\ respStatus' = [respStatus EXCEPT ![r] = "PROCESSING"]
    /\ UNCHANGED <<jobStatus, wavPath, answer, audioUrl>>

\* UPDATE responses SET extracted_value = .., status = 'REVIEWED'
SetAnswer(r, recording) ==
    /\ answer' = [answer EXCEPT ![r] = recording]
    /\ respStatus' = [respStatus EXCEPT ![r] = "REVIEWED"]
    /\ UNCHANGED <<jobStatus, wavPath, transcript, audioUrl>>

SetAudioUrl(r, path) ==
    /\ audioUrl' = [audioUrl EXCEPT ![r] = path]
    /\ UNCHANGED <<jobStatus, wavPath, respStatus, transcript, answer>>

\* UPDATE responses SET status = 'SUBMITTED' WHERE status = 'PROCESSING'
ResubmitIfProcessing(r) ==
    /\ respStatus' = [respStatus EXCEPT ![r] = IF @ = "PROCESSING"
                                               THEN "SUBMITTED" ELSE @]
    /\ UNCHANGED <<jobStatus, wavPath, transcript, answer, audioUrl>>

\* The reviewer's UPDATE: it looks at no status.
SetVerdict(r, verdict) ==
    /\ respStatus' = [respStatus EXCEPT ![r] = verdict]
    /\ UNCHANGED <<jobStatus, wavPath, transcript, answer, audioUrl>>
=============================================================================
