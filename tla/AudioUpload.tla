---------------------------- MODULE AudioUpload ----------------------------
(***************************************************************************)
(* The request handlers of the FastAPI backend around a recording: the     *)
(* upload slot and the upload (routers/audio.py; routers/public.py has the *)
(* same two for anonymous respondents), and the reviewer's verdict         *)
(* (routers/responses.py).                                                 *)
(*                                                                         *)
(* A request is known by its member of Slots or Uploads and is served at   *)
(* most once, so those sets bound the number of requests.  A request that  *)
(* is answered with success is "done", one that is answered 404 or 500, or *)
(* never, has "failed".                                                    *)
(***************************************************************************)
EXTENDS JobQueue

CONSTANT MaxFaults   \* bound: how many database calls may raise

ASSUME FaultAssumption == MaxFaults \in Nat

VARIABLES
    slotPc,   \* where each slot request is
    slotFor,  \* the responseId in its body
    upPc,     \* where each upload request is
    upFor,    \* the responseId in its form
    upPath,   \* save_path of the upload
    faults    \* number of database calls that have raised

requestVars == <<slotPc, slotFor, upPc, upFor, upPath, faults>>

SlotPc == {"new", "insert", "update", "done", "failed"}
UpPc   == {"new", "write", "mark", "enqueue", "done", "failed"}

RequestTypeOK ==
    /\ slotPc  \in [Slots -> SlotPc]
    /\ slotFor \in [Slots -> Responses \cup {None}]
    /\ upPc    \in [Uploads -> UpPc]
    /\ upFor   \in [Uploads -> Responses \cup {None}]
    /\ upPath  \in [Uploads -> Slots \cup {None}]
    /\ faults  \in 0 .. MaxFaults
    /\ \A s \in Slots : slotPc[s] \in {"insert", "update"} =>
                           slotFor[s] \in Responses
    /\ \A u \in Uploads : upPc[u] \in {"write", "mark", "enqueue"} =>
                           upFor[u] \in Responses /\ upPath[u] \in Slots

RequestInit ==
    /\ slotPc  = [s \in Slots |-> "new"]
    /\ slotFor = [s \in Slots |-> None]
    /\ upPc    = [u \in Uploads |-> "new"]
    /\ upFor   = [u \in Uploads |-> None]
    /\ upPath  = [u \in Uploads |-> None]
    /\ faults  = 0

\* A database call raises; the budget of such calls is MaxFaults.
DbFault == faults < MaxFaults /\ faults' = faults + 1

\* An upload has announced its recording and its enqueue() comes next.
HandingOver(r) == \E u \in Uploads : upPc[u] = "enqueue" /\ upFor[u] = r

\* Some job for r exists, or one is about to.
Outstanding(r) == Queued(r) \/ Held(r) \/ HandingOver(r)

-----------------------------------------------------------------------------
(* create_slot and create_audio_slot                                       *)

\* SELECT id FROM audio_jobs: decides between UPDATE and INSERT.
SlotLookup(s, r) ==
    /\ server = "up"
    /\ slotPc[s] = "new"
    /\ slotPc' = [slotPc EXCEPT ![s] = IF jobStatus[r] = "ABSENT"
                                       THEN "insert" ELSE "update"]
    /\ slotFor' = [slotFor EXCEPT ![s] = r]
    /\ UNCHANGED <<upPc, upFor, upPath, faults, queueVars, storeVars>>

\* The INSERT loses against another one on UNIQUE(response_id) and raises.
SlotStore(s) ==
    /\ slotPc[s] \in {"insert", "update"}
    /\ \/ /\ slotPc[s] = "insert" => jobStatus[slotFor[s]] = "ABSENT"
          /\ SetJobPath(slotFor[s], "UPLOADING", s)
          /\ slotPc' = [slotPc EXCEPT ![s] = "done"]
       \/ /\ slotPc[s] = "insert"
          /\ jobStatus[slotFor[s]] # "ABSENT"
          /\ slotPc' = [slotPc EXCEPT ![s] = "failed"]
          /\ UNCHANGED tableVars
    /\ UNCHANGED <<slotFor, upPc, upFor, upPath, faults, queueVars, fileVars>>

\* Either statement raises for a reason of the database.
SlotFails(s) ==
    /\ slotPc[s] \in {"insert", "update"}
    /\ DbFault
    /\ slotPc' = [slotPc EXCEPT ![s] = "failed"]
    /\ UNCHANGED <<slotFor, upPc, upFor, upPath, queueVars, storeVars>>

-----------------------------------------------------------------------------
(* _do_upload                                                              *)

\* Mutant: the SELECT has lost its WHERE and returns the path of any row.
UploadLookupAnyRow(u, r) ==
    /\ server = "up"
    /\ upPc[u] = "new"
    /\ upFor' = [upFor EXCEPT ![u] = r]
    /\ upPc' = [upPc EXCEPT ![u] = "write"]
    /\ \E q \in Responses : /\ jobStatus[q] # "ABSENT"
                             /\ upPath' = [upPath EXCEPT ![u] = wavPath[q]]
    /\ UNCHANGED <<slotPc, slotFor, faults, queueVars, storeVars>>

\* The audio_jobs row names the path; 404 without a row.  Every row has a
\* path, so the branch that makes one up is never taken.
UploadLookup(u, r) ==
    /\ server = "up"
    /\ upPc[u] = "new"
    /\ upFor' = [upFor EXCEPT ![u] = r]
    /\ \/ /\ jobStatus[r] = "ABSENT"
          /\ upPc' = [upPc EXCEPT ![u] = "failed"]
          /\ UNCHANGED upPath
       \/ /\ jobStatus[r] # "ABSENT"
          /\ upPc' = [upPc EXCEPT ![u] = "write"]
          /\ upPath' = [upPath EXCEPT ![u] = wavPath[r]]
    /\ UNCHANGED <<slotPc, slotFor, faults, queueVars, storeVars>>

UploadWrite(u) ==
    /\ upPc[u] = "write"
    /\ file' = [file EXCEPT ![upPath[u]] = u]
    /\ upPc' = [upPc EXCEPT ![u] = "mark"]
    /\ UNCHANGED <<slotPc, slotFor, upFor, upPath, faults, queueVars,
                   tableVars, wavCopy>>

\* Mutant: a new recording also puts the response back to SUBMITTED.
UploadMarkResubmits(u) ==
    /\ upPc[u] = "mark"
    /\ jobStatus' = [jobStatus EXCEPT ![upFor[u]] = "QC_PENDING"]
    /\ wavPath' = [wavPath EXCEPT ![upFor[u]] = upPath[u]]
    /\ respStatus' = [respStatus EXCEPT ![upFor[u]] = "SUBMITTED"]
    /\ upPc' = [upPc EXCEPT ![u] = "enqueue"]
    /\ UNCHANGED <<transcript, answer, audioUrl, slotPc, slotFor, upFor, upPath,
                   faults, queueVars, fileVars>>

\* UPDATE audio_jobs SET status = 'QC_PENDING', wav_path = ..
UploadMark(u) ==
    /\ upPc[u] = "mark"
    /\ SetJobPath(upFor[u], "QC_PENDING", upPath[u])
    /\ upPc' = [upPc EXCEPT ![u] = "enqueue"]
    /\ UNCHANGED <<slotPc, slotFor, upFor, upPath, faults, queueVars, fileVars>>

UploadEnqueue(u) ==
    /\ upPc[u] = "enqueue"
    /\ Enqueue(upFor[u])
    /\ upPc' = [upPc EXCEPT ![u] = "done"]
    /\ UNCHANGED <<pc, held, attempts, server, recovering, crashes, slotPc,
                   slotFor, upFor, upPath, faults, storeVars>>

\* That UPDATE raises.
UploadFails(u) ==
    /\ upPc[u] = "mark"
    /\ DbFault
    /\ upPc' = [upPc EXCEPT ![u] = "failed"]
    /\ UNCHANGED <<slotPc, slotFor, upFor, upPath, queueVars, storeVars>>

-----------------------------------------------------------------------------
(* approve and reject                                                      *)

\* _review(): the row is updated whatever its status is.
Review(r, verdict) ==
    /\ server = "up"
    /\ SetVerdict(r, verdict)
    /\ settled' = IF Outstanding(r) THEN settled \ {r} ELSE settled \cup {r}
    /\ UNCHANGED <<queue, pc, held, attempts, server, recovering, crashes,
                   lost, requestVars, fileVars>>
=============================================================================
