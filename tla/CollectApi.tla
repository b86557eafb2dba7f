----------------------------- MODULE CollectApi -----------------------------
(***************************************************************************)
(* The API an anonymous respondent talks to: sessions, responses and what  *)
(* is attached to them (handlers/public.go and routers/public.py), and the *)
(* network in between.  Both backends are here, as one of them serves a    *)
(* page: they differ in what a response needs of its session, in what      *)
(* becomes of a failing statement, and in images.                          *)
(*                                                                         *)
(* A session is known by the call that starts it, a response by the        *)
(* submission and the question it is made for: the page calls once for     *)
(* each.  How an attached recording is worked off is in AudioPipeline and  *)
(* GoPipeline.  A connection that breaks breaks before the handler begins  *)
(* or after its last statement.                                            *)
(***************************************************************************)
EXTENDS Naturals, FiniteSets

CONSTANTS
    Starts,     \* calls that start a session
    Submits,    \* submissions of a page, each a series of calls
    Total,      \* number of questions of the survey
    Values,     \* what a question may be answered with
    None,       \* null
    MaxFaults   \* bound: how many calls get lost or fail

Callers   == Starts \cup Submits
Questions == 1 .. Total

ASSUME CollectAssumption ==
    /\ Starts \cap Submits = {}
    /\ Total \in Nat \ {0}
    /\ None \notin Starts \cup Values
    /\ MaxFaults \in Nat

VARIABLES
    backend,    \* the backend behind the API, "go" or "fastapi"
    session,    \* status of the row in sessions
    response,   \* text_value or duration of the row in responses, None: no row
    attached,   \* recording or image kept with the response
    req,        \* what each caller asks for
    at,         \* how far its call has come
    missed,     \* history: questions a call of the submission for which failed
    faults      \* number of calls that failed

apiVars == <<backend, session, response, attached, req, at, missed, faults>>

Ops     == {"session", "response", "slot", "audio", "image", "complete"}
Replies == {"ok", "refused", "failed"}

Call(op, s, q, v) == [op |-> op, sid |-> s, q |-> q, value |-> v]

NoCall == Call("none", None, 0, None)

ApiTypeOK ==
    /\ backend \in {"go", "fastapi"}
    /\ session \in [Starts -> {"absent", "IN_PROGRESS", "COMPLETED"}]
    /\ response \in [Submits -> [Questions -> Values \cup {None}]]
    /\ attached \in [Submits -> [Questions -> Values \cup {None}]]
    /\ req \in [Callers -> [op : Ops \cup {"none"}, sid : Starts \cup {None},
                            q : 0 .. Total, value : Values \cup {None}]]
    /\ at \in [Callers -> {"new", "sent", "checked", "done"} \cup Replies]
    /\ missed \in [Submits -> SUBSET Questions]
    /\ faults \in 0 .. MaxFaults
    /\ \A c \in Callers : req[c] = NoCall <=> at[c] = "new"
    /\ \A m \in Submits : at[m] # "new" => req[m].sid \in Starts
    /\ \A m \in Submits : req[m].op \in {"response", "slot", "audio", "image"} =>
          req[m].q \in Questions /\ req[m].value \in Values

ApiInit ==
    /\ backend \in {"go", "fastapi"}
    /\ session = [s \in Starts |-> "absent"]
    /\ response = [m \in Submits |-> [q \in Questions |-> None]]
    /\ attached = [m \in Submits |-> [q \in Questions |-> None]]
    /\ req = [c \in Callers |-> NoCall]
    /\ at = [c \in Callers |-> "new"]
    /\ missed = [m \in Submits |-> {}]
    /\ faults = 0

\* fetch(): the call is on its way.
Send(c, call) ==
    /\ req' = [req EXCEPT ![c] = call]
    /\ at' = [at EXCEPT ![c] = "sent"]

Reply(c, how) ==
    /\ at' = [at EXCEPT ![c] = how]
    /\ UNCHANGED <<backend, req, missed, faults>>

-----------------------------------------------------------------------------
(* The handlers.                                                           *)

\* StartSession(), start_session(), for a survey that is ACTIVE.
StartSession(c) ==
    /\ at[c] = "sent" /\ req[c].op = "session"
    /\ session' = [session EXCEPT ![c] = "IN_PROGRESS"]
    /\ Reply(c, "ok")
    /\ UNCHANGED <<response, attached>>

\* Mutant: the Go backend asks for the session only, whatever its status.
AcceptsAny(s) == session[s] # "absent"

\* Go counts sessions in progress, FastAPI asks for the row alone.
Accepts(s) ==
    IF backend = "go" THEN session[s] = "IN_PROGRESS" ELSE session[s] # "absent"

\* The SELECT with which SubmitResponse() and submit_response() begin.
CheckResponse(c) ==
    /\ at[c] = "sent" /\ req[c].op = "response"
    /\ Reply(c, IF Accepts(req[c].sid) THEN "checked" ELSE "refused")
    /\ UNCHANGED <<session, response, attached>>

\* Their INSERT: the session may have been completed since.
StoreResponse(c) ==
    /\ at[c] = "checked" /\ req[c].op = "response"
    /\ response' = [response EXCEPT ![c][req[c].q] = req[c].value]
    /\ Reply(c, "ok")
    /\ UNCHANGED <<session, attached>>

\* CreateAudioSlot(), create_audio_slot().
CreateSlot(c) ==
    /\ at[c] = "sent" /\ req[c].op = "slot"
    /\ Reply(c, "ok")
    /\ UNCHANGED <<session, response, attached>>

\* UploadAudio(), upload_audio().
UploadAudio(c) ==
    /\ at[c] = "sent" /\ req[c].op = "audio"
    /\ attached' = [attached EXCEPT ![c][req[c].q] = req[c].value]
    /\ Reply(c, "ok")
    /\ UNCHANGED <<session, response>>

\* upload_image(), which wants the response to have a session; the Go backend
\* has no such route.
UploadImage(c) ==
    /\ at[c] = "sent" /\ req[c].op = "image"
    /\ IF backend = "fastapi" /\ response[c][req[c].q] # None
          THEN /\ attached' = [attached EXCEPT ![c][req[c].q] = req[c].value]
               /\ Reply(c, "ok")
          ELSE Reply(c, "refused") /\ UNCHANGED attached
    /\ UNCHANGED <<session, response>>

\* complete_session() looks for the session first.
CheckComplete(c) ==
    /\ at[c] = "sent" /\ req[c].op = "complete" /\ backend = "fastapi"
    /\ Reply(c, IF session[req[c].sid] # "absent" THEN "checked" ELSE "refused")
    /\ UNCHANGED <<session, response, attached>>

\* The UPDATE of complete_session(); in Go it is all of CompleteSession() and
\* its result is not looked at.
CompleteSession(c) ==
    /\ req[c].op = "complete"
    /\ at[c] = IF backend = "fastapi" THEN "checked" ELSE "sent"
    /\ session' = [session EXCEPT ![req[c].sid] =
                      IF @ = "absent" THEN @ ELSE "COMPLETED"]
    /\ Reply(c, "ok")
    /\ UNCHANGED <<response, attached>>

-----------------------------------------------------------------------------
(* Failures.                                                               *)

Fault(c, how) ==
    /\ faults < MaxFaults
    /\ faults' = faults + 1
    /\ at' = [at EXCEPT ![c] = how]
    /\ missed' = IF c \in Submits /\ req[c].q \in Questions
                    THEN [missed EXCEPT ![c] = @ \cup {req[c].q}] ELSE missed
    /\ UNCHANGED <<backend, session, response, attached, req>>

\* The call or its answer gets lost, a query raises, the survey is not ACTIVE.
Fails(c) ==
    /\ at[c] \in {"sent", "checked", "ok"}
    /\ Fault(c, "failed")

\* The Go backend ignores that an Exec() fails and answers as if it had not.
Skips(c) ==
    /\ backend = "go"
    /\ \/ at[c] = "sent" /\ req[c].op \in {"session", "slot", "audio", "complete"}
       \/ at[c] = "checked" /\ req[c].op = "response"
    /\ Fault(c, "ok")

Serve(c) ==
    \/ StartSession(c)  \/ CheckResponse(c)  \/ StoreResponse(c)
    \/ CreateSlot(c)    \/ UploadAudio(c)    \/ UploadImage(c)
    \/ CheckComplete(c) \/ CompleteSession(c)

Serving(c) == Serve(c) \/ Fails(c) \/ Skips(c)
=============================================================================
