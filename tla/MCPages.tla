------------------------------ MODULE MCPages ------------------------------
(* Two more pages for TLC: the screen on which a respondent answers a        *)
(* question, or the session of a researcher.  They share no state, so every  *)
(* behaviour works one of them.                                              *)
EXTENDS QuestionWidget, WebClient

VARIABLE part

allVars == <<part, vars, clientVars>>

AllInit ==
    /\ part \in {"widget", "session"} /\ Init /\ ClientInit
    /\ IF part = "session" THEN type = "YES_NO" ELSE issued = 0

AllNext ==
    \/ part = "widget" /\ Next /\ UNCHANGED <<part, clientVars>>
    \/ part = "session" /\ ClientNext /\ UNCHANGED <<part, vars>>

AllSpec == AllInit /\ [][AllNext]_allVars /\ Fairness /\ ClientFairness

\* The widgets and the client keep their types.
PagesTypeOK == TypeOK /\ ClientTypeOK

\* Whatever makes a respondent or a researcher wait ends: the recorder that was
\* stopped and the capture of a location, the loader of the Guard and the buttons
\* of the settings.
AllSettle == RecordingArrives /\ CaptureEnds /\ LoaderEnds /\ PlannerEnds
=============================================================================
