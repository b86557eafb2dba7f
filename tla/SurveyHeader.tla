---------------------------- MODULE SurveyHeader ----------------------------
(***************************************************************************)
(* SurveyBuilderPage.tsx, the bar above the tabs: the title of the survey, *)
(* saved a second after the last key, and the button that publishes or     *)
(* pauses it.  Both come from the query ['survey', id] and both mutations  *)
(* ask for it again; whenever it brings another survey the title in the    *)
(* input is replaced by the title it brings.                               *)
(*                                                                         *)
(* Titles are numbered as they are typed and none is empty.                *)
(***************************************************************************)
EXTENDS Naturals, Sequences

CONSTANTS
    MaxTyped,   \* bound: titles typed, clicks on the button, returns, calls and
                \* statements lost
    MaxSends    \* bound: calls of each kind under way together

ASSUME HeaderAssumption == MaxTyped \in Nat /\ MaxSends \in Nat \ {0}

VARIABLES
    stored,     \* title and status in the database
    present,    \* "open", "left" for another page, or "closed" with the browser
    survey,     \* the survey as the page knows it
    known,      \* whether it does
    asking,     \* the query: "none", "sent", "served"
    reply,      \* the answer on its way
    surveyTitle,
    titleSaveTimer,
    titlePuts,  \* titles under way
    patches,    \* changes of the status under way
    spent,      \* what has been used of the bound
    typed,      \* history: the last title typed
    asked,      \* history: the last status asked for
    lostTitle,  \* history: why the title may not be stored
    lostStatus, \* history: why the status may not be
    wrong,      \* history: a call has been answered with an error
    passed      \* history: what the query will answer was read before a change

headerVars == <<stored, present, survey, known, asking, reply, surveyTitle,
                titleSaveTimer, titlePuts, patches, spent, typed, asked, lostTitle,
                lostStatus, wrong, passed>>

\* updated_at stands for the time of the last change, to the second.
Survey == [title : 0..MaxTyped, status : {"DRAFT", "ACTIVE", "PAUSED"},
           updated_at : Nat]
Phases == {"sent", "ok", "error"}

\* Every variable has its type: the button asks for ACTIVE or PAUSED only.
HeaderTypeOK ==
    /\ stored \in Survey /\ survey \in Survey /\ reply \in Survey
    /\ present \in {"open", "left", "closed"}
    /\ known \in BOOLEAN
    /\ asking \in {"none", "sent", "served"}
    /\ surveyTitle \in 0..MaxTyped
    /\ titleSaveTimer \in BOOLEAN
    /\ titlePuts \in Seq([value : 0..MaxTyped, at : Phases])
    /\ patches \in Seq([value : {"ACTIVE", "PAUSED"}, at : Phases])
    /\ Len(titlePuts) <= MaxSends /\ Len(patches) <= MaxSends
    /\ spent \in 0..MaxTyped /\ typed \in 0..MaxTyped
    /\ asked \in {"DRAFT", "ACTIVE", "PAUSED"}
    /\ lostTitle \subseteq {"reset", "overtaken", "failed", "unstored", "closed"}
    /\ lostStatus \subseteq {"overtaken", "failed", "unstored"}
    /\ wrong \in BOOLEAN /\ passed \in BOOLEAN

Draft == [title |-> 0, status |-> "DRAFT", updated_at |-> 0]

HeaderInit ==
    /\ stored = Draft /\ survey = Draft /\ reply = Draft
    /\ present = "open" /\ known = FALSE /\ asking = "sent"
    /\ surveyTitle = 0 /\ titleSaveTimer = FALSE
    /\ titlePuts = <<>> /\ patches = <<>>
    /\ spent = 0 /\ typed = 0 /\ asked = "DRAFT"
    /\ lostTitle = {} /\ lostStatus = {}
    /\ wrong = FALSE /\ passed = FALSE

Spend == spent < MaxTyped /\ spent' = spent + 1

-----------------------------------------------------------------------------
(* The query ['survey', id].                                               *)

AskAgain ==
    IF present = "open" /\ (known \/ asking = "none")
       THEN asking' = "sent" /\ passed' = FALSE
       ELSE passed' = (passed \/ asking # "none") /\ UNCHANGED asking

AskServed ==
    /\ asking = "sent"
    /\ asking' = "served" /\ reply' = stored
    /\ UNCHANGED <<stored, present, survey, known, surveyTitle, titleSaveTimer,
                   titlePuts, patches, spent, typed, asked, lostTitle, lostStatus,
                   wrong, passed>>

\* The effect on [survey].
TitleShown(other) == IF other THEN reply.title ELSE surveyTitle

\* The survey is another object when anything in it differs, the count of its
\* responses included, which respondents change at any time.
AskAnswered ==
    /\ asking = "served" /\ present # "closed"
    /\ asking' = "none"
    /\ survey' = reply /\ known' = TRUE
    /\ \E other \in {TRUE, ~known \/ reply # survey} :
          surveyTitle' = IF present = "open" THEN TitleShown(other) ELSE surveyTitle
    /\ lostTitle' = IF titleSaveTimer /\ surveyTitle' # surveyTitle
                       THEN lostTitle \cup {"reset"} ELSE lostTitle
    /\ reply' = Draft
    /\ UNCHANGED <<stored, present, titleSaveTimer, titlePuts, patches, spent, typed,
                   asked, lostStatus, wrong, passed>>

\* The query fails, or the window gets the focus when it is old.
AskFails ==
    /\ Spend
    /\ asking # "none" /\ present # "closed"
    /\ asking' = "none" /\ reply' = Draft /\ wrong' = TRUE
    /\ UNCHANGED <<stored, present, survey, known, surveyTitle, titleSaveTimer,
                   titlePuts, patches, typed, asked, lostTitle, lostStatus, passed>>

AskOnFocus ==
    /\ Spend
    /\ asking = "none" /\ present = "open"
    /\ asking' = "sent" /\ passed' = FALSE
    /\ UNCHANGED <<stored, present, survey, known, reply, surveyTitle, titleSaveTimer,
                   titlePuts, patches, typed, asked, lostTitle, lostStatus, wrong>>

-----------------------------------------------------------------------------
(* The title.                                                              *)

\* handleTitleChange()
ChangeTitle ==
    /\ present = "open" /\ Spend
    /\ surveyTitle' = spent + 1
    /\ titleSaveTimer' = TRUE
    /\ typed' = spent + 1
    /\ lostTitle' = {}
    /\ UNCHANGED <<stored, present, survey, known, asking, reply, titlePuts, patches,
                   asked, lostStatus, wrong, passed>>

\* Mutant: the title sent is the one the query has brought.
TitleToSendCached == survey.title

\* saveTitle reads the title of the last render, not the one typed.
TitleToSend == surveyTitle

\* The second is over, on this page or on the next.
TitleTimer ==
    /\ titleSaveTimer /\ Len(titlePuts) < MaxSends
    /\ titleSaveTimer' = FALSE
    /\ titlePuts' = Append(titlePuts, [value |-> TitleToSend, at |-> "sent"])
    /\ UNCHANGED <<stored, present, survey, known, asking, reply, surveyTitle,
                   patches, spent, typed, asked, lostTitle, lostStatus, wrong, passed>>

\* Calls sent before call i that will be served after it.
Behind(calls, i) == {j \in 1..(i - 1) : calls[j].at = "sent"}

Without(calls, i) == SubSeq(calls, 1, i - 1) \o SubSeq(calls, i + 1, Len(calls))

\* update_survey(): FastAPI stores the title and then answers 500, because the
\* version it saves next holds dates that json.dumps() refuses.
TitleServed(i) ==
    /\ i \in DOMAIN titlePuts /\ titlePuts[i].at = "sent"
    /\ stored' = [stored EXCEPT !.title = titlePuts[i].value, !.updated_at = @ + 1]
    /\ \E answer \in {"ok", "error"} : titlePuts' = [titlePuts EXCEPT ![i].at = answer]
    /\ lostTitle' = IF Behind(titlePuts, i) = {} THEN lostTitle
                    ELSE lostTitle \cup {"overtaken"}
    /\ UNCHANGED <<present, survey, known, asking, reply, surveyTitle, titleSaveTimer,
                   patches, spent, typed, asked, lostStatus, wrong, passed>>

\* Go does not look at the error of the UPDATE: one that fails is left out, and the
\* survey answered as it is.
TitleSkips(i) ==
    /\ Spend
    /\ i \in DOMAIN titlePuts /\ titlePuts[i].at = "sent"
    /\ titlePuts' = [titlePuts EXCEPT ![i].at = "ok"]
    /\ lostTitle' = lostTitle \cup {"unstored"}
    /\ UNCHANGED <<stored, present, survey, known, asking, reply, surveyTitle,
                   titleSaveTimer, patches, typed, asked, lostStatus, wrong, passed>>

TitleLost(i) ==
    /\ Spend
    /\ i \in DOMAIN titlePuts /\ titlePuts[i].at = "sent"
    /\ titlePuts' = [titlePuts EXCEPT ![i].at = "error"]
    /\ lostTitle' = lostTitle \cup {"failed"}
    /\ UNCHANGED <<stored, present, survey, known, asking, reply, surveyTitle,
                   titleSaveTimer, patches, typed, asked, lostStatus, wrong, passed>>

\* The end of a mutation: the query is asked for again if it succeeded.
Ended(call) ==
    IF call.at = "ok" /\ present # "closed" THEN AskAgain /\ UNCHANGED wrong
    ELSE wrong' = (wrong \/ call.at = "error") /\ UNCHANGED <<asking, passed>>

TitleAnswered(i) ==
    /\ i \in DOMAIN titlePuts /\ titlePuts[i].at # "sent"
    /\ titlePuts' = Without(titlePuts, i)
    /\ Ended(titlePuts[i])
    /\ UNCHANGED <<stored, present, survey, known, reply, surveyTitle, titleSaveTimer,
                   patches, spent, typed, asked, lostTitle, lostStatus>>

-----------------------------------------------------------------------------
(* The status.                                                             *)

\* Mutant: the button takes the survey back to a draft.
StatusAskedDraft == IF known /\ survey.status = "ACTIVE" THEN "DRAFT" ELSE "ACTIVE"

\* The other of the status the page shows.
StatusAsked == IF known /\ survey.status = "ACTIVE" THEN "PAUSED" ELSE "ACTIVE"

ToggleStatus ==
    /\ present = "open" /\ Spend /\ Len(patches) < MaxSends
    /\ patches' = Append(patches, [value |-> StatusAsked, at |-> "sent"])
    /\ asked' = StatusAsked
    /\ lostStatus' = {}
    /\ UNCHANGED <<stored, present, survey, known, asking, reply, surveyTitle,
                   titleSaveTimer, titlePuts, typed, lostTitle, wrong, passed>>

\* update_status() of either backend.
StatusServed(i) ==
    /\ i \in DOMAIN patches /\ patches[i].at = "sent"
    /\ stored' = [stored EXCEPT !.status = patches[i].value, !.updated_at = @ + 1]
    /\ patches' = [patches EXCEPT ![i].at = "ok"]
    /\ lostStatus' = IF Behind(patches, i) = {} THEN lostStatus
                     ELSE lostStatus \cup {"overtaken"}
    /\ UNCHANGED <<present, survey, known, asking, reply, surveyTitle, titleSaveTimer,
                   titlePuts, spent, typed, asked, lostTitle, wrong, passed>>

\* Go's UPDATE fails and is left out, as above.
StatusSkips(i) ==
    /\ Spend
    /\ i \in DOMAIN patches /\ patches[i].at = "sent"
    /\ patches' = [patches EXCEPT ![i].at = "ok"]
    /\ lostStatus' = lostStatus \cup {"unstored"}
    /\ UNCHANGED <<stored, present, survey, known, asking, reply, surveyTitle,
                   titleSaveTimer, titlePuts, typed, asked, lostTitle, wrong, passed>>

StatusLost(i) ==
    /\ Spend
    /\ i \in DOMAIN patches /\ patches[i].at = "sent"
    /\ patches' = [patches EXCEPT ![i].at = "error"]
    /\ lostStatus' = lostStatus \cup {"failed"}
    /\ UNCHANGED <<stored, present, survey, known, asking, reply, surveyTitle,
                   titleSaveTimer, titlePuts, typed, asked, lostTitle, wrong, passed>>

StatusAnswered(i) ==
    /\ i \in DOMAIN patches /\ patches[i].at # "sent"
    /\ patches' = Without(patches, i)
    /\ Ended(patches[i])
    /\ UNCHANGED <<stored, present, survey, known, reply, surveyTitle, titleSaveTimer,
                   titlePuts, spent, typed, asked, lostTitle, lostStatus>>

-----------------------------------------------------------------------------

LeaveHeader ==
    /\ present = "open" /\ present' = "left"
    /\ UNCHANGED <<stored, survey, known, asking, reply, surveyTitle, titleSaveTimer,
                   titlePuts, patches, spent, typed, asked, lostTitle, lostStatus,
                   wrong, passed>>

\* Back once the timer has fired: the title known is shown.  It is asked for
\* again when it is old or a mutation has ended; here always.
ReturnToHeader ==
    /\ present = "left" /\ present' = "open" /\ Spend
    /\ ~titleSaveTimer
    /\ surveyTitle' = IF known THEN survey.title ELSE 0
    /\ IF asking = "none" THEN asking' = "sent" /\ passed' = FALSE
       ELSE UNCHANGED <<asking, passed>>
    /\ UNCHANGED <<stored, survey, known, reply, titleSaveTimer, titlePuts, patches,
                   typed, asked, lostTitle, lostStatus, wrong>>

CloseHeader ==
    /\ present # "closed" /\ present' = "closed"
    /\ lostTitle' = IF titleSaveTimer THEN lostTitle \cup {"closed"} ELSE lostTitle
    /\ titleSaveTimer' = FALSE
    /\ asking' = "none" /\ reply' = Draft
    /\ survey' = Draft /\ known' = FALSE /\ surveyTitle' = 0
    /\ UNCHANGED <<stored, titlePuts, patches, spent, typed, asked, lostStatus, wrong,
                   passed>>

HeaderNext ==
    \/ AskServed \/ AskAnswered \/ AskFails \/ AskOnFocus
    \/ ChangeTitle \/ TitleTimer \/ ToggleStatus
    \/ \E i \in DOMAIN titlePuts :
          TitleServed(i) \/ TitleSkips(i) \/ TitleLost(i) \/ TitleAnswered(i)
    \/ \E i \in DOMAIN patches :
          StatusServed(i) \/ StatusSkips(i) \/ StatusLost(i) \/ StatusAnswered(i)
    \/ LeaveHeader \/ ReturnToHeader \/ CloseHeader

-----------------------------------------------------------------------------

HeaderQuiet == ~titleSaveTimer /\ titlePuts = <<>> /\ patches = <<>>

\* With nothing under way the title last typed and the status last asked for are
\* stored, or one of these has come between: a survey that arrived before the
\* timer fired put its own title into the input ("reset"), two calls were served
\* in the other order ("overtaken"), the call was lost ("failed"), Go answered it
\* without its UPDATE ("unstored"), the browser was closed within the second
\* ("closed").
HeaderLossExplained ==
    HeaderQuiet =>
        /\ stored.title # typed => lostTitle # {}
        /\ stored.status # asked => lostStatus # {}

\* With nothing under way and no error the page shows the title and the status
\* that are stored, whatever was lost on the way: the user can see it -- but for a
\* title that Go did not store, which stays in the input: the survey that is asked
\* for again is the one the page has.
HeaderShowsStored ==
    HeaderQuiet /\ present = "open" /\ asking = "none" /\ known /\ ~wrong /\ ~passed =>
        survey = stored /\ (surveyTitle = stored.title \/ "unstored" \in lostTitle)

\* The title and the status: stored as asked for, and shown as stored.
HeaderIsTrue == HeaderLossExplained /\ HeaderShowsStored
=============================================================================
