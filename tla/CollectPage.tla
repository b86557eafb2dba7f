---------------------------- MODULE CollectPage ----------------------------
(***************************************************************************)
(* CollectPage.tsx: the page on which a respondent answers a survey, with  *)
(* the API behind it.                                                      *)
(*                                                                         *)
(* The page is one thread: an action is an event handler, a timer that     *)
(* fires, or what an async function runs between two awaits, with the      *)
(* render that follows.  What a handler knows of the state is what the     *)
(* render it belongs to knew, so a timer acts on the state of the time at  *)
(* which it was set.  Kinds of questions stand for the types of the survey *)
(* that behave alike; '' and null are both None.  Headings, which answer   *)
(* themselves when shown, are left out.                                    *)
(***************************************************************************)
EXTENDS CollectApi, Sequences

CONSTANTS
    Surveys,    \* surveys shown: a kind and whether required, for each question
    MaxTimers   \* bound: how many choices wait to move on

Kinds == {"text", "choice", "location", "audio", "image"}

ASSUME PageAssumption ==
    /\ Surveys \subseteq [Questions -> [kind : Kinds, required : BOOLEAN]]
    /\ MaxTimers \in Nat

VARIABLES
    survey,      \* the survey on the page
    open,        \* whether the page is there
    step,        \* 0 is the intro, above Total the thanks
    answers,     \* what has been answered
    sid,         \* sessionId
    submitting,  \* the button says so
    timers,      \* choices that will move on, each with the state it knows
    capturing,   \* questions for which a location or a recording is under way
    snapshot,    \* answers each submission sends
    late         \* history: submissions that began with the session completed

pageVars == <<survey, open, step, answers, sid, submitting, timers, capturing,
              snapshot, late>>

vars == <<apiVars, pageVars>>

Answers == [Questions -> Values \cup {None}]

\* What a render closes over.
Render == [step : Questions, sid : Starts \cup {None}, answers : Answers]

Underway(m) == at[m] \notin {"new", "done"}

TypeOK ==
    /\ ApiTypeOK
    /\ survey \in Surveys
    /\ open \in BOOLEAN
    /\ step \in Nat
    /\ answers \in Answers
    /\ sid \in Starts \cup {None}
    /\ submitting \in BOOLEAN
    /\ timers \in Seq(Render)
    /\ Len(timers) <= MaxTimers
    /\ capturing \subseteq Questions
    /\ snapshot \in [Submits -> Answers]
    /\ late \subseteq Submits

Init ==
    /\ ApiInit
    /\ survey \in Surveys
    /\ open = TRUE
    /\ step = 0
    /\ answers = [q \in Questions |-> None]
    /\ sid = None
    /\ submitting = FALSE
    /\ timers = <<>>
    /\ capturing = {}
    /\ snapshot = [m \in Submits |-> [q \in Questions |-> None]]
    /\ late = {}

-----------------------------------------------------------------------------
(* Before the first question.                                              *)

\* handleStart(), up to its await.  The button stays: it may be hit again.
ClickBegin(s) ==
    /\ open /\ step = 0
    /\ at[s] = "new"
    /\ Send(s, Call("session", None, 0, None))
    /\ UNCHANGED <<backend, session, response, attached, missed, faults, pageVars>>

\* The rest of handleStart(), wherever the page is by now.
Begun(s) ==
    /\ open
    /\ at[s] \in Replies
    /\ sid' = IF at[s] = "ok" THEN s ELSE None
    /\ step' = 1
    /\ at' = [at EXCEPT ![s] = "done"]
    /\ UNCHANGED <<backend, session, response, attached, req, missed, faults,
                   survey, open, answers, submitting, timers, capturing,
                   snapshot, late>>

-----------------------------------------------------------------------------
(* Answering.                                                              *)

\* The kind of the question on the page.
Shows(kind) == step \in Questions /\ survey[step].kind = kind

CanProceed ==
    ~submitting /\ (survey[step].required => answers[step] # None)

Answer(q, v) == answers' = [answers EXCEPT ![q] = v]

\* A text is changed, an image taken or removed, a location or recording removed.
Edit(v) ==
    /\ open
    /\ \/ Shows("text") \/ Shows("image")
       \/ Shows("location") /\ v = None
       \/ Shows("audio") /\ v = None
    /\ Answer(step, v)
    /\ UNCHANGED <<apiVars, survey, open, step, sid, submitting, timers,
                   capturing, snapshot, late>>

\* A choice is clicked: 120 ms later onCommit() of the render clicked on is
\* called, if that render had one.
Choose(v) ==
    /\ open /\ Shows("choice")
    /\ Answer(step, v)
    /\ IF CanProceed
          THEN /\ Len(timers) < MaxTimers
               /\ timers' = Append(timers, [step |-> step, sid |-> sid,
                                            answers |-> answers])
          ELSE UNCHANGED timers
    /\ UNCHANGED <<apiVars, survey, open, step, sid, submitting, capturing,
                   snapshot, late>>

\* capture() of a location, start() of a recording.
Capture ==
    /\ open
    /\ Shows("location") \/ Shows("audio")
    /\ capturing' = capturing \cup {step}
    /\ UNCHANGED <<apiVars, survey, open, step, answers, sid, submitting, timers,
                   snapshot, late>>

\* finish() of a location, onstop() of a recording, wherever the page is by now;
\* or nothing comes of it: no sample, a recorder left running.
Captured(q) ==
    /\ open /\ q \in capturing
    /\ capturing' = capturing \ {q}
    /\ (\E v \in Values : Answer(q, v)) \/ UNCHANGED answers
    /\ UNCHANGED <<apiVars, survey, open, step, sid, submitting, timers, snapshot,
                   late>>

\* back(), which works during a submission too.
Back ==
    /\ open /\ step \in Questions
    /\ step' = step - 1
    /\ UNCHANGED <<apiVars, survey, open, answers, sid, submitting, timers,
                   capturing, snapshot, late>>

-----------------------------------------------------------------------------
(* Submitting.                                                             *)

\* Mutant: the loop leaves out every other question.
FollowingSkips(as, q) == {p \in Questions : p > q + 1 /\ as[p] # None}

\* Mutant: the loop does not pass over questions without an answer.
FollowingAll(as, q) == {p \in Questions : p > q}

\* The questions the loop has yet to send after q.
Following(as, q) == {p \in Questions : p > q /\ as[p] # None}

\* The next call of the loop of next(), or the one after it.
CallAfter(s, as, q) ==
    IF Following(as, q) = {} THEN Call("complete", s, 0, None)
    ELSE LET p == CHOOSE p \in Following(as, q) : \A o \in Following(as, q) : p <= o
         IN Call("response", s, p, as[p])

\* Mutant: the loop is started and not awaited.
BeginSubmissionUnawaited(m, r) ==
    /\ at[m] = "new"
    /\ Send(m, CallAfter(r.sid, r.answers, 0))
    /\ snapshot' = [snapshot EXCEPT ![m] = r.answers]
    /\ late' = IF session[r.sid] = "COMPLETED" THEN late \cup {m} ELSE late
    /\ submitting' = TRUE
    /\ step' = step + 1

BeginSubmission(m, r) ==
    /\ at[m] = "new"
    /\ Send(m, CallAfter(r.sid, r.answers, 0))
    /\ snapshot' = [snapshot EXCEPT ![m] = r.answers]
    /\ late' = IF session[r.sid] = "COMPLETED" THEN late \cup {m} ELSE late
    /\ submitting' = TRUE
    /\ UNCHANGED step

\* next() of render r, up to its first await.  Without a session nothing is
\* sent and setSubmitting(false) follows at once.
MoveOn(m, r) ==
    IF r.step = Total /\ r.sid # None
       THEN BeginSubmission(m, r)
       ELSE /\ step' = step + 1
            /\ submitting' = IF r.step = Total THEN FALSE ELSE submitting
            /\ UNCHANGED <<snapshot, late, req, at>>

\* The button, or the Enter key.
Proceed(m) ==
    /\ open /\ step \in Questions /\ CanProceed
    /\ MoveOn(m, [step |-> step, sid |-> sid, answers |-> answers])
    /\ UNCHANGED <<backend, session, response, attached, missed, faults, survey,
                   open, answers, sid, timers, capturing>>

\* The timer of a choice.
Commit(m, i) ==
    /\ open /\ i \in DOMAIN timers
    /\ MoveOn(m, timers[i])
    /\ timers' = SubSeq(timers, 1, i - 1) \o SubSeq(timers, i + 1, Len(timers))
    /\ UNCHANGED <<backend, session, response, attached, missed, faults, survey,
                   open, answers, sid, capturing>>

\* submitResponse(), uploadAudio() and uploadImage() within the loop: what is
\* called when a call has been answered or not.
Continuation(m) ==
    LET c == req[m] IN
    IF c.op = "response" /\ at[m] = "ok" /\ survey[c.q].kind = "audio"
       THEN Call("slot", c.sid, c.q, c.value)
    ELSE IF c.op = "slot" /\ at[m] = "ok"
       THEN Call("audio", c.sid, c.q, c.value)
    ELSE IF c.op = "response" /\ at[m] = "ok" /\ survey[c.q].kind = "image"
       THEN Call("image", c.sid, c.q, c.value)
    ELSE CallAfter(c.sid, snapshot[m], c.q)

\* Mutant: uploadAudio() throws when it gets no slot.
ContinueThrows(m) ==
    /\ open
    /\ at[m] \in Replies /\ req[m].op # "complete"
    /\ IF req[m].op = "slot" /\ at[m] # "ok"
          THEN at' = [at EXCEPT ![m] = "done"] /\ UNCHANGED req
          ELSE Send(m, Continuation(m))
    /\ UNCHANGED <<backend, session, response, attached, missed, faults, pageVars>>

Continue(m) ==
    /\ open
    /\ at[m] \in Replies /\ req[m].op # "complete"
    /\ Send(m, Continuation(m))
    /\ UNCHANGED <<backend, session, response, attached, missed, faults, pageVars>>

\* The end of next(), whatever completeSession() came to.
Finish(m) ==
    /\ open
    /\ at[m] \in Replies /\ req[m].op = "complete"
    /\ at' = [at EXCEPT ![m] = "done"]
    /\ submitting' = FALSE
    /\ step' = step + 1
    /\ UNCHANGED <<backend, session, response, attached, req, missed, faults,
                   survey, open, answers, sid, timers, capturing, snapshot, late>>

\* The page is closed, with what it knows; calls on their way are still served.
Close ==
    /\ open
    /\ open' = FALSE
    /\ step' = 0
    /\ answers' = [q \in Questions |-> None]
    /\ sid' = None
    /\ submitting' = FALSE
    /\ timers' = <<>>
    /\ capturing' = {}
    /\ UNCHANGED <<apiVars, survey, snapshot, late>>

-----------------------------------------------------------------------------

Page ==
    \/ \E s \in Starts : ClickBegin(s) \/ Begun(s)
    \/ \E v \in Values \cup {None} : Edit(v)
    \/ \E v \in Values : Choose(v)
    \/ Capture
    \/ \E q \in Questions : Captured(q)
    \/ Back
    \/ \E m \in Submits : \/ Proceed(m)
                          \/ \E i \in DOMAIN timers : Commit(m, i)
                          \/ Continue(m)
                          \/ Finish(m)
    \/ Close

Next == Page \/ \E c \in Callers : Serving(c) /\ UNCHANGED pageVars

Spec == Init /\ [][Next]_vars

-----------------------------------------------------------------------------

\* All that submission m had to send is stored, but for what it missed.  The
\* Go backend keeps no images.
Whole(m) ==
    \A q \in Questions \ missed[m] :
        snapshot[m][q] # None =>
            /\ response[m][q] = snapshot[m][q]
            /\ \/ survey[q].kind = "audio"
               \/ survey[q].kind = "image" /\ backend = "fastapi"
               => attached[m][q] = snapshot[m][q]

\* A session is COMPLETED only after the answers, recordings and images of one
\* whole submission have been sent, each stored unless its own call failed --
\* with submissions that overlap, calls that are refused, and the page left.
CompletedIsWhole ==
    \A s \in Starts : session[s] = "COMPLETED" =>
        \E m \in Submits :
            req[m].sid = s /\ req[m].op = "complete" /\ Whole(m)

\* With the Go backend, going back after a submission and sending again leaves
\* nothing behind: the session is "not found or already completed".
NothingAfterCompletion ==
    backend = "go" =>
        \A m \in late, q \in Questions : response[m][q] = None

\* On a page whose questions do not move on by themselves and with no call
\* failing, the thanks show only when a session is COMPLETED and has all of a
\* submission, however the respondent goes back, begins twice or edits while
\* the answers are sent.
DoneIsRecorded ==
    /\ step > Total
    /\ faults = 0
    /\ \A q \in Questions : survey[q].kind # "choice"
    => \E m \in Submits : /\ at[m] # "new" /\ Whole(m)
                          /\ session[req[m].sid] = "COMPLETED"

\* "Your responses have been recorded": when the thanks show and no call has
\* failed, there is a response for every question that was answered.
DoneMeansRecorded ==
    step > Total /\ faults = 0 =>
        \A q \in Questions : answers[q] # None =>
            \E m \in Submits : response[m][q] # None

\* The button says Submitting only while a submission is on its way: none ends,
\* refused, failed or overtaken by another, and leaves the button so for ever.
SubmittingIsUnderway == submitting => \E m \in Submits : Underway(m)
=============================================================================
