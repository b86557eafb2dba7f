----------------------------- MODULE SurveyStore -----------------------------
(***************************************************************************)
(* The surveys of an organization, the questions of its first survey and   *)
(* the versions of it, as the handlers of either backend write them.  No   *)
(* handler uses a transaction: each is a series of statements, between     *)
(* which those of other requests come, and of which one may fail.  When it *)
(* does FastAPI answers 500; Go goes on with what the statement would have *)
(* filled still zero, but for the INSERTs whose error it looks at.         *)
(* That the survey is there is looked up with the statement after it.      *)
(*                                                                         *)
(* What may be wrong with a row has a named cause: another request came    *)
(* between two statements ("raced"), Go went on without a statement of the *)
(* request itself ("failed"), several statements were not all carried out  *)
(* ("unfinished"), or a duplicate asked for no plan ("copy").              *)
(***************************************************************************)
EXTENDS Naturals, Sequences, FiniteSets, Functions

CONSTANTS
    Requests,    \* under way together
    PlanMax,     \* surveys of the plan
    MaxRequests, \* bound
    MaxFailures, \* bound: statements that fail
    NoRequest

ASSUME StoreAssumption ==
    /\ PlanMax \in Nat \ {0} /\ MaxRequests \in Nat /\ MaxFailures \in Nat
    /\ NoRequest \notin Requests

VARIABLES
    server,        \* "fastapi" or "go"
    surveyRows,    \* each survey, and history: why the plan may not allow it
    questionRows,  \* survey and order_index of each question
    title,         \* of survey 1
    versions,      \* snapshots of its title, oldest first
    requests,
    ids,           \* given out so far
    asked,         \* requests so far
    failures,
    tied,          \* history: why two questions may share a place
    outdated       \* history: why the last version may not be the survey

tableVars == <<surveyRows, questionRows, title, versions>>
storeVars == <<server, tableVars, requests, ids, asked, failures, tied, outdated>>

Jobs == {"create", "copy", "question", "reorder", "remove", "drop", "update"}
Request == [job : Jobs, at : {"begin", "checked", "placing", "written", "read"},
            id : Nat,            \* its survey or question, its title
            list : Seq(Nat),     \* questions, or places
            n : Nat,             \* place, index or version
            doubts : SUBSET {"raced", "failed"}]   \* history: why what it has read
                                                   \* may be wrong
Causes == {"raced", "failed", "unfinished"}

\* Every variable has its type.
StoreTypeOK ==
    /\ server \in {"fastapi", "go"}
    /\ DOMAIN surveyRows \subseteq Nat
    /\ \A s \in DOMAIN surveyRows : surveyRows[s] \subseteq {"copy", "raced", "failed"}
    /\ DOMAIN questionRows \subseteq Nat
    /\ \A q \in DOMAIN questionRows : questionRows[q] \in [survey : Nat, place : Nat]
    /\ title \in Nat /\ versions \in Seq(Nat)
    /\ requests \in [Requests -> Request \cup {NoRequest}]
    /\ ids \in Nat /\ asked \in 0..MaxRequests /\ failures \in 0..MaxFailures
    /\ tied \subseteq Causes /\ outdated \subseteq Causes

\* One survey with two questions.
StoreInit ==
    /\ server \in {"fastapi", "go"}
    /\ surveyRows = [s \in {1} |-> {}]
    /\ questionRows = [q \in {1, 2} |-> [survey |-> 1, place |-> q - 1]]
    /\ title = 0 /\ versions = <<>>
    /\ requests = [r \in Requests |-> NoRequest]
    /\ ids = 2 /\ asked = 0 /\ failures = 0
    /\ tied = {} /\ outdated = {}

-----------------------------------------------------------------------------
(* Requests.                                                               *)

With(table, id, value) == [i \in DOMAIN table \cup {id} |-> IF i = id THEN value ELSE table[i]]
Less(table, id) == [i \in DOMAIN table \ {id} |-> table[i]]

QuestionsOf(survey) == {q \in DOMAIN questionRows : questionRows[q].survey = survey}
Exists == 1 \in DOMAIN surveyRows

Is(r, job, at) ==
    requests[r] # NoRequest /\ requests[r].job = job /\ requests[r].at = at

Doubting(q, cause) == [q EXCEPT !.doubts = q.doubts \cup {cause}]

\* A step that reads, and one that writes what other requests work on.
Reads(r, next) == requests' = [requests EXCEPT ![r] = next]
Writes(r, next, jobs) ==
    requests' = [o \in Requests |->
        IF o = r THEN next
        ELSE IF requests[o] # NoRequest /\ requests[o].job \in jobs
        THEN Doubting(requests[o], "raced") ELSE requests[o]]

AboutSurveys == {"create"}
AboutQuestions == {"question", "reorder", "remove", "copy"}

\* The ids of a reorder are those of the questions, in any order; every title is new.
Ask(r, job) ==
    /\ requests[r] = NoRequest /\ asked < MaxRequests
    /\ asked' = asked + 1
    /\ \E list \in IF job = "reorder"
                      THEN {f \in [1..Cardinality(QuestionsOf(1)) -> QuestionsOf(1)] :
                               IsInjective(f)}
                      ELSE {<<>>} :
          Reads(r, [job |-> job, at |-> "begin", list |-> list, n |-> 0, doubts |-> {},
                    id |-> IF job = "update" THEN asked' ELSE 0])
    /\ UNCHANGED <<server, tableVars, ids, failures, tied, outdated>>

\* Mutant: the limit is passed by one.
CheckLimitLate(r) ==
    /\ Is(r, "create", "begin")
    /\ Reads(r, IF Cardinality(DOMAIN surveyRows) > PlanMax THEN NoRequest
                ELSE [requests[r] EXCEPT !.at = "checked"])
    /\ UNCHANGED <<server, tableVars, ids, asked, failures, tied, outdated>>

\* create_survey: the plan ...
CheckLimit(r) ==
    /\ Is(r, "create", "begin")
    /\ Reads(r, IF Cardinality(DOMAIN surveyRows) >= PlanMax THEN NoRequest
                ELSE [requests[r] EXCEPT !.at = "checked"])
    /\ UNCHANGED <<server, tableVars, ids, asked, failures, tied, outdated>>

\* ... and the row.
InsertSurvey(r) ==
    /\ Is(r, "create", "checked")
    /\ ids' = ids + 1
    /\ surveyRows' = With(surveyRows, ids', requests[r].doubts)
    /\ Writes(r, NoRequest, AboutSurveys)
    /\ UNCHANGED <<server, questionRows, title, versions, asked, failures, tied, outdated>>

\* duplicate_survey, which asks for no plan: the survey is read, ...
ReadOriginal(r) ==
    /\ Is(r, "copy", "begin")
    /\ Reads(r, IF Exists THEN [requests[r] EXCEPT !.at = "checked"] ELSE NoRequest)
    /\ UNCHANGED <<server, tableVars, ids, asked, failures, tied, outdated>>

\* ... another is inserted ...
InsertCopy(r) ==
    /\ Is(r, "copy", "checked")
    /\ ids' = ids + 1
    /\ surveyRows' = With(surveyRows, ids', {"copy"})
    /\ Writes(r, [requests[r] EXCEPT !.at = "read", !.id = ids'], AboutSurveys)
    /\ UNCHANGED <<server, questionRows, title, versions, asked, failures, tied, outdated>>

\* ... the questions are read ...
ReadQuestions(r) ==
    /\ Is(r, "copy", "read")
    /\ LET places == [q \in QuestionsOf(1) |-> questionRows[q].place]
       IN \E list \in [1..Cardinality(QuestionsOf(1)) -> QuestionsOf(1)] :
             /\ IsInjective(list)
             /\ \A i, j \in DOMAIN list : i < j => places[list[i]] <= places[list[j]]
             /\ Reads(r, IF list = <<>> THEN NoRequest
                         ELSE [requests[r] EXCEPT !.at = "placing",
                                  !.list = [i \in DOMAIN list |-> places[list[i]]]])
    /\ UNCHANGED <<server, tableVars, ids, asked, failures, tied, outdated>>

\* ... and inserted, each with the place it had.
InsertQuestionCopy(r) ==
    /\ Is(r, "copy", "placing")
    /\ ids' = ids + 1
    /\ questionRows' = With(questionRows, ids',
                            [survey |-> requests[r].id, place |-> Head(requests[r].list)])
    /\ Reads(r, IF Len(requests[r].list) = 1 THEN NoRequest
                ELSE [requests[r] EXCEPT !.list = Tail(@)])
    /\ UNCHANGED <<server, surveyRows, title, versions, asked, failures, tied, outdated>>

\* create_question: MAX(order_index) + 1, or 0 ...
NextPlace(r) ==
    /\ Is(r, "question", "begin")
    /\ LET places == {questionRows[q].place : q \in QuestionsOf(1)}
       IN Reads(r, IF ~Exists THEN NoRequest
                   ELSE [requests[r] EXCEPT !.at = "checked",
                            !.n = IF places = {} THEN 0
                                  ELSE 1 + CHOOSE p \in places : \A o \in places : o <= p])
    /\ UNCHANGED <<server, tableVars, ids, asked, failures, tied, outdated>>

\* ... and the row.
InsertQuestion(r) ==
    /\ Is(r, "question", "checked")
    /\ ids' = ids + 1
    /\ questionRows' = With(questionRows, ids', [survey |-> 1, place |-> requests[r].n])
    /\ tied' = tied \cup requests[r].doubts
    /\ Writes(r, NoRequest, AboutQuestions)
    /\ UNCHANGED <<server, surveyRows, title, versions, asked, failures, outdated>>

\* reorder_questions, a question at a time.
BeginReorder(r) ==
    /\ Is(r, "reorder", "begin")
    /\ Reads(r, IF Exists /\ requests[r].list # <<>>
                   THEN [requests[r] EXCEPT !.at = "placing", !.n = 0] ELSE NoRequest)
    /\ UNCHANGED <<server, tableVars, ids, asked, failures, tied, outdated>>

\* Mutant: range(1, len(ids)), the last place is given twice.
PlacedOneLate(r) ==
    LET q == Head(requests[r].list)
    IN IF q \in DOMAIN questionRows
          THEN [questionRows EXCEPT ![q].place =
                   IF requests[r].n = 0 THEN 1 ELSE requests[r].n]
          ELSE questionRows

\* UPDATE ... WHERE id = :id, without effect when the question is gone.
Placed(r) ==
    LET q == Head(requests[r].list)
    IN IF q \in DOMAIN questionRows
          THEN [questionRows EXCEPT ![q].place = requests[r].n] ELSE questionRows

PlaceQuestion(r) ==
    /\ Is(r, "reorder", "placing")
    /\ questionRows' = Placed(r)
    /\ LET last == Len(requests[r].list) = 1
       IN /\ tied' = IF last /\ requests[r].doubts = {} THEN {}
                     ELSE tied \cup requests[r].doubts \cup {"unfinished"}
          /\ Writes(r, IF last THEN NoRequest
                       ELSE [requests[r] EXCEPT !.list = Tail(@), !.n = @ + 1],
                    AboutQuestions)
    /\ UNCHANGED <<server, surveyRows, title, versions, ids, asked, failures, outdated>>

\* delete_question.
RemoveQuestion(r) ==
    /\ Is(r, "remove", "begin")
    /\ \/ /\ Exists
          /\ \E q \in QuestionsOf(1) : questionRows' = Less(questionRows, q)
          /\ Writes(r, NoRequest, AboutQuestions)
       \/ ~Exists /\ Reads(r, NoRequest) /\ UNCHANGED questionRows
    /\ UNCHANGED <<server, surveyRows, title, versions, ids, asked, failures, tied,
                   outdated>>

\* delete_survey; the questions stay.
DropSurvey(r) ==
    /\ Is(r, "drop", "begin")
    /\ \E s \in DOMAIN surveyRows : surveyRows' = Less(surveyRows, s)
    /\ Writes(r, NoRequest, Jobs)
    /\ UNCHANGED <<server, questionRows, title, versions, ids, asked, failures, tied,
                   outdated>>

\* update_survey: the row, whose version is made next, ...
UpdateTitle(r) ==
    /\ Is(r, "update", "begin")
    /\ \/ /\ Exists
          /\ title' = requests[r].id
          /\ outdated' = outdated \cup {"unfinished"}
          /\ Writes(r, [requests[r] EXCEPT !.at = "written"], {"update"})
       \/ ~Exists /\ Reads(r, NoRequest) /\ UNCHANGED <<title, outdated>>
    /\ UNCHANGED <<server, surveyRows, questionRows, versions, ids, asked, failures, tied>>

\* ... what it is now -- whose dates FastAPI cannot turn into JSON -- ...
ReadSurvey(r) ==
    /\ Is(r, "update", "written")
    /\ Reads(r, IF server = "fastapi" THEN NoRequest
                ELSE [requests[r] EXCEPT !.at = "read", !.id = IF Exists THEN title ELSE 0])
    /\ UNCHANGED <<server, tableVars, ids, asked, failures, tied, outdated>>

\* ... the last version ...
ReadVersion(r) ==
    /\ Is(r, "update", "read")
    /\ Reads(r, [requests[r] EXCEPT !.at = "checked", !.n = Len(versions) + 1])
    /\ UNCHANGED <<server, tableVars, ids, asked, failures, tied, outdated>>

\* ... and the next, unless another request has made it: uq_survey_ver.
InsertVersion(r) ==
    /\ Is(r, "update", "checked")
    /\ versions' = IF requests[r].n = Len(versions) + 1 THEN Append(versions, requests[r].id)
                   ELSE versions
    /\ outdated' = IF requests[r].doubts = {} THEN {}
                   ELSE outdated \cup requests[r].doubts
    /\ Writes(r, NoRequest, {"update"})
    /\ UNCHANGED <<server, surveyRows, questionRows, title, ids, asked, failures, tied>>

-----------------------------------------------------------------------------
(* A statement fails.                                                      *)

Failing == failures < MaxFailures /\ failures' = failures + 1

\* FastAPI, and the INSERTs of Go that are looked at; at the beginning what fails in
\* Go is the statement that looks the survey or the plan up, or the DELETE: the
\* request ends.
FailEnds(r) ==
    /\ Failing
    /\ requests[r] # NoRequest
    /\ server = "go" => Is(r, "create", "checked") \/ Is(r, "question", "checked")
                        \/ requests[r].at = "begin"
    /\ Reads(r, NoRequest)
    /\ UNCHANGED <<server, tableVars, ids, asked, tied, outdated>>

\* Go: the statement is left out, what it would have read is zero.  The request goes
\* on, though no other has come between: a count of 0 is under every limit, a place
\* of 0 in front, a version 1 there already; the UPDATE of a title is just missing,
\* and its version made of the title there is.
FailSkips(r) ==
    /\ Failing /\ server = "go" /\ requests[r] # NoRequest
    /\ LET q == Doubting(requests[r], "failed")
       IN \/ Is(r, "create", "begin") /\ Reads(r, [q EXCEPT !.at = "checked"])
          \/ Is(r, "copy", "checked") /\ Reads(r, [q EXCEPT !.at = "read", !.id = ids + 1])
          \/ Is(r, "copy", "read") /\ Reads(r, NoRequest)
          \/ Is(r, "question", "begin") /\ Exists
                /\ Reads(r, [q EXCEPT !.at = "checked", !.n = 0])
          \/ requests[r].at = "placing"
                /\ Reads(r, IF Len(q.list) = 1 THEN NoRequest
                            ELSE [q EXCEPT !.list = Tail(@), !.n = @ + 1])
          \/ Is(r, "update", "begin") /\ Exists
                /\ Reads(r, [requests[r] EXCEPT !.at = "written"])
          \/ Is(r, "update", "written") /\ Reads(r, [q EXCEPT !.at = "read", !.id = 0])
          \/ Is(r, "update", "read") /\ Reads(r, [q EXCEPT !.at = "checked", !.n = 1])
          \/ Is(r, "update", "checked") /\ Reads(r, NoRequest)
    /\ ids' = IF Is(r, "copy", "checked") THEN ids + 1 ELSE ids
    /\ tied' = IF Is(r, "reorder", "placing") THEN tied \cup {"failed"} ELSE tied
    /\ UNCHANGED <<server, tableVars, asked, outdated>>

Handler(r) ==
    \/ \E job \in Jobs : Ask(r, job)
    \/ CheckLimit(r) \/ InsertSurvey(r)
    \/ ReadOriginal(r) \/ InsertCopy(r) \/ ReadQuestions(r) \/ InsertQuestionCopy(r)
    \/ NextPlace(r) \/ InsertQuestion(r)
    \/ BeginReorder(r) \/ PlaceQuestion(r) \/ RemoveQuestion(r) \/ DropSurvey(r)
    \/ UpdateTitle(r) \/ ReadSurvey(r) \/ ReadVersion(r) \/ InsertVersion(r)
    \/ FailEnds(r) \/ FailSkips(r)

StoreNext == \E r \in Requests : Handler(r)

StoreSpec == StoreInit /\ [][StoreNext]_storeVars

-----------------------------------------------------------------------------

\* A statement has failed that the backend did not look at.
Unseen == server = "go" /\ failures > 0

\* The rows over the limit are those with a named cause.
LimitExplained ==
    Cardinality(DOMAIN surveyRows) <=
       PlanMax + Cardinality({s \in DOMAIN surveyRows : surveyRows[s] # {}})

\* "Enforce plan limit": the organization has more surveys than its plan allows
\* only by copies, by surveys counted before another INSERT, and, in Go alone, by
\* those whose COUNT failed and was taken for 0.
LimitHolds ==
    /\ LimitExplained
    /\ \A s \in DOMAIN surveyRows : "failed" \in surveyRows[s] => Unseen

\* No two questions share a place, whatever is added, removed and moved, unless a
\* place was read before another request wrote ("raced"), was not read at all
\* ("failed"), or a reorder was disturbed, cut short, or left a question out --
\* until a reorder that is none of these.
PlacesDiffer ==
    tied # {} \/ \A p, q \in QuestionsOf(1) :
                    p # q => questionRows[p].place # questionRows[q].place

\* "Snapshot version": the last version is the survey as it is stored, once an
\* update has gone through that no other came between ("raced") and that has read
\* the survey and the number of its version ("failed").
VersionIsCurrent ==
    outdated # {} \/ versions = <<>> \/ ~Exists \/ versions[Len(versions)] = title

\* The rows agree with each other whatever requests come between statements, and only
\* in Go do they fail to because a statement of the request itself was left out.
RowsAgree ==
    /\ PlacesDiffer /\ VersionIsCurrent
    /\ "failed" \in tied \cup outdated => Unseen
=============================================================================
