----------------------------- MODULE ReviewPage -----------------------------
(***************************************************************************)
(* The verdicts of a researcher on recordings, one in each survey: on the  *)
(* page of all responses (ResponsesPage.tsx), where the survey is selected,*)
(* and on the tab of the builder (SurveyResponses).  Each keeps its list   *)
(* under a key of its own and asks for it again when a verdict has gone    *)
(* through, which is awaited: until the list is there the buttons are      *)
(* disabled.  A mutation goes on when its page is left; while the page is  *)
(* there it uses the survey that is selected when its answer comes.        *)
(***************************************************************************)
EXTENDS Naturals, FiniteSets

CONSTANTS
    SurveyIds,  \* of one recording each
    Verdicts,   \* slots for the verdicts under way
    MaxMoves,   \* bound: pages visited and surveys selected
    MaxJudged,  \* bound: verdicts
    MaxLost,    \* bound: calls without an answer
    Nowhere

ASSUME ReviewAssumption ==
    /\ MaxMoves \in Nat /\ MaxJudged \in Nat /\ MaxLost \in Nat
    /\ Nowhere \notin Verdicts

VARIABLES
    status,     \* of the recording of each survey, in the database
    view,       \* the list on the screen
    lists,      \* the cache of the queries
    verdicts,   \* the mutations under way
    moves, judgements, lost,
    judged,     \* history: the last verdict on each survey
    muddled     \* history: surveys whose verdict may be another

reviewVars == <<status, view, lists, verdicts, moves, judgements, lost, judged, muddled>>

Pages == {"responses", "survey-responses"}
Keys == [page : Pages, survey : SurveyIds]
Outcomes == {"APPROVED", "REJECTED"}
Statuses == {"SUBMITTED"} \cup Outcomes

\* Why a list may not show what is stored.
Reasons == {"elsewhere", "selected", "passed", "failed"}

List == [data : Statuses \cup {Nowhere}, invalid : BOOLEAN,
         asking : {"none", "sent", "served"}, reply : Statuses \cup {Nowhere},
         own : BOOLEAN,                \* history: asked for by a verdict of this visit
         why : SUBSET Reasons,         \* history: of the data
         late : SUBSET Reasons]        \* history: of the reply

Mutation == [from : Keys, outcome : Outcomes, at : {"sent", "ok", "error", "listing"},
             key : Keys,               \* which it will invalidate
             mine : BOOLEAN,           \* the page that sent it is still there
             blind : BOOLEAN]          \* history: the list may not have been current, or
                                   \* another page gave one before this was answered

ASSUME NowhereAssumption ==
    Nowhere \notin Statuses /\ Nowhere \notin Keys /\ Nowhere \notin Mutation

\* Every variable has its type.
ReviewTypeOK ==
    /\ status \in [SurveyIds -> Statuses]
    /\ view \in Keys \cup {Nowhere}
    /\ lists \in [Keys -> List]
    /\ verdicts \in [Verdicts -> Mutation \cup {Nowhere}]
    /\ moves \in 0..MaxMoves /\ judgements \in 0..MaxJudged /\ lost \in 0..MaxLost
    /\ judged \in [SurveyIds -> Outcomes \cup {Nowhere}]
    /\ muddled \subseteq SurveyIds

ReviewInit ==
    /\ status = [s \in SurveyIds |-> "SUBMITTED"]
    /\ view = Nowhere
    /\ lists = [k \in Keys |-> [data |-> Nowhere, invalid |-> FALSE, asking |-> "none",
                                reply |-> Nowhere, own |-> FALSE, why |-> {}, late |-> {}]]
    /\ verdicts = [v \in Verdicts |-> Nowhere]
    /\ moves = 0 /\ judgements = 0 /\ lost = 0
    /\ judged = [s \in SurveyIds |-> Nowhere]
    /\ muddled = {}

Busy == {v \in Verdicts : verdicts[v] # Nowhere}
About(s) == {v \in Busy : verdicts[v].from.survey = s}

-----------------------------------------------------------------------------
(* The lists.                                                              *)

\* useQuery() with another key: what is not there, or no longer fresh, is asked for.
Shown(table, k) ==
    {[table EXCEPT ![k].asking = IF @ = "none" /\ old THEN "sent" ELSE @] :
        old \in IF table[k].data = Nowhere \/ table[k].invalid THEN {TRUE} ELSE BOOLEAN}

\* Mutant: the tab uses the key of the page.
InvalidatedOnPage(k) == [k EXCEPT !.page = "responses"]

\* What onSuccess() asks for again.
Invalidated(k) == k

\* A mutation without an answer takes over the options of the next render.
Followed(v, k) ==
    IF verdicts[v] # Nowhere /\ verdicts[v].mine /\ verdicts[v].at # "listing"
       THEN [verdicts[v] EXCEPT !.key = Invalidated(k)] ELSE verdicts[v]

\* The select of ResponsesPage.
SelectSurvey(s) ==
    /\ moves < MaxMoves /\ moves' = moves + 1
    /\ view # Nowhere /\ view.page = "responses" /\ view.survey # s
    /\ view' = [view EXCEPT !.survey = s]
    /\ lists' \in Shown(lists, view')
    /\ verdicts' = [v \in Verdicts |-> Followed(v, view')]
    /\ UNCHANGED <<status, judgements, lost, judged, muddled>>

\* A page is left; nothing of it waits for a list any more.
Left(v) ==
    IF verdicts[v] = Nowhere \/ verdicts[v].at = "listing" THEN Nowhere
    ELSE [verdicts[v] EXCEPT !.mine = FALSE]

Visit(k) ==
    /\ moves < MaxMoves /\ moves' = moves + 1
    /\ view # k
    /\ (view # Nowhere /\ k # Nowhere) => k.page # view.page
    /\ view' = k
    /\ LET table == [o \in Keys |-> [lists[o] EXCEPT !.own = FALSE]]
       IN lists' \in IF k = Nowhere THEN {table} ELSE Shown(table, k)
    /\ verdicts' = [v \in Verdicts |-> Left(v)]
    /\ UNCHANGED <<status, judgements, lost, judged, muddled>>

\* The window gets the focus when the list is older than staleTime.
Focus ==
    /\ moves < MaxMoves /\ moves' = moves + 1
    /\ view # Nowhere /\ lists[view].asking = "none"
    /\ lists' = [lists EXCEPT ![view].asking = "sent"]
    /\ UNCHANGED <<status, view, verdicts, judgements, lost, judged, muddled>>

ListServed(k) ==
    /\ lists[k].asking = "sent"
    /\ lists' = [lists EXCEPT ![k].asking = "served", ![k].reply = status[k.survey],
                              ![k].late = {}]
    /\ UNCHANGED <<status, view, verdicts, moves, judgements, lost, judged, muddled>>

\* The mutations that have waited for it are over.
Released(k) ==
    [v \in Verdicts |->
        IF verdicts[v] # Nowhere /\ verdicts[v].at = "listing" /\ verdicts[v].key = k
           THEN Nowhere ELSE verdicts[v]]

ListAnswered(k) ==
    /\ lists[k].asking = "served"
    /\ lists' = [lists EXCEPT ![k].asking = "none", ![k].data = lists[k].reply,
                              ![k].reply = Nowhere, ![k].invalid = FALSE, ![k].own = FALSE,
                              ![k].why = lists[k].late, ![k].late = {}]
    /\ verdicts' = Released(k)
    /\ UNCHANGED <<status, view, moves, judgements, lost, judged, muddled>>

ListFails(k) ==
    /\ lost < MaxLost /\ lost' = lost + 1
    /\ lists[k].asking # "none"
    /\ lists' = [lists EXCEPT ![k].asking = "none", ![k].reply = Nowhere, ![k].own = FALSE,
                              ![k].why = @ \cup {"failed"}, ![k].late = {}]
    /\ verdicts' = Released(k)
    /\ UNCHANGED <<status, view, moves, judgements, judged, muddled>>

-----------------------------------------------------------------------------
(* The verdicts.                                                           *)

\* Mutant: each button looks only at the mutation it starts.
PendingOfKind(outcome) ==
    \E v \in Busy : verdicts[v].mine /\ verdicts[v].outcome = outcome

\* approveMut.isPending || rejectMut.isPending
Pending(outcome) == \E v \in Busy : verdicts[v].mine

Judge(v, outcome) ==
    /\ judgements < MaxJudged /\ judgements' = judgements + 1
    /\ verdicts[v] = Nowhere
    /\ view # Nowhere /\ lists[view].data = "SUBMITTED"
    /\ ~Pending(outcome)
    /\ LET s == view.survey
           strangers == {o \in About(s) : ~verdicts[o].mine}
       IN /\ verdicts' = [o \in Verdicts |->
                IF o \in strangers THEN [verdicts[o] EXCEPT !.blind = TRUE]
                ELSE IF o # v THEN verdicts[o] ELSE
                [from |-> view, outcome |-> outcome, at |-> "sent",
                 key |-> Invalidated(view), mine |-> TRUE,
                 blind |-> \/ lists[view].why # {} \/ strangers # {}
                           \/ lists[view].asking # "none" /\ ~lists[view].own]]
          /\ judged' = [judged EXCEPT ![s] = outcome]
          /\ muddled' = IF strangers # {} THEN muddled \cup {s}
                        ELSE IF About(s) = {} THEN muddled \ {s} ELSE muddled
    /\ UNCHANGED <<status, view, lists, moves, lost>>

\* _review() and review(): whatever the status is.
Review(v) ==
    /\ v \in Busy /\ verdicts[v].at = "sent"
    /\ status' = [status EXCEPT ![verdicts[v].from.survey] = verdicts[v].outcome]
    /\ verdicts' = [verdicts EXCEPT ![v].at = "ok"]
    /\ UNCHANGED <<view, lists, moves, judgements, lost, judged, muddled>>

\* Go answers 200 also when its UPDATE has failed.
ReviewFails(v) ==
    /\ lost < MaxLost /\ lost' = lost + 1
    /\ v \in Busy /\ verdicts[v].at = "sent"
    /\ verdicts' = [verdicts EXCEPT ![v].at = "ok"]
    /\ muddled' = muddled \cup {verdicts[v].from.survey}
    /\ UNCHANGED <<status, view, lists, moves, judgements, judged>>

\* The call, or its answer, is lost.
VerdictLost(v) ==
    /\ lost < MaxLost /\ lost' = lost + 1
    /\ v \in Busy /\ verdicts[v].at \in {"sent", "ok"}
    /\ verdicts' = [verdicts EXCEPT ![v].at = "error"]
    /\ LET s == verdicts[v].from.survey
       IN /\ muddled' = IF verdicts[v].at = "sent" THEN muddled \cup {s} ELSE muddled
          /\ lists' = [k \in Keys |->
                IF k.survey = s
                   THEN [lists[k] EXCEPT !.why = @ \cup {"failed"}, !.late = @ \cup {"failed"}]
                   ELSE lists[k]]
    /\ UNCHANGED <<status, view, moves, judgements, judged>>

\* An error is not shown: the buttons are enabled again.
VerdictRefused(v) ==
    /\ v \in Busy /\ verdicts[v].at = "error"
    /\ verdicts' = [verdicts EXCEPT ![v] = Nowhere]
    /\ UNCHANGED <<status, view, lists, moves, judgements, lost, judged, muddled>>

\* invalidateQueries(): a list on the screen is asked for again, and what was on its
\* way is thrown away; another is marked.
Asks(k) == view = k /\ (lists[k].data # Nowhere \/ lists[k].asking = "none")

Excuse(k, c) ==
    IF k.survey # c.from.survey THEN {}
    ELSE IF k # c.from THEN {"elsewhere"}
    ELSE IF c.key.survey # c.from.survey THEN {"selected"}
    ELSE IF lists[k].asking # "none" THEN {"passed"} ELSE {}

AfterVerdict(k, c) ==
    IF k = c.key /\ Asks(k)
       THEN [lists[k] EXCEPT !.asking = "sent", !.reply = Nowhere, !.own = c.mine,
                             !.late = {}]
       ELSE [lists[k] EXCEPT !.invalid = @ \/ k = c.key, !.why = @ \cup Excuse(k, c),
                             !.late = @ \cup Excuse(k, c)]

\* Mutant: the list is asked for and not awaited.
AwaitedNot(v) ==
    [(IF Asks(verdicts[v].key) THEN Released(verdicts[v].key) ELSE verdicts)
        EXCEPT ![v] = Nowhere]

\* onSuccess() returns what invalidateQueries() promises.
Awaited(v) ==
    LET k == verdicts[v].key
    IN [(IF Asks(k) THEN Released(k) ELSE verdicts)
           EXCEPT ![v] = IF view = k THEN [verdicts[v] EXCEPT !.at = "listing"]
                         ELSE Nowhere]

VerdictAnswered(v) ==
    /\ v \in Busy /\ verdicts[v].at = "ok"
    /\ lists' = [k \in Keys |-> AfterVerdict(k, verdicts[v])]
    /\ verdicts' = Awaited(v)
    /\ UNCHANGED <<status, view, moves, judgements, lost, judged, muddled>>

ReviewNext ==
    \/ \E s \in SurveyIds : SelectSurvey(s)
    \/ \E k \in Keys \cup {Nowhere} : Visit(k)
    \/ Focus
    \/ \E k \in Keys : ListServed(k) \/ ListAnswered(k) \/ ListFails(k)
    \/ \E v \in Verdicts :
          \/ \E outcome \in Outcomes : Judge(v, outcome)
          \/ Review(v) \/ ReviewFails(v) \/ VerdictLost(v) \/ VerdictRefused(v) \/ VerdictAnswered(v)

ReviewSpec == ReviewInit /\ [][ReviewNext]_reviewVars

-----------------------------------------------------------------------------

\* The list on the screen, when nothing about it is under way, shows the verdict
\* that is stored, unless the verdict was given on the other page, another survey
\* was selected before it was answered, its page was left with a list on its way,
\* or a call has failed -- since the list was last asked for.
ShownIsStored ==
    view # Nowhere /\ lists[view].data # Nowhere /\ lists[view].asking = "none"
        /\ About(view.survey) = {}
    => lists[view].data = status[view.survey] \/ lists[view].why # {}

\* The last verdict is the one that is stored, although the server stores them in the
\* order in which they come: the buttons keep a page from sending two, so that only
\* a page that was left, or a call that was lost or failed, makes it another.
LastVerdictStands ==
    \A s \in SurveyIds :
        About(s) = {} /\ judged[s] # Nowhere => status[s] = judged[s] \/ s \in muddled

\* A verdict is overturned only by one that was given with an outdated list on the
\* screen -- for one of the reasons above, or while a list that no verdict of the
\* page has asked for is on its way -- or from another page meanwhile, and never by
\* a second click.
OverturnedBlindly ==
    [][\A s \in SurveyIds : status[s] # "SUBMITTED" /\ status'[s] # status[s] =>
          \E v \in About(s) : verdicts[v].blind /\ verdicts'[v] # verdicts[v]]_reviewVars
=============================================================================
