--------------------------- MODULE QuestionEditor ---------------------------
(***************************************************************************)
(* SurveyBuilderPage.tsx, tab Create: the questions of one survey, the     *)
(* editor of the selected one, and the calls by which what is typed is     *)
(* saved after a pause.                                                    *)
(*                                                                         *)
(* An action is a handler, a timer, the answer to a call, or the server    *)
(* serving one; the effects of the render that follows belong to it        *)
(* (Render).  The text of a question stands for its title, its description *)
(* and its options, which are edited and sent alike: the whole question is *)
(* sent every time.  The list is the query ['questions', id]; a mutation   *)
(* that succeeds asks for it again, and drops an answer still under way.   *)
(***************************************************************************)
EXTENDS Naturals, Sequences, FiniteSets, FiniteSetsExt, SequencesExt

CONSTANTS
    Questions,  \* the ids the server gives out, in this order
    Existing,   \* how many questions the survey has to begin with
    MaxActs,    \* bound: what the user does but for selecting and leaving, and saves
                \* between whose statements others come
    MaxPuts,    \* bound: saves under way together
    MaxFaults,  \* bound: calls, answers or statements lost, each at the cost of an act
    None

ASSUME EditorAssumption ==
    /\ IsFiniteSet(Questions) /\ Questions = 1..Cardinality(Questions)
    /\ Existing \in 0..Cardinality(Questions)
    /\ MaxActs \in Nat /\ MaxPuts \in Nat \ {0} /\ MaxFaults \in Nat

VARIABLES
    rows,       \* questions of the survey in the database
    created,    \* how many questions there have been
    visit,      \* "open", "left" for another page, or "closed" with the browser
    loaded,     \* whether the list has been answered once
    stale,      \* invalidated while no page asked for it
    cache,      \* the list as the page knows it
    fetching,   \* the query: "none", "sent", "served"
    fetched,    \* the answer on its way
    selectedId,
    editingQ,   \* the question in the editor
    pickingType,
    saveState,  \* the indicator
    idleTimers, \* 'saved' that will be taken away
    qSaveTimer, \* the question the pending save will send
    puts,       \* saves under way, in the order sent
    post,       \* the question being added: "none", "sent", "ok", "failed"
    deletes,    \* deletions under way
    acts, faults,
    wanted,     \* history: what the user has made of each question
    excuse,     \* history: why it may not be stored
    refused,    \* history: a save has been answered with an error
    outrun      \* history: what the query will answer was read before a change

serverVars == <<rows, created>>
queryVars == <<loaded, stale, cache, fetching, fetched>>
pageVars == <<selectedId, editingQ, pickingType, saveState, idleTimers, qSaveTimer>>
callVars == <<puts, post, deletes>>
historyVars == <<wanted, excuse, refused, outrun>>
editorVars == <<serverVars, visit, queryVars, pageVars, callVars, acts, faults,
                historyVars>>

Row == [text : 0..MaxActs, required : BOOLEAN]
Fields == {"text", "required"}
Rows == [Questions -> Row \cup {None}]
Edited == [id : Questions, row : Row]
Causes == {"switched", "toggled", "overtaken", "stale", "failed", "unstored", "closed"}
NewRow == [text |-> 0, required |-> FALSE]

\* None is no question, whatever is kept of it.
ASSUME NoneAssumption == None \notin Questions \cup Row \cup Edited

\* Every variable has its type, and no more saves are under way than allowed.
EditorTypeOK ==
    /\ rows \in Rows /\ created \in 0..Cardinality(Questions)
    /\ visit \in {"open", "left", "closed"}
    /\ loaded \in BOOLEAN /\ stale \in BOOLEAN /\ cache \in Rows
    /\ fetching \in {"none", "sent", "served"} /\ fetched \in Rows
    /\ selectedId \in Questions \cup {None}
    /\ editingQ \in Edited \cup {None}
    /\ pickingType \in BOOLEAN
    /\ saveState \in {"idle", "saving", "saved"}
    /\ idleTimers \in Nat
    /\ qSaveTimer \in Edited \cup {None}
    /\ puts \in Seq([id : Questions, row : Row, mine : BOOLEAN,
                     rest : SUBSET Fields, at : {"sent", "ok", "error"}])
    /\ Len(puts) <= MaxPuts
    /\ post \in {"none", "sent", "ok", "failed"}
    /\ deletes \in [Questions -> {"none", "sent", "ok", "failed"}]
    /\ acts \in 0..MaxActs /\ faults \in 0..MaxFaults
    /\ wanted \in Rows
    /\ excuse \in [Questions -> SUBSET Causes]
    /\ refused \in BOOLEAN /\ outrun \in BOOLEAN

EditorInit ==
    /\ rows = [q \in Questions |-> IF q <= Existing THEN NewRow ELSE None]
    /\ created = Existing
    /\ visit = "open"
    /\ loaded = FALSE /\ stale = FALSE
    /\ cache = [q \in Questions |-> None]
    /\ fetching = "sent" /\ fetched = cache
    /\ selectedId = None /\ editingQ = None
    /\ pickingType = FALSE
    /\ saveState = "idle" /\ idleTimers = 0
    /\ qSaveTimer = None
    /\ puts = <<>> /\ post = "none"
    /\ deletes = [q \in Questions |-> "none"]
    /\ acts = 0 /\ faults = 0
    /\ wanted = rows
    /\ excuse = [q \in Questions |-> {}]
    /\ refused = FALSE /\ outrun = FALSE

-----------------------------------------------------------------------------
(* The page renders.                                                       *)

Listed(c) == {q \in Questions : c[q] # None}

\* questions.find(q => q.id === selectedId)
Selected(c, s) == IF s \in Listed(c) THEN s ELSE None

\* The editor in the middle; the settings beside it.
Canvas == ~pickingType /\ Selected(cache, selectedId) # None /\ editingQ # None
Panel == ~pickingType /\ editingQ # None

\* Mutant: the effect runs whenever the selected question is another object.
ReloadedOnData(c, s, chosen, e) ==
    IF Selected(c, s) # None
       THEN [id |-> s, row |-> c[s]]
       ELSE e

\* Mutant: the effect runs when another question is selected, listed or not.
ReloadedOnId(c, s, chosen, e) ==
    IF Selected(c, s) # None /\ s # selectedId
       THEN [id |-> s, row |-> c[s]]
       ELSE e

\* The effect on [selected?.id]: the editor takes the question of the list.
Reloaded(c, s, chosen, e) ==
    IF Selected(c, s) # None /\ (chosen \/ Selected(c, s) # Selected(cache, selectedId))
       THEN [id |-> s, row |-> c[s]]
       ELSE e

\* What a handler leaves behind, and the effects that follow: when the list has
\* another length and nothing is selected, its first question is.
Render(c, s, picking, e) ==
    LET chosen == /\ Cardinality(Listed(c)) # Cardinality(Listed(cache))
                  /\ Listed(c) # {} /\ s = None /\ ~picking
        now == IF chosen THEN Min(Listed(c)) ELSE s
    IN /\ cache' = c
       /\ selectedId' = now
       /\ pickingType' = picking
       /\ editingQ' = Reloaded(c, now, chosen, e)

\* The user does something that counts.
Acting == acts + faults < MaxActs /\ acts' = acts + 1

\* A call or a statement is lost.
Fault ==
    /\ faults < MaxFaults /\ acts + faults < MaxActs
    /\ faults' = faults + 1

\* A click in the list, or on Prev or Next.
Select(q) ==
    /\ visit = "open" /\ q \in Listed(cache)
    /\ pickingType \/ selectedId # q
    /\ Render(cache, q, FALSE, editingQ)
    /\ UNCHANGED <<serverVars, visit, loaded, stale, fetching, fetched, saveState,
                   idleTimers, qSaveTimer, callVars, acts, faults, historyVars>>

\* Add question; of the empty canvas, without giving up the selection.
PickType ==
    /\ visit = "open" /\ ~pickingType
    /\ \/ Render(cache, None, TRUE, editingQ)
       \/ ~Canvas /\ Render(cache, selectedId, TRUE, editingQ)
    /\ UNCHANGED <<serverVars, visit, loaded, stale, fetching, fetched, saveState,
                   idleTimers, qSaveTimer, callVars, acts, faults, historyVars>>

PickBack ==
    /\ visit = "open" /\ pickingType /\ selectedId # None
    /\ Render(cache, selectedId, FALSE, editingQ)
    /\ UNCHANGED <<serverVars, visit, loaded, stale, fetching, fetched, saveState,
                   idleTimers, qSaveTimer, callVars, acts, faults, historyVars>>

-----------------------------------------------------------------------------
(* The query ['questions', id].                                            *)

\* invalidateQueries(): asked again at once if a page shows it, dropping what is
\* under way unless that is the first answer; otherwise when a page does.
Invalidate ==
    IF visit = "open" /\ (loaded \/ fetching = "none")
       THEN fetching' = "sent" /\ outrun' = FALSE /\ UNCHANGED stale
       ELSE /\ stale' = TRUE
            /\ outrun' = (outrun \/ fetching # "none")
            /\ UNCHANGED fetching

\* The window gets the focus when the list is 30 seconds old.
Refocus ==
    /\ visit = "open" /\ Acting /\ fetching = "none"
    /\ fetching' = "sent"
    /\ outrun' = FALSE
    /\ UNCHANGED <<serverVars, visit, loaded, stale, cache, fetched, pageVars,
                   callVars, faults, wanted, excuse, refused>>

FetchServed ==
    /\ fetching = "sent"
    /\ fetching' = "served"
    /\ fetched' = rows
    /\ UNCHANGED <<serverVars, visit, loaded, stale, cache, pageVars, callVars,
                   acts, faults, historyVars>>

FetchAnswered ==
    /\ fetching = "served" /\ visit # "closed"
    /\ fetching' = "none"
    /\ loaded' = TRUE /\ stale' = FALSE
    /\ IF visit = "open"
          THEN Render(fetched, selectedId, pickingType, editingQ)
          ELSE cache' = fetched /\ UNCHANGED <<selectedId, pickingType, editingQ>>
    /\ fetched' = [q \in Questions |-> None]
    /\ UNCHANGED <<serverVars, visit, saveState, idleTimers, qSaveTimer, callVars,
                   acts, faults, historyVars>>

\* The query and its one retry fail.
FetchFails ==
    /\ fetching \in {"sent", "served"} /\ visit # "closed"
    /\ Fault
    /\ fetching' = "none"
    /\ fetched' = [q \in Questions |-> None]
    /\ UNCHANGED <<serverVars, visit, loaded, stale, cache, pageVars, callVars,
                   acts, historyVars>>

-----------------------------------------------------------------------------
(* Editing and saving.                                                     *)

\* Mutant: only what has changed of a question is kept for the save.
ScheduledText(e, v) == [id |-> e.id, row |-> [NewRow EXCEPT !.text = v]]

\* The question as the timer will send it.
Scheduled(e, v) == [id |-> e.id, row |-> [e.row EXCEPT !.text = v]]

\* setQAndSave() with scheduleQSave(): one timer for all questions.
EditText ==
    /\ visit = "open" /\ Panel /\ Acting
    /\ LET q == editingQ.id
           v == acts + 1
           dropped == IF qSaveTimer # None /\ qSaveTimer.id # q
                         THEN {qSaveTimer.id} ELSE {}
           w == [wanted EXCEPT ![q] = IF @ = None THEN None ELSE [@ EXCEPT !.text = v]]
       IN /\ editingQ' = [id |-> q, row |-> [editingQ.row EXCEPT !.text = v]]
          /\ qSaveTimer' = Scheduled(editingQ, v)
          /\ wanted' = w
          /\ excuse' = [p \in Questions |->
                          IF p \in dropped THEN excuse[p] \cup {"switched"}
                          ELSE IF p = q /\ editingQ'.row = w[q] THEN {}
                          ELSE IF p = q THEN excuse[p] \cup {"stale"}
                          ELSE excuse[p]]
    /\ saveState' = "saving"
    /\ UNCHANGED <<serverVars, visit, queryVars, selectedId, pickingType, idleTimers,
                   callVars, faults, refused, outrun>>

Put(e) ==
    /\ Len(puts) < MaxPuts
    /\ puts' = Append(puts, [id |-> e.id, row |-> e.row, mine |-> visit = "open",
                             rest |-> Fields, at |-> "sent"])

\* Sent at once, whatever the timer will send after it.
ToggleRequired ==
    /\ visit = "open" /\ Panel /\ Acting
    /\ LET q == editingQ.id
           new == [editingQ.row EXCEPT !.required = ~@]
           w == [wanted EXCEPT ![q] =
                    IF @ = None THEN None ELSE [@ EXCEPT !.required = new.required]]
       IN /\ editingQ' = [id |-> q, row |-> new]
          /\ Put(editingQ')
          /\ wanted' = w
          /\ excuse' = [excuse EXCEPT ![q] =
                  (IF new = w[q] THEN {} ELSE @ \cup {"stale"})
                  \cup (IF qSaveTimer # None /\ qSaveTimer.id = q
                           THEN {"toggled"} ELSE {})]
    /\ UNCHANGED <<serverVars, visit, queryVars, selectedId, pickingType, saveState,
                   idleTimers, qSaveTimer, post, deletes, faults, refused, outrun>>

\* The 800 ms are over; leaving the page does not stop the timer.
SaveTimer ==
    /\ visit # "closed" /\ qSaveTimer # None
    /\ Put(qSaveTimer)
    /\ qSaveTimer' = None
    /\ UNCHANGED <<serverVars, visit, queryVars, selectedId, editingQ, pickingType,
                   saveState, idleTimers, post, deletes, acts, faults, historyVars>>

\* Field f of the same question is to be stored by a save sent before save i.
Overtaken(i, f) ==
    \E j \in 1..(i - 1) :
        puts[j].id = puts[i].id /\ puts[j].at = "sent" /\ f \in puts[j].rest

Changed(row, new, parts) ==
    [text |-> IF "text" \in parts THEN new.text ELSE row.text,
     required |-> IF "required" \in parts THEN new.required ELSE row.required]

\* Save i is done with these fields, and answered with the last of them.  A question
\* that is gone gets a 404 of FastAPI and an empty 200 of Go.
Carried(i, parts) ==
    LET rest == puts[i].rest \ parts IN
    \E answer \in IF rest # {} THEN {"sent"}
                  ELSE IF rows[puts[i].id] = None THEN {"ok", "error"} ELSE {"ok"} :
        puts' = [puts EXCEPT ![i].rest = rest, ![i].at = answer]

Store(i, parts) ==
    LET q == puts[i].id
    IN /\ rows' = [rows EXCEPT ![q] =
                      IF @ = None THEN None ELSE Changed(@, puts[i].row, parts)]
       /\ excuse' = [excuse EXCEPT ![q] =
                        IF \E f \in parts : Overtaken(i, f) THEN @ \cup {"overtaken"} ELSE @]
       /\ Carried(i, parts)

\* update_question(): FastAPI's UPDATE stores the whole question.
PutServed(i) ==
    /\ i \in DOMAIN puts /\ puts[i].at = "sent"
    /\ Store(i, puts[i].rest)
    /\ UNCHANGED <<created, visit, queryVars, pageVars, post, deletes, acts, faults,
                   wanted, refused, outrun>>

\* Go has an UPDATE for every field, and other calls may be served between them: the
\* text is both the title, stored before the switch Required, and the options, stored
\* after it.
PutBegun(i, f) ==
    /\ i \in DOMAIN puts /\ puts[i].at = "sent" /\ puts[i].rest = Fields
    /\ Acting
    /\ Store(i, {f})
    /\ UNCHANGED <<created, visit, queryVars, pageVars, post, deletes, faults,
                   wanted, refused, outrun>>

\* Go looks at the error of none of them: one that fails is left out, and the save
\* answered as if it had not.
PutSkips(i, f) ==
    /\ i \in DOMAIN puts /\ puts[i].at = "sent" /\ f \in puts[i].rest
    /\ Fault
    /\ excuse' = [excuse EXCEPT ![puts[i].id] = @ \cup {"unstored"}]
    /\ Carried(i, {f})
    /\ UNCHANGED <<serverVars, visit, queryVars, pageVars, post, deletes, acts,
                   wanted, refused, outrun>>

\* The call, with what it has not stored yet, or its answer is lost.
PutLost(i) ==
    /\ i \in DOMAIN puts /\ puts[i].at \in {"sent", "ok"}
    /\ Fault
    /\ puts' = [puts EXCEPT ![i].at = "error"]
    /\ excuse' = IF puts[i].at = "ok" THEN excuse
                 ELSE [excuse EXCEPT ![puts[i].id] = @ \cup {"failed"}]
    /\ UNCHANGED <<serverVars, visit, queryVars, pageVars, post, deletes, acts,
                   wanted, refused, outrun>>

\* onSuccess of updateQ; an error has no handler, and leaves 'saving' behind.
PutAnswered(i) ==
    /\ i \in DOMAIN puts /\ puts[i].at # "sent"
    /\ puts' = SubSeq(puts, 1, i - 1) \o SubSeq(puts, i + 1, Len(puts))
    /\ IF puts[i].at = "ok" /\ visit # "closed"
          THEN /\ Invalidate
               /\ IF puts[i].mine
                     THEN saveState' = "saved" /\ idleTimers' = idleTimers + 1
                     ELSE UNCHANGED <<saveState, idleTimers>>
               /\ UNCHANGED refused
          ELSE /\ refused' = (refused \/ puts[i].at = "error")
               /\ UNCHANGED <<fetching, outrun, stale, saveState, idleTimers>>
    /\ UNCHANGED <<serverVars, visit, loaded, cache, fetched, selectedId, editingQ,
                   pickingType, qSaveTimer, post, deletes, acts, faults, wanted,
                   excuse>>

\* Two seconds after a save, whatever has been typed since.
IdleTimer ==
    /\ idleTimers > 0
    /\ idleTimers' = idleTimers - 1
    /\ saveState' = "idle"
    /\ UNCHANGED <<serverVars, visit, queryVars, selectedId, editingQ, pickingType,
                   qSaveTimer, callVars, acts, faults, historyVars>>

-----------------------------------------------------------------------------
(* Adding and deleting.                                                    *)

\* A tile of the picker, disabled while addQ is pending.
AddQuestion ==
    /\ visit = "open" /\ Acting /\ pickingType
    /\ post = "none" /\ created < Cardinality(Questions)
    /\ post' = "sent"
    /\ UNCHANGED <<serverVars, visit, queryVars, pageVars, puts, deletes, faults,
                   historyVars>>

\* CreateQuestion(): the new question is the last.
AddServed ==
    /\ post = "sent"
    /\ LET q == created + 1 IN
       /\ created' = q
       /\ rows' = [rows EXCEPT ![q] = NewRow]
       /\ wanted' = [wanted EXCEPT ![q] = NewRow]
       /\ \/ post' = "ok" /\ UNCHANGED faults
          \/ post' = "failed" /\ Fault
    /\ UNCHANGED <<visit, queryVars, pageVars, puts, deletes, acts, excuse, refused,
                   outrun>>

AddLost ==
    /\ post = "sent"
    /\ post' = "failed" /\ Fault
    /\ UNCHANGED <<serverVars, visit, queryVars, pageVars, puts, deletes, acts,
                   historyVars>>

\* onSuccess of addQ: the new question is selected before the list has it.
AddAnswered ==
    /\ post \in {"ok", "failed"}
    /\ post' = "none"
    /\ IF post = "ok" /\ visit # "closed"
          THEN /\ Invalidate
               /\ IF visit = "open" THEN Render(cache, created, FALSE, editingQ)
                  ELSE UNCHANGED <<cache, selectedId, pickingType, editingQ>>
          ELSE UNCHANGED <<fetching, outrun, stale, cache, selectedId, pickingType,
                           editingQ>>
    /\ UNCHANGED <<serverVars, visit, loaded, fetched, saveState, idleTimers,
                   qSaveTimer, puts, deletes, acts, faults, wanted, excuse, refused>>

\* The bin of the list, or of the editor, and the confirmation.
DeleteQuestion(q) ==
    /\ visit = "open" /\ Acting /\ q \in Listed(cache) /\ deletes[q] = "none"
    /\ deletes' = [deletes EXCEPT ![q] = "sent"]
    /\ wanted' = [wanted EXCEPT ![q] = None]
    /\ UNCHANGED <<serverVars, visit, queryVars, pageVars, puts, post, faults, excuse,
                   refused, outrun>>

DeleteServed(q) ==
    /\ deletes[q] = "sent"
    /\ rows' = [rows EXCEPT ![q] = None]
    /\ \/ deletes' = [deletes EXCEPT ![q] = "ok"] /\ UNCHANGED faults
       \/ /\ deletes' = [deletes EXCEPT ![q] = "failed"]
          /\ Fault
    /\ UNCHANGED <<created, visit, queryVars, pageVars, puts, post, acts, historyVars>>

DeleteLost(q) ==
    /\ deletes[q] = "sent"
    /\ deletes' = [deletes EXCEPT ![q] = "failed"]
    /\ Fault
    /\ excuse' = [excuse EXCEPT ![q] = @ \cup {"failed"}]
    /\ UNCHANGED <<serverVars, visit, queryVars, pageVars, puts, post, acts, wanted,
                   refused, outrun>>

\* Go's DELETE fails, is not looked at either, and is answered 204.
DeleteSkips(q) ==
    /\ deletes[q] = "sent"
    /\ deletes' = [deletes EXCEPT ![q] = "ok"]
    /\ Fault
    /\ excuse' = [excuse EXCEPT ![q] = @ \cup {"unstored"}]
    /\ UNCHANGED <<serverVars, visit, queryVars, pageVars, puts, post, acts, wanted,
                   refused, outrun>>

\* Mutant: the pending save is dropped too, and the indicator left.
DeleteAnsweredClears(q) ==
    /\ deletes[q] \in {"ok", "failed"}
    /\ deletes' = [deletes EXCEPT ![q] = "none"]
    /\ qSaveTimer' = None
    /\ IF deletes[q] = "ok" /\ visit = "open"
          THEN Invalidate /\ Render(cache, None, pickingType, None)
          ELSE UNCHANGED <<fetching, outrun, stale, cache, selectedId, pickingType,
                           editingQ>>
    /\ UNCHANGED <<serverVars, visit, loaded, fetched, saveState, idleTimers,
                   puts, post, acts, faults, wanted, excuse, refused>>

\* onSuccess of deleteQ: nothing is selected or edited any more, whichever
\* question that was; a pending save stays.
DeleteAnswered(q) ==
    /\ deletes[q] \in {"ok", "failed"}
    /\ deletes' = [deletes EXCEPT ![q] = "none"]
    /\ IF deletes[q] = "ok" /\ visit # "closed"
          THEN /\ Invalidate
               /\ IF visit = "open" THEN Render(cache, None, pickingType, None)
                  ELSE UNCHANGED <<cache, selectedId, pickingType, editingQ>>
          ELSE UNCHANGED <<fetching, outrun, stale, cache, selectedId, pickingType,
                           editingQ>>
    /\ UNCHANGED <<serverVars, visit, loaded, fetched, saveState, idleTimers,
                   qSaveTimer, puts, post, acts, faults, wanted, excuse, refused>>

-----------------------------------------------------------------------------
(* Leaving the page.                                                       *)

Blank ==
    /\ selectedId' = None /\ editingQ' = None /\ pickingType' = FALSE
    /\ saveState' = "idle" /\ idleTimers' = 0

\* To another page of the application: timers run on, answers still count.
Leave ==
    /\ visit = "open" /\ visit' = "left"
    /\ Blank
    /\ puts' = [i \in DOMAIN puts |-> [puts[i] EXCEPT !.mine = FALSE]]
    /\ UNCHANGED <<serverVars, queryVars, qSaveTimer, post, deletes, acts, faults,
                   historyVars>>

\* And back, once the timer has fired and additions and deletions are over: what
\* the list was is shown, and asked for again if invalidated or old.
Return ==
    /\ visit = "left" /\ visit' = "open"
    /\ Acting
    /\ qSaveTimer = None /\ post = "none"
    /\ \A q \in Questions : deletes[q] = "none"
    /\ IF Listed(cache) = {} THEN UNCHANGED <<selectedId, editingQ>>
       ELSE /\ selectedId' = Min(Listed(cache))
            /\ editingQ' = [id |-> selectedId', row |-> cache[selectedId']]
    /\ IF fetching # "none" THEN UNCHANGED <<fetching, outrun>>
       ELSE /\ fetching' \in IF stale \/ ~loaded THEN {"sent"} ELSE {"none", "sent"}
            /\ outrun' = (outrun /\ fetching' = "none")
    /\ UNCHANGED <<serverVars, loaded, stale, cache, fetched, pickingType, saveState,
                   idleTimers, qSaveTimer, callVars, faults, wanted, excuse, refused>>

\* The browser is closed, with what has not been sent.
Close ==
    /\ visit # "closed" /\ visit' = "closed"
    /\ Blank
    /\ qSaveTimer' = None
    /\ excuse' = IF qSaveTimer = None THEN excuse
                 ELSE [excuse EXCEPT ![qSaveTimer.id] = @ \cup {"closed"}]
    /\ loaded' = FALSE /\ stale' = FALSE
    /\ cache' = [q \in Questions |-> None] /\ fetched' = cache'
    /\ fetching' = "none"
    /\ UNCHANGED <<serverVars, callVars, acts, faults, wanted, refused, outrun>>

-----------------------------------------------------------------------------

Calls ==
    \/ FetchServed \/ FetchAnswered \/ AddServed \/ AddAnswered
    \/ \E i \in DOMAIN puts :
          PutServed(i) \/ PutAnswered(i) \/ \E f \in Fields : PutBegun(i, f)
    \/ \E q \in Questions : DeleteServed(q) \/ DeleteAnswered(q)

User ==
    \/ \E q \in Questions : Select(q) \/ DeleteQuestion(q)
    \/ PickType \/ PickBack \/ EditText \/ ToggleRequired \/ AddQuestion
    \/ Refocus \/ Leave \/ Return \/ Close

Faults ==
    \/ FetchFails \/ AddLost
    \/ \E i \in DOMAIN puts : PutLost(i) \/ \E f \in Fields : PutSkips(i, f)
    \/ \E q \in Questions : DeleteLost(q) \/ DeleteSkips(q)

EditorNext == Calls \/ User \/ Faults \/ SaveTimer \/ IdleTimer

\* Timers fire, and saves are served to the end and answered; the user need not do
\* anything.
EditorFairness ==
    /\ WF_editorVars(\E i \in DOMAIN puts : PutServed(i))
    /\ WF_editorVars(\E i \in DOMAIN puts : PutAnswered(i))
    /\ WF_editorVars(SaveTimer)

EditorSpec == EditorInit /\ [][EditorNext]_editorVars /\ EditorFairness

-----------------------------------------------------------------------------

Quiet ==
    /\ qSaveTimer = None /\ puts = <<>> /\ post = "none"
    /\ \A q \in Questions : deletes[q] = "none"

\* What the user has made of a question is what the database holds once nothing
\* is under way, or one of these has come between: an edit of another question
\* took the timer ("switched"), the switch Required was sent before a pending
\* text ("toggled"), two saves stored a field in the other order ("overtaken"), the
\* editor had been filled from a list older than the last edit ("stale"), the call
\* was lost ("failed"), Go answered it without a statement ("unstored"), the browser
\* was closed ("closed").
LostEditsExplained ==
    Quiet => \A q \in Questions : rows[q] # wanted[q] => excuse[q] # {}

\* The editor in the middle edits the question whose type and place are shown
\* around it, through additions, deletions, lists that arrive late, and returns.
EditorFollowsSelection == Canvas => editingQ.id = selectedId

\* While a question stays in the editor nothing but the user changes it there:
\* the list that every save asks for does not bring the older text back.
TypedTextStays ==
    [][Canvas /\ Canvas' /\ selectedId' = selectedId /\ acts' = acts
       => editingQ' = editingQ]_editorVars

\* With nothing under way the list is what is stored, whatever the order in which
\* saves and lists were served -- unless a call or a statement was lost, or a list
\* already on its way was let pass for the answer to a later change.
ListIsCurrent ==
    Quiet /\ visit = "open" /\ fetching = "none" /\ loaded /\ faults = 0 =>
        cache = rows \/ outrun

\* What the user has made of the questions is stored and listed, but for the
\* reasons above.
EditsKept == LostEditsExplained /\ ListIsCurrent

\* Saving... ends, unless a save was answered with an error.
SavingEnds ==
    visit = "open" /\ saveState = "saving" ~>
        saveState # "saving" \/ refused \/ visit # "open"
=============================================================================
