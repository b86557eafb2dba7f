--------------------------- MODULE BuilderProofs ---------------------------
(***************************************************************************)
(* Proofs about the builder page, for any number of questions, of acts of  *)
(* the user and of calls under way together.                               *)
(*                                                                         *)
(* A value the user asked for is due (Due) if it is stored and no call     *)
(* that stores another is under way, or if the last call under way stores  *)
(* it; of a question every field is looked at, for Go stores it in parts.  *)
(* HeaderInv and EditorInv say that a title, a status and a question that  *)
(* nothing has come between are due, or wait for their timer; and          *)
(* that what the page shows is stored, unless news of a change is on its   *)
(* way or something has come between.                                      *)
(***************************************************************************)
EXTENDS MCBuilder, SequenceTheorems, FiniteSetTheorems, WellFoundedInduction, TLAPS

(***************************************************************************)
(* The bar above the tabs.                                                 *)

\* The calls that have not been served.
Sent(calls) == {i \in DOMAIN calls : calls[i].at = "sent"}

\* Value v is what the calls will have stored, if they are served in order.
Due(calls, v, base) ==
    \/ Sent(calls) = {} /\ base = v
    \/ \E i \in Sent(calls) : calls[i].value = v /\ \A j \in Sent(calls) : j <= i

TitleDue ==
    lostTitle = {} =>
        /\ titleSaveTimer => surveyTitle = typed
        /\ ~titleSaveTimer => Due(titlePuts, typed, stored.title)

StatusDue == lostStatus = {} => Due(patches, asked, stored.status)

\* What the page knows is not newer than what is stored.
NotAhead ==
    /\ survey.updated_at <= stored.updated_at
    /\ reply.updated_at <= stored.updated_at

\* With no call under way the page, or the answer on its way to it, is current.
HeaderCurrent ==
    ~wrong /\ ~passed /\ titlePuts = <<>> /\ patches = <<>> =>
        /\ present = "open" /\ known /\ asking = "none" => survey = stored
        /\ present # "closed" /\ asking = "served" => reply = stored

\* The input shows another title than the survey only for a title that is not
\* served yet, failed, was left out, or is newer than the survey.
TitleAhead ==
    present = "open" /\ known /\ ~wrong /\ ~titleSaveTimer
    /\ surveyTitle # survey.title =>
        \/ \E i \in DOMAIN titlePuts : titlePuts[i].at \in {"sent", "error"}
        \/ survey.updated_at < stored.updated_at
        \/ "unstored" \in lostTitle

HeaderInv ==
    /\ HeaderTypeOK
    /\ TitleDue /\ StatusDue
    /\ NotAhead /\ HeaderCurrent /\ TitleAhead

(***************************************************************************)
(* The editor of the questions.                                            *)

\* Nothing is selected or edited but on the page.
AwayIsBlank == visit # "open" => selectedId = None /\ editingQ = None

\* The editor holds the selected question if the list has it, picking or not.
EditorFollows ==
    Selected(cache, selectedId) # None /\ editingQ # None => editingQ.id = selectedId

\* A question under way has an id left, and has one once it is stored.
PostHasId ==
    /\ post = "sent" => created < Cardinality(Questions)
    /\ post = "ok" => created # 0

\* Nothing is known of a question that has not been created.
Unborn ==
    \A q \in Questions : q > created =>
        /\ rows[q] = None /\ cache[q] = None /\ fetched[q] = None /\ wanted[q] = None
        /\ deletes[q] = "none"
        /\ editingQ # None => editingQ.id # q
        /\ qSaveTimer # None => qSaveTimer.id # q
        /\ \A i \in DOMAIN puts : puts[i].id # q

\* A question the user has not deleted is there.
WantedIsThere ==
    \A q \in Questions : wanted[q] # None => rows[q] # None /\ deletes[q] # "sent"

\* Saves of question q that have still to store its field f.
SentFor(saves, q, f) ==
    {i \in DOMAIN saves : saves[i].id = q /\ saves[i].at = "sent" /\ f \in saves[i].rest}

\* What the saves will have stored of that field, if they are served in order.
DueField(saves, q, f, row, base) ==
    \/ SentFor(saves, q, f) = {} /\ base[f] = row[f]
    \/ \E i \in SentFor(saves, q, f) :
          saves[i].row[f] = row[f] /\ \A j \in SentFor(saves, q, f) : j <= i

DueRow(saves, q, row, base) == \A f \in Fields : DueField(saves, q, f, row, base)

OnTimer(q) == qSaveTimer # None /\ qSaveTimer.id = q

\* What the user has made of question q is stored, on its way, or on the timer.
QuestionDue(q) ==
    /\ wanted[q] = None => rows[q] = None \/ deletes[q] = "sent"
    /\ wanted[q] # None => IF OnTimer(q) THEN qSaveTimer.row = wanted[q]
                           ELSE DueRow(puts, q, wanted[q], rows[q])

\* So it is with every question that nothing has come between.
WantedIsDue == \A q \in Questions : excuse[q] = {} => QuestionDue(q)

\* A save the page has to handle the success of, or one that is half stored.
Unheard(call) ==
    \/ call.at = "ok"
    \/ call.at = "sent" /\ call.rest # Fields /\ rows[call.id] # None

\* No change is stored that the page has not handled yet.
NoNews ==
    /\ \A i \in DOMAIN puts : ~Unheard(puts[i])
    /\ post # "ok"
    /\ \A q \in Questions : deletes[q] # "ok"

\* Then the list, or the answer that brings it, is current.
ListCurrent ==
    faults = 0 /\ ~outrun /\ visit # "closed" /\ NoNews =>
        /\ fetching = "served" => fetched = rows
        /\ fetching = "none" /\ loaded => cache = rows \/ (visit = "left" /\ stale)

EditorInv ==
    /\ EditorTypeOK
    /\ AwayIsBlank /\ EditorFollows
    /\ PostHasId /\ Unborn /\ WantedIsThere /\ WantedIsDue
    /\ ListCurrent

BuilderInv == EditorInv /\ HeaderInv

-----------------------------------------------------------------------------
(* Lists of calls.                                                         *)

\* A list without its entry i.
LEMMA RemovedEntry ==
  ASSUME NEW S, NEW list \in Seq(S), NEW i \in DOMAIN list
  PROVE  LET rest == SubSeq(list, 1, i - 1) \o SubSeq(list, i + 1, Len(list))
         IN /\ rest \in Seq(S) /\ Len(rest) = Len(list) - 1
            /\ DOMAIN rest = 1 .. Len(list) - 1
            /\ \A j \in 1 .. Len(list) - 1 :
                  rest[j] = IF j < i THEN list[j] ELSE list[j + 1]
<1>1. i \in 1 .. Len(list) /\ Len(list) \in Nat
  OBVIOUS
<1>2. PICK f : f = SubSeq(list, 1, i - 1)
  OBVIOUS
<1>3. PICK g : g = SubSeq(list, i + 1, Len(list))
  OBVIOUS
<1>4. f \in Seq(S) /\ Len(f) = i - 1 /\ \A j \in 1 .. i - 1 : f[j] = list[j]
  BY <1>1, <1>2
<1>5. g \in Seq(S) /\ Len(g) = Len(list) - i /\ \A j \in 1 .. Len(list) - i : g[j] = list[i + j]
  BY <1>1, <1>3
<1>6. PICK rest : rest = f \o g
  OBVIOUS
<1>7. /\ rest \in Seq(S) /\ Len(rest) = Len(f) + Len(g)
      /\ \A j \in 1 .. Len(f) + Len(g) :
            rest[j] = IF j <= Len(f) THEN f[j] ELSE g[j - Len(f)]
  BY <1>4, <1>5, <1>6, ConcatProperties
<1>8. Len(rest) = Len(list) - 1
  BY <1>1, <1>4, <1>5, <1>7
<1>9. ASSUME NEW j \in 1 .. Len(list) - 1
      PROVE  rest[j] = IF j < i THEN list[j] ELSE list[j + 1]
  <2>1. PICK n \in Nat : n = Len(list)
    BY <1>1
  <2>2. j \in 1 .. Len(f) + Len(g) /\ Len(f) = i - 1
    BY <1>1, <1>4, <1>5
  <2>3. rest[j] = IF j <= i - 1 THEN f[j] ELSE g[j - (i - 1)]
    BY <1>7, <2>2
  <2>4. CASE j <= i - 1
    <3>1. j \in 1 .. i - 1 /\ j < i
      BY <1>1, <2>1, <2>4
    <3> QED
      BY <1>4, <2>3, <2>4, <3>1
  <2>5. CASE ~(j <= i - 1)
    <3>1. j - (i - 1) \in 1 .. n - i /\ i + (j - (i - 1)) = j + 1 /\ ~(j < i)
      BY <1>1, <2>1, <2>5
    <3> QED
      BY <1>5, <2>1, <2>3, <2>5, <3>1
  <2> QED
    BY <2>4, <2>5
<1>10. DOMAIN rest = 1 .. Len(list) - 1
  BY <1>1, <1>7, <1>8
<1> QED
  BY <1>2, <1>3, <1>6, <1>7, <1>8, <1>9, <1>10

\* A list with one more entry.
LEMMA AppendedEntry ==
  ASSUME NEW S, NEW list \in Seq(S), NEW e \in S
  PROVE  /\ Append(list, e) \in Seq(S) /\ Len(Append(list, e)) = Len(list) + 1
         /\ DOMAIN Append(list, e) = 1 .. Len(list) + 1
         /\ Len(list) \in Nat /\ DOMAIN list = 1 .. Len(list)
         /\ Append(list, e)[Len(list) + 1] = e
         /\ \A j \in 1 .. Len(list) : Append(list, e)[j] = list[j]
  OBVIOUS

HeaderCalls(values) == [value : values, at : Phases]

\* The value of a call that is sent is due.
LEMMA DueOnceSent ==
  ASSUME NEW values, NEW calls \in Seq(HeaderCalls(values)), NEW v \in values, NEW base
  PROVE  LET more == Append(calls, [value |-> v, at |-> "sent"])
         IN /\ more \in Seq(HeaderCalls(values)) /\ Len(more) = Len(calls) + 1
            /\ Due(more, v, base)
            /\ \E i \in DOMAIN more : more[i].at = "sent" /\ more[i].value = v
<1>1. PICK e : e = [value |-> v, at |-> "sent"]
  OBVIOUS
<1>2. e \in HeaderCalls(values) /\ e.value = v /\ e.at = "sent"
  BY <1>1 DEF HeaderCalls, Phases
<1>3. PICK more : more = Append(calls, e)
  OBVIOUS
<1>4. /\ more \in Seq(HeaderCalls(values)) /\ Len(more) = Len(calls) + 1
      /\ DOMAIN more = 1 .. Len(calls) + 1 /\ Len(calls) \in Nat
      /\ more[Len(calls) + 1] = e
  BY <1>2, <1>3, AppendedEntry
<1>5. Len(calls) + 1 \in Sent(more) /\ \A j \in Sent(more) : j <= Len(calls) + 1
  BY <1>2, <1>4 DEF Sent
<1>6. Due(more, v, base)
  BY <1>2, <1>4, <1>5 DEF Due
<1> QED
  BY <1>1, <1>2, <1>3, <1>4, <1>5, <1>6 DEF Sent

\* The calls after call i has got phase a.
PhaseOf(calls, i, a) == [calls EXCEPT ![i].at = a]

\* A call with another phase, and the rest as they were.
LEMMA PhaseChanged ==
  ASSUME NEW values, NEW calls \in Seq(HeaderCalls(values)), NEW i \in DOMAIN calls,
         NEW a \in Phases
  PROVE  LET now == PhaseOf(calls, i, a)
         IN /\ now \in Seq(HeaderCalls(values)) /\ Len(now) = Len(calls)
            /\ DOMAIN now = DOMAIN calls
            /\ now[i].at = a /\ now[i].value = calls[i].value /\ calls[i].value \in values
            /\ \A j \in DOMAIN calls \ {i} : now[j] = calls[j]
            /\ \A j \in DOMAIN calls : now[j].value = calls[j].value
<1>1. PICK n \in Nat : n = Len(calls) /\ DOMAIN calls = 1 .. n /\ calls \in [1 .. n -> HeaderCalls(values)]
  OBVIOUS
<1>2. PICK c \in HeaderCalls(values) : c = calls[i]
  BY <1>1
<1>3. PICK d : d = [c EXCEPT !.at = a]
  OBVIOUS
<1>4. d \in HeaderCalls(values) /\ d.at = a /\ d.value = c.value /\ c.value \in values
  BY <1>2, <1>3 DEF HeaderCalls
<1>5. PICK now : now = [calls EXCEPT ![i] = d]
  OBVIOUS
<1>6. now = PhaseOf(calls, i, a)
  BY <1>2, <1>3, <1>5, Zenon DEF PhaseOf
<1>7. /\ now \in [1 .. n -> HeaderCalls(values)] /\ DOMAIN now = DOMAIN calls
      /\ now[i] = d /\ \A j \in DOMAIN calls \ {i} : now[j] = calls[j]
  BY <1>1, <1>4, <1>5
<1>8. now \in Seq(HeaderCalls(values)) /\ Len(now) = n
  BY <1>1, <1>7
<1> QED
  BY <1>1, <1>2, <1>4, <1>6, <1>7, <1>8

\* What is due stays due when a call with none behind it is served.
LEMMA DueWhenServed ==
  ASSUME NEW values, NEW calls \in Seq(HeaderCalls(values)), NEW i \in DOMAIN calls,
         calls[i].at = "sent", Behind(calls, i) = {}, NEW a \in {"ok", "error"},
         NEW v, NEW base, Due(calls, v, base)
  PROVE  Due(PhaseOf(calls, i, a), v, calls[i].value)
<1>1. PICK now : now = PhaseOf(calls, i, a)
  OBVIOUS
<1>2. /\ DOMAIN now = DOMAIN calls /\ now[i].at = a
      /\ \A j \in DOMAIN calls \ {i} : now[j] = calls[j]
      /\ \A j \in DOMAIN calls : now[j].value = calls[j].value
  <2>1. a \in Phases
    BY DEF Phases
  <2> QED
    BY <1>1, <2>1, PhaseChanged
<1>3. Sent(now) = Sent(calls) \ {i} /\ i \in Sent(calls)
  BY <1>2 DEF Sent
<1>4. PICK k \in Sent(calls) : calls[k].value = v /\ \A j \in Sent(calls) : j <= k
  BY <1>3 DEF Due
<1>5. CASE k = i
  <2>1. \A j \in Sent(calls) : j = i
    <3> SUFFICES ASSUME NEW j \in Sent(calls), j # i
                 PROVE  FALSE
      OBVIOUS
    <3>1. j \in 1 .. i - 1
      <4>1. j \in Nat /\ i \in Nat /\ j >= 1 /\ j <= i
        BY <1>4, <1>5 DEF Sent
      <4> QED
        BY <4>1
    <3> QED
      BY <3>1 DEF Sent, Behind
  <2> QED
    BY <1>1, <1>3, <1>4, <1>5, <2>1 DEF Due
<1>6. CASE k # i
  <2>1. k \in Sent(now) /\ now[k].value = v /\ \A j \in Sent(now) : j <= k
    BY <1>2, <1>3, <1>4, <1>6 DEF Sent
  <2> QED
    BY <1>1, <2>1 DEF Due
<1> QED
  BY <1>5, <1>6

\* What is due stays due when a call that was served is answered.
LEMMA DueWhenAnswered ==
  ASSUME NEW values, NEW calls \in Seq(HeaderCalls(values)), NEW i \in DOMAIN calls
  PROVE  /\ Without(calls, i) \in Seq(HeaderCalls(values))
         /\ Len(Without(calls, i)) = Len(calls) - 1
         /\ DOMAIN Without(calls, i) = 1 .. Len(calls) - 1
         /\ \A k \in DOMAIN calls \ {i} :
               \E j \in DOMAIN Without(calls, i) : Without(calls, i)[j] = calls[k]
         /\ calls[i].at # "sent" =>
               \A v, base : Due(calls, v, base) => Due(Without(calls, i), v, base)
<1>1. PICK rest : rest = Without(calls, i)
  OBVIOUS
<1>2. PICK n \in Nat : n = Len(calls) /\ DOMAIN calls = 1 .. n /\ i \in 1 .. n
  OBVIOUS
<1>3. /\ rest \in Seq(HeaderCalls(values)) /\ Len(rest) = n - 1
      /\ DOMAIN rest = 1 .. n - 1
      /\ \A j \in 1 .. n - 1 : rest[j] = IF j < i THEN calls[j] ELSE calls[j + 1]
  BY <1>1, <1>2, RemovedEntry DEF Without
<1>4. ASSUME NEW k \in 1 .. n, k # i
      PROVE  \E j \in 1 .. n - 1 : rest[j] = calls[k] /\ j = IF k < i THEN k ELSE k - 1
  <2>1. CASE k < i
    <3>1. k \in 1 .. n - 1
      BY <1>2, <1>4, <2>1
    <3> QED
      BY <1>3, <2>1, <3>1
  <2>2. CASE k > i
    <3>1. k - 1 \in 1 .. n - 1 /\ ~(k - 1 < i) /\ (k - 1) + 1 = k /\ ~(k < i)
      BY <1>2, <1>4, <2>2
    <3> QED
      BY <1>3, <3>1
  <2> QED
    BY <1>2, <1>4, <2>1, <2>2
<1>5. ASSUME calls[i].at # "sent", NEW v, NEW base, Due(calls, v, base)
      PROVE  Due(rest, v, base)
  <2>1. \A j \in Sent(rest) : (IF j < i THEN j ELSE j + 1) \in Sent(calls)
    <3> SUFFICES ASSUME NEW j \in 1 .. n - 1, rest[j].at = "sent"
                 PROVE  (IF j < i THEN j ELSE j + 1) \in Sent(calls)
      BY <1>3 DEF Sent
    <3>1. j \in 1 .. n /\ j + 1 \in 1 .. n
      BY <1>2
    <3> QED
      BY <1>2, <1>3, <3>1 DEF Sent
  <2>2. CASE Sent(calls) = {} /\ base = v
    BY <2>1, <2>2 DEF Due
  <2>3. CASE \E k \in Sent(calls) : calls[k].value = v /\ \A j \in Sent(calls) : j <= k
    <3>1. PICK k \in Sent(calls) : calls[k].value = v /\ \A j \in Sent(calls) : j <= k
      BY <2>3
    <3>2. k \in 1 .. n /\ k # i /\ calls[k].at = "sent"
      BY <1>2, <1>5, <3>1 DEF Sent
    <3>3. PICK p \in 1 .. n - 1 : rest[p] = calls[k] /\ p = IF k < i THEN k ELSE k - 1
      BY <1>4, <3>2
    <3>4. p \in Sent(rest) /\ rest[p].value = v
      BY <1>3, <3>1, <3>2, <3>3 DEF Sent
    <3>5. ASSUME NEW j \in Sent(rest) PROVE j <= p
      <4>1. (IF j < i THEN j ELSE j + 1) <= k
        BY <2>1, <3>1
      <4>2. j \in 1 .. n - 1
        BY <1>3 DEF Sent
      <4> QED
        BY <1>2, <3>2, <3>3, <4>1, <4>2
    <3> QED
      BY <3>4, <3>5 DEF Due
  <2> QED
    BY <1>5, <2>2, <2>3 DEF Due
<1> QED
  BY <1>1, <1>2, <1>3, <1>4, <1>5

-----------------------------------------------------------------------------
(* The bar above the tabs: every step keeps HeaderInv.                     *)

\* The titles.
Titles == 0..MaxTyped

\* The parts of the type invariant the leaves need.
LEMMA HeaderTypes ==
  ASSUME HeaderTypeOK
  PROVE  /\ titlePuts \in Seq(HeaderCalls(Titles))
         /\ patches \in Seq(HeaderCalls({"ACTIVE", "PAUSED"}))
         /\ stored \in Survey /\ survey \in Survey /\ reply \in Survey
         /\ stored.updated_at \in Nat /\ survey.updated_at \in Nat
         /\ reply.updated_at \in Nat
         /\ surveyTitle \in 0..MaxTyped /\ spent \in 0..MaxTyped /\ typed \in 0..MaxTyped
         /\ MaxTyped \in Nat /\ MaxSends \in Nat \ {0}
BY HeaderAssumption DEF HeaderTypeOK, HeaderCalls, Survey, Titles

\* Nothing known.
LEMMA DraftType ==
  Draft \in Survey /\ Draft.title = 0 /\ Draft.updated_at = 0
BY HeaderAssumption DEF Draft, Survey

\* update_survey() with a title or a status.
Titled(s, t) == [s EXCEPT !.title = t, !.updated_at = @ + 1]
Moved(s, t) == [s EXCEPT !.status = t, !.updated_at = @ + 1]

LEMMA ChangeStored ==
  ASSUME NEW s \in Survey, NEW t
  PROVE  /\ t \in Titles => Titled(s, t) \in Survey
         /\ Titled(s, t).title = t /\ Titled(s, t).status = s.status
         /\ Titled(s, t).updated_at = s.updated_at + 1
         /\ t \in {"DRAFT", "ACTIVE", "PAUSED"} => Moved(s, t) \in Survey
         /\ Moved(s, t).status = t /\ Moved(s, t).title = s.title
         /\ Moved(s, t).updated_at = s.updated_at + 1
<1>1. s.updated_at + 1 \in Nat
  BY DEF Survey
<1> QED
  BY <1>1 DEF Survey, Titled, Moved, Titles

LEMMA HeaderInitInv ==
  ASSUME HeaderInit
  PROVE  HeaderInv
<1>1. HeaderTypeOK
  <2>1. MaxTyped \in Nat /\ MaxSends \in Nat \ {0} /\ 0 \in 0..MaxTyped
    BY HeaderAssumption
  <2>2. <<>> \in Seq([value : 0..MaxTyped, at : Phases])
        /\ <<>> \in Seq([value : {"ACTIVE", "PAUSED"}, at : Phases])
        /\ Len(<<>>) = 0 /\ Len(<<>>) <= MaxSends
    BY <2>1
  <2> QED
    BY <2>1, <2>2, DraftType DEF HeaderInit, HeaderTypeOK
<1>2. TitleDue /\ StatusDue
  BY DEF HeaderInit, TitleDue, StatusDue, Due, Sent, Draft
<1>3. NotAhead
  BY DraftType DEF HeaderInit, NotAhead
<1>4. HeaderCurrent /\ TitleAhead
  BY DEF HeaderInit, HeaderCurrent, TitleAhead
<1> QED
  BY <1>1, <1>2, <1>3, <1>4 DEF HeaderInv

\* The query is served, answered, or fails, or is asked again.
LEMMA QueryKeepsHeader ==
  ASSUME HeaderInv, AskServed \/ AskAnswered \/ AskFails \/ AskOnFocus
  PROVE  HeaderInv'
<1>0. HeaderTypeOK /\ TitleDue /\ StatusDue /\ NotAhead /\ HeaderCurrent /\ TitleAhead
  BY DEF HeaderInv
<1>1. UNCHANGED <<stored, present, titleSaveTimer, titlePuts, patches, typed, asked,
                  lostStatus>>
  BY DEF AskServed, AskAnswered, AskFails, AskOnFocus
<1>2. StatusDue'
  BY <1>0, <1>1 DEF StatusDue
<1>3. CASE AskServed
  <2>1. HeaderTypeOK'
    BY <1>0, <1>3 DEF AskServed, HeaderTypeOK
  <2>2. TitleDue'
    BY <1>0, <1>3 DEF AskServed, TitleDue
  <2>3. NotAhead'
    <3>1. UNCHANGED <<survey, stored>> /\ reply' = stored
      BY <1>3 DEF AskServed
    <3> QED
      BY <1>0, <3>1, HeaderTypes DEF NotAhead
  <2>4. HeaderCurrent'
    BY <1>3 DEF AskServed, HeaderCurrent
  <2>5. TitleAhead'
    <3>1. UNCHANGED <<survey, stored, surveyTitle, present, known, wrong, titleSaveTimer,
                      titlePuts, lostTitle>>
      BY <1>3 DEF AskServed
    <3> QED
      BY <1>0, <3>1 DEF TitleAhead
  <2> QED
    BY <1>2, <2>1, <2>2, <2>3, <2>4, <2>5 DEF HeaderInv
<1>4. CASE AskAnswered
  <2>1. PICK other \in {TRUE, ~known \/ reply # survey} :
           surveyTitle' = IF present = "open" THEN TitleShown(other) ELSE surveyTitle
    BY <1>4 DEF AskAnswered
  <2>2. /\ asking = "served" /\ present # "closed" /\ asking' = "none"
        /\ survey' = reply /\ known' = TRUE /\ reply' = Draft
        /\ UNCHANGED <<wrong, passed, spent>>
        /\ lostTitle' = IF titleSaveTimer /\ surveyTitle' # surveyTitle
                           THEN lostTitle \cup {"reset"} ELSE lostTitle
    BY <1>4 DEF AskAnswered
  <2>3. reply.title \in 0..MaxTyped /\ surveyTitle' \in 0..MaxTyped
    <3>1. reply.title \in 0..MaxTyped
      BY <1>0, HeaderTypes DEF Survey
    <3> QED
      BY <1>0, <2>1, <3>1, HeaderTypes DEF TitleShown
  <2>4. HeaderTypeOK'
    <3>1. lostTitle' \subseteq {"reset", "overtaken", "failed", "unstored", "closed"}
      BY <1>0, <2>2 DEF HeaderTypeOK
    <3> QED
      BY <1>0, <1>1, <2>2, <2>3, <3>1, DraftType DEF HeaderTypeOK
  <2>5. TitleDue'
    <3>1. lostTitle' = {} => lostTitle = {} /\ (titleSaveTimer => surveyTitle' = surveyTitle)
      BY <2>2
    <3> QED
      BY <1>0, <1>1, <3>1 DEF TitleDue
  <2>6. NotAhead'
    BY <1>0, <1>1, <2>2, HeaderTypes, DraftType DEF NotAhead
  <2>7. HeaderCurrent'
    BY <1>0, <1>1, <2>2 DEF HeaderCurrent
  <2>8. TitleAhead'
    <3>1. CASE present = "open" /\ surveyTitle' = reply.title
      BY <2>2, <3>1 DEF TitleAhead
    <3>2. CASE present # "open"
      BY <1>1, <3>2 DEF TitleAhead
    <3>3. CASE present = "open" /\ surveyTitle' # reply.title
      <4>1. known /\ reply = survey /\ surveyTitle' = surveyTitle
        BY <2>1, <3>3 DEF TitleShown
      <4>2. /\ UNCHANGED <<survey, stored, surveyTitle, present, wrong, titleSaveTimer,
                           titlePuts>>
            /\ "unstored" \in lostTitle => "unstored" \in lostTitle'
        BY <1>1, <2>2, <4>1
      <4> QED
        BY <1>0, <4>1, <4>2 DEF TitleAhead
    <3> QED
      BY <3>1, <3>2, <3>3
  <2> QED
    BY <1>2, <2>4, <2>5, <2>6, <2>7, <2>8 DEF HeaderInv
<1>5. CASE AskFails
  <2>1. /\ asking' = "none" /\ reply' = Draft /\ wrong' = TRUE /\ spent < MaxTyped
        /\ spent' = spent + 1 /\ UNCHANGED <<survey, known, surveyTitle, lostTitle, passed>>
    BY <1>5 DEF AskFails, Spend
  <2>2. spent' \in 0..MaxTyped
    BY <1>0, <2>1, HeaderTypes
  <2>3. HeaderTypeOK'
    BY <1>0, <1>1, <2>1, <2>2, DraftType DEF HeaderTypeOK
  <2>4. TitleDue'
    BY <1>0, <1>1, <2>1 DEF TitleDue
  <2>5. NotAhead'
    BY <1>0, <1>1, <2>1, HeaderTypes, DraftType DEF NotAhead
  <2>6. HeaderCurrent' /\ TitleAhead'
    BY <2>1 DEF HeaderCurrent, TitleAhead
  <2> QED
    BY <1>2, <2>3, <2>4, <2>5, <2>6 DEF HeaderInv
<1>6. CASE AskOnFocus
  <2>1. /\ asking' = "sent" /\ passed' = FALSE /\ spent < MaxTyped /\ spent' = spent + 1
        /\ UNCHANGED <<survey, known, reply, surveyTitle, lostTitle, wrong>>
    BY <1>6 DEF AskOnFocus, Spend
  <2>2. spent' \in 0..MaxTyped
    BY <1>0, <2>1, HeaderTypes
  <2>3. HeaderTypeOK'
    BY <1>0, <1>1, <2>1, <2>2 DEF HeaderTypeOK
  <2>4. TitleDue'
    BY <1>0, <1>1, <2>1 DEF TitleDue
  <2>5. NotAhead' /\ HeaderCurrent' /\ TitleAhead'
    BY <1>0, <1>1, <2>1 DEF NotAhead, HeaderCurrent, TitleAhead
  <2> QED
    BY <1>2, <2>3, <2>4, <2>5 DEF HeaderInv
<1> QED
  BY <1>3, <1>4, <1>5, <1>6

\* A title is typed, and sent when its timer fires.
LEMMA TypingKeepsHeader ==
  ASSUME HeaderInv, ChangeTitle \/ TitleTimer
  PROVE  HeaderInv'
<1>0. HeaderTypeOK /\ TitleDue /\ StatusDue /\ NotAhead /\ HeaderCurrent /\ TitleAhead
  BY DEF HeaderInv
<1>1. UNCHANGED <<stored, present, survey, known, asking, reply, patches, asked,
                  lostStatus, wrong, passed>>
  BY DEF ChangeTitle, TitleTimer
<1>2. StatusDue' /\ NotAhead'
  BY <1>0, <1>1 DEF StatusDue, NotAhead
<1>3. CASE ChangeTitle
  <2>1. /\ surveyTitle' = spent + 1 /\ titleSaveTimer' = TRUE /\ typed' = spent + 1
        /\ spent < MaxTyped /\ spent' = spent + 1 /\ lostTitle' = {}
        /\ UNCHANGED titlePuts
    BY <1>3 DEF ChangeTitle, Spend
  <2>2. spent' \in 0..MaxTyped /\ surveyTitle' \in 0..MaxTyped /\ typed' \in 0..MaxTyped
    BY <1>0, <2>1, HeaderTypes
  <2>3. HeaderTypeOK'
    BY <1>0, <1>1, <2>1, <2>2 DEF HeaderTypeOK
  <2>4. TitleDue'
    BY <2>1 DEF TitleDue
  <2>5. HeaderCurrent' /\ TitleAhead'
    BY <1>0, <1>1, <2>1 DEF HeaderCurrent, TitleAhead
  <2> QED
    BY <1>2, <2>3, <2>4, <2>5 DEF HeaderInv
<1>4. CASE TitleTimer
  <2>1. /\ titleSaveTimer /\ titleSaveTimer' = FALSE /\ Len(titlePuts) < MaxSends
        /\ titlePuts' = Append(titlePuts, [value |-> surveyTitle, at |-> "sent"])
        /\ UNCHANGED <<surveyTitle, spent, typed, lostTitle>>
    BY <1>4 DEF TitleTimer, TitleToSend
  <2>2. /\ titlePuts' \in Seq(HeaderCalls(Titles))
        /\ Len(titlePuts') = Len(titlePuts) + 1
        /\ Due(titlePuts', surveyTitle, stored.title)
        /\ \E i \in DOMAIN titlePuts' : titlePuts'[i].at = "sent"
    <3>1. titlePuts \in Seq(HeaderCalls(Titles)) /\ surveyTitle \in Titles
      BY <1>0, HeaderTypes DEF Titles
    <3>2. PICK more : more = Append(titlePuts, [value |-> surveyTitle, at |-> "sent"])
      OBVIOUS
    <3>3. /\ more \in Seq(HeaderCalls(Titles)) /\ Len(more) = Len(titlePuts) + 1
          /\ Due(more, surveyTitle, stored.title)
          /\ \E i \in DOMAIN more : more[i].at = "sent" /\ more[i].value = surveyTitle
      BY <3>1, <3>2, DueOnceSent
    <3> QED
      BY <2>1, <3>2, <3>3
  <2>3. Len(titlePuts') <= MaxSends /\ titlePuts' # <<>>
    BY <1>0, <2>1, <2>2, HeaderTypes
  <2>4. HeaderTypeOK'
    BY <1>0, <1>1, <2>1, <2>2, <2>3 DEF HeaderTypeOK, HeaderCalls, Titles
  <2>5. TitleDue'
    <3>1. lostTitle = {} => surveyTitle = typed
      BY <1>0, <2>1 DEF TitleDue
    <3> QED
      BY <1>1, <2>1, <2>2, <3>1 DEF TitleDue
  <2>6. HeaderCurrent' /\ TitleAhead'
    BY <2>2, <2>3 DEF HeaderCurrent, TitleAhead
  <2> QED
    BY <1>2, <2>4, <2>5, <2>6 DEF HeaderInv
<1> QED
  BY <1>3, <1>4

\* The end of a mutation leaves the page current, told of an error, or asking.
LEMMA EndedCurrent ==
  ASSUME NEW call, call.at \in {"ok", "error"}, HeaderTypeOK, Ended(call),
         UNCHANGED <<stored, present, survey, known, reply>>
  PROVE  /\ HeaderCurrent'
         /\ wrong' \in BOOLEAN /\ passed' \in BOOLEAN /\ asking' \in {"none", "sent", "served"}
         /\ wrong => wrong'
         /\ call.at = "error" => wrong'
<1>1. CASE call.at = "ok" /\ present # "closed"
  BY <1>1 DEF Ended, AskAgain, HeaderCurrent, HeaderTypeOK
<1>2. CASE call.at = "ok" /\ present = "closed"
  BY <1>2 DEF Ended, HeaderCurrent, HeaderTypeOK
<1>3. CASE call.at = "error"
  BY <1>3 DEF Ended, HeaderCurrent, HeaderTypeOK
<1> QED
  BY <1>1, <1>2, <1>3

\* A title is stored, lost, or answered.
LEMMA TitleCallKeepsHeader ==
  ASSUME HeaderInv, NEW i \in DOMAIN titlePuts,
         TitleServed(i) \/ TitleSkips(i) \/ TitleLost(i) \/ TitleAnswered(i)
  PROVE  HeaderInv'
<1>0. HeaderTypeOK /\ TitleDue /\ StatusDue /\ NotAhead /\ HeaderCurrent /\ TitleAhead
  BY DEF HeaderInv
<1>1. UNCHANGED <<present, survey, known, reply, surveyTitle, titleSaveTimer, patches, typed,
                  asked, lostStatus>>
  BY DEF TitleServed, TitleSkips, TitleLost, TitleAnswered
<1>2. titlePuts \in Seq(HeaderCalls(Titles)) /\ titlePuts # <<>>
  BY <1>0, HeaderTypes
<1>3. CASE TitleServed(i)
  <2>1. PICK answer \in {"ok", "error"} : titlePuts' = PhaseOf(titlePuts, i, answer)
    BY <1>3 DEF TitleServed, PhaseOf
  <2>2. /\ titlePuts[i].at = "sent"
        /\ stored' = Titled(stored, titlePuts[i].value)
        /\ lostTitle' = IF Behind(titlePuts, i) = {} THEN lostTitle
                        ELSE lostTitle \cup {"overtaken"}
        /\ UNCHANGED <<asking, spent, wrong, passed>>
    BY <1>3 DEF TitleServed, Titled
  <2>3. /\ titlePuts' \in Seq(HeaderCalls(Titles)) /\ Len(titlePuts') = Len(titlePuts)
        /\ DOMAIN titlePuts' = DOMAIN titlePuts /\ titlePuts[i].value \in Titles
        /\ \A j \in DOMAIN titlePuts \ {i} : titlePuts'[j] = titlePuts[j]
    <3>1. answer \in Phases
      BY DEF Phases
    <3>2. PICK now : now = PhaseOf(titlePuts, i, answer)
      OBVIOUS
    <3>3. /\ now \in Seq(HeaderCalls(Titles)) /\ Len(now) = Len(titlePuts)
          /\ DOMAIN now = DOMAIN titlePuts /\ titlePuts[i].value \in Titles
          /\ \A j \in DOMAIN titlePuts \ {i} : now[j] = titlePuts[j]
      BY <1>2, <3>1, <3>2, PhaseChanged
    <3> QED
      BY <2>1, <3>2, <3>3
  <2>4. /\ stored' \in Survey /\ stored'.title = titlePuts[i].value
        /\ stored'.status = stored.status
        /\ stored'.updated_at = stored.updated_at + 1
    BY <1>0, <2>2, <2>3, HeaderTypes, ChangeStored
  <2>5. HeaderTypeOK'
    <3>1. lostTitle' \subseteq {"reset", "overtaken", "failed", "unstored", "closed"}
      BY <1>0, <2>2 DEF HeaderTypeOK
    <3> QED
      BY <1>0, <1>1, <2>2, <2>3, <2>4, <3>1 DEF HeaderTypeOK, HeaderCalls, Titles
  <2>6. TitleDue'
    <3> SUFFICES ASSUME lostTitle' = {}
                 PROVE  /\ titleSaveTimer' => surveyTitle' = typed'
                        /\ ~titleSaveTimer' => Due(titlePuts', typed', stored'.title)
      BY DEF TitleDue
    <3>1. lostTitle = {} /\ Behind(titlePuts, i) = {}
      BY <2>2
    <3>2. CASE titleSaveTimer
      BY <1>0, <1>1, <3>1, <3>2 DEF TitleDue
    <3>3. CASE ~titleSaveTimer
      <4>1. Due(titlePuts, typed, stored.title)
        BY <1>0, <3>1, <3>3 DEF TitleDue
      <4>2. Due(PhaseOf(titlePuts, i, answer), typed, titlePuts[i].value)
        BY <1>2, <2>2, <3>1, <4>1, DueWhenServed
      <4> QED
        BY <1>1, <2>1, <2>4, <3>3, <4>2
    <3> QED
      BY <3>2, <3>3
  <2>7. StatusDue'
    BY <1>0, <1>1, <2>4 DEF StatusDue
  <2>8. NotAhead'
    BY <1>0, <1>1, <2>4, HeaderTypes DEF NotAhead
  <2>9. HeaderCurrent'
    <3>1. titlePuts' # <<>>
      BY <1>2, <2>3
    <3> QED
      BY <3>1 DEF HeaderCurrent
  <2>10. TitleAhead'
    <3>1. survey'.updated_at < stored'.updated_at
      BY <1>0, <1>1, <2>4, HeaderTypes DEF NotAhead
    <3> QED
      BY <3>1 DEF TitleAhead
  <2> QED
    BY <2>5, <2>6, <2>7, <2>8, <2>9, <2>10 DEF HeaderInv
<1>4. CASE TitleLost(i) \/ TitleSkips(i)
  <2>1. /\ \/ titlePuts' = PhaseOf(titlePuts, i, "error") /\ lostTitle' = lostTitle \cup {"failed"}
           \/ titlePuts' = PhaseOf(titlePuts, i, "ok") /\ lostTitle' = lostTitle \cup {"unstored"}
        /\ spent < MaxTyped /\ spent' = spent + 1
        /\ UNCHANGED <<stored, asking, wrong, passed>>
    BY <1>4 DEF TitleLost, TitleSkips, Spend, PhaseOf
  <2>2. /\ titlePuts' \in Seq(HeaderCalls(Titles)) /\ Len(titlePuts') = Len(titlePuts)
        /\ DOMAIN titlePuts' = DOMAIN titlePuts /\ (titlePuts'[i].at = "error" \/ "unstored" \in lostTitle')
    <3>1. "error" \in Phases /\ "ok" \in Phases
      BY DEF Phases
    <3> QED
      BY <1>2, <2>1, <3>1, PhaseChanged
  <2>3. spent' \in 0..MaxTyped
    BY <1>0, <2>1, HeaderTypes
  <2>4. HeaderTypeOK'
    <3>1. lostTitle' \subseteq {"reset", "overtaken", "failed", "unstored", "closed"}
      BY <1>0, <2>1 DEF HeaderTypeOK
    <3> QED
      BY <1>0, <1>1, <2>1, <2>2, <2>3, <3>1 DEF HeaderTypeOK, HeaderCalls, Titles
  <2>5. TitleDue' /\ StatusDue' /\ NotAhead'
    BY <1>0, <1>1, <2>1 DEF TitleDue, StatusDue, NotAhead
  <2>6. HeaderCurrent' /\ TitleAhead'
    BY <1>2, <2>2 DEF HeaderCurrent, TitleAhead
  <2> QED
    BY <2>4, <2>5, <2>6 DEF HeaderInv
<1>5. CASE TitleAnswered(i)
  <2>1. /\ titlePuts[i].at # "sent" /\ titlePuts' = Without(titlePuts, i)
        /\ Ended(titlePuts[i]) /\ UNCHANGED <<stored, spent, lostTitle>>
    BY <1>5 DEF TitleAnswered
  <2>2. /\ titlePuts' \in Seq(HeaderCalls(Titles))
        /\ Len(titlePuts') = Len(titlePuts) - 1
        /\ \A k \in DOMAIN titlePuts \ {i} :
              \E j \in DOMAIN titlePuts' : titlePuts'[j] = titlePuts[k]
        /\ \A v, base : Due(titlePuts, v, base) => Due(titlePuts', v, base)
    <3>1. PICK rest : rest = Without(titlePuts, i)
      OBVIOUS
    <3>2. /\ rest \in Seq(HeaderCalls(Titles)) /\ Len(rest) = Len(titlePuts) - 1
          /\ \A k \in DOMAIN titlePuts \ {i} : \E j \in DOMAIN rest : rest[j] = titlePuts[k]
          /\ \A v, base : Due(titlePuts, v, base) => Due(rest, v, base)
      BY <1>2, <2>1, <3>1, DueWhenAnswered
    <3> QED
      BY <2>1, <3>1, <3>2
  <2>3. titlePuts[i].at \in {"ok", "error"}
    <3>1. titlePuts[i] \in HeaderCalls(Titles)
      BY <1>2
    <3> QED
      BY <2>1, <3>1 DEF HeaderCalls, Phases
  <2>4. /\ HeaderCurrent' /\ wrong' \in BOOLEAN /\ passed' \in BOOLEAN
        /\ asking' \in {"none", "sent", "served"}
        /\ wrong => wrong'
        /\ titlePuts[i].at = "error" => wrong'
    BY <1>0, <1>1, <2>1, <2>3, EndedCurrent
  <2>5. Len(titlePuts') <= MaxSends
    <3>1. Len(titlePuts) <= MaxSends /\ Len(titlePuts) \in Nat /\ MaxSends \in Nat
      BY <1>0, <1>2, HeaderAssumption DEF HeaderTypeOK
    <3> QED
      BY <2>2, <3>1
  <2>6. HeaderTypeOK'
    BY <1>0, <1>1, <2>1, <2>2, <2>4, <2>5 DEF HeaderTypeOK, HeaderCalls, Titles
  <2>7. TitleDue' /\ StatusDue' /\ NotAhead'
    BY <1>0, <1>1, <2>1, <2>2 DEF TitleDue, StatusDue, NotAhead
  <2>8. TitleAhead'
    <3> SUFFICES ASSUME present' = "open", known', ~wrong', ~titleSaveTimer',
                        surveyTitle' # survey'.title,
                        ~(survey'.updated_at < stored'.updated_at), "unstored" \notin lostTitle'
                 PROVE  \E j \in DOMAIN titlePuts' : titlePuts'[j].at \in {"sent", "error"}
      BY DEF TitleAhead
    <3>0. ~wrong
      BY <2>4
    <3>a. /\ present = "open" /\ known /\ ~titleSaveTimer /\ surveyTitle # survey.title
          /\ ~(survey.updated_at < stored.updated_at) /\ "unstored" \notin lostTitle
      BY <1>1, <2>1
    <3>1. PICK k \in DOMAIN titlePuts : titlePuts[k].at \in {"sent", "error"}
      BY <1>0, <3>0, <3>a, Zenon DEF TitleAhead
    <3>2. k # i
      BY <2>1, <2>4, <3>1
    <3> QED
      BY <2>2, <3>1, <3>2
  <2> QED
    BY <2>4, <2>6, <2>7, <2>8 DEF HeaderInv
<1> QED
  BY <1>3, <1>4, <1>5

\* The button, and what becomes of its calls.
LEMMA StatusKeepsHeader ==
  ASSUME HeaderInv,
         \/ ToggleStatus
         \/ \E i \in DOMAIN patches :
               StatusServed(i) \/ StatusSkips(i) \/ StatusLost(i) \/ StatusAnswered(i)
  PROVE  HeaderInv'
<1>0. HeaderTypeOK /\ TitleDue /\ StatusDue /\ NotAhead /\ HeaderCurrent /\ TitleAhead
  BY DEF HeaderInv
<1>1. UNCHANGED <<present, survey, known, reply, surveyTitle, titleSaveTimer, titlePuts, typed,
                  lostTitle>>
  BY DEF ToggleStatus, StatusServed, StatusSkips, StatusLost, StatusAnswered
<1> DEFINE Values == {"ACTIVE", "PAUSED"}
<1>2. patches \in Seq(HeaderCalls(Values))
  BY <1>0, HeaderTypes
<1> HIDE DEF Values
<1>3. CASE ToggleStatus
  <2>1. PICK v \in Values : v = StatusAsked
    BY DEF StatusAsked, Values
  <2>2. /\ patches' = Append(patches, [value |-> v, at |-> "sent"])
        /\ asked' = v /\ lostStatus' = {} /\ Len(patches) < MaxSends
        /\ spent < MaxTyped /\ spent' = spent + 1
        /\ UNCHANGED <<stored, asking, wrong, passed>>
    BY <1>3, <2>1 DEF ToggleStatus, Spend
  <2>3. PICK more : more = Append(patches, [value |-> v, at |-> "sent"])
    OBVIOUS
  <2>4. /\ more \in Seq(HeaderCalls(Values)) /\ Len(more) = Len(patches) + 1
        /\ Due(more, v, stored.status)
        /\ \E i \in DOMAIN more : more[i].at = "sent" /\ more[i].value = v
    BY <1>2, <2>3, DueOnceSent
  <2>5. Len(more) <= MaxSends /\ more # <<>> /\ spent' \in 0..MaxTyped
    BY <1>0, <1>2, <2>2, <2>4, HeaderTypes
  <2>6. HeaderTypeOK'
    <3>1. patches' \in Seq([value : {"ACTIVE", "PAUSED"}, at : Phases])
          /\ Len(patches') <= MaxSends /\ asked' \in {"DRAFT", "ACTIVE", "PAUSED"}
      BY <2>2, <2>3, <2>4, <2>5 DEF HeaderCalls, Values
    <3> QED
      BY <1>0, <1>1, <2>2, <2>5, <3>1 DEF HeaderTypeOK
  <2>7. TitleDue' /\ NotAhead' /\ TitleAhead'
    BY <1>0, <1>1, <2>2 DEF TitleDue, NotAhead, TitleAhead
  <2>8. StatusDue'
    BY <2>2, <2>3, <2>4 DEF StatusDue
  <2>9. HeaderCurrent'
    BY <2>2, <2>3, <2>5 DEF HeaderCurrent
  <2> QED
    BY <2>6, <2>7, <2>8, <2>9 DEF HeaderInv
<1>4. ASSUME NEW i \in DOMAIN patches, StatusServed(i)
      PROVE  HeaderInv'
  <2>1. /\ patches[i].at = "sent" /\ patches' = PhaseOf(patches, i, "ok")
        /\ stored' = Moved(stored, patches[i].value)
        /\ lostStatus' = IF Behind(patches, i) = {} THEN lostStatus
                         ELSE lostStatus \cup {"overtaken"}
        /\ UNCHANGED <<asking, spent, asked, wrong, passed>>
    BY <1>4 DEF StatusServed, PhaseOf, Moved
  <2>2. /\ patches' \in Seq(HeaderCalls(Values)) /\ Len(patches') = Len(patches)
        /\ DOMAIN patches' = DOMAIN patches /\ patches[i].value \in Values
    <3>1. "ok" \in Phases
      BY DEF Phases
    <3> QED
      BY <1>2, <2>1, <3>1, PhaseChanged
  <2>3. /\ stored' \in Survey /\ stored'.status = patches[i].value
        /\ stored'.title = stored.title /\ stored'.updated_at = stored.updated_at + 1
    <3>1. patches[i].value \in {"DRAFT", "ACTIVE", "PAUSED"}
      BY <2>2 DEF Values
    <3> QED
      BY <1>0, <2>1, <3>1, HeaderTypes, ChangeStored
  <2>4. HeaderTypeOK'
    <3>1. lostStatus' \subseteq {"overtaken", "failed", "unstored"}
      BY <1>0, <2>1 DEF HeaderTypeOK
    <3> QED
      BY <1>0, <1>1, <2>1, <2>2, <2>3, <3>1 DEF HeaderTypeOK, HeaderCalls, Values
  <2>5. TitleDue'
    BY <1>0, <1>1, <2>3 DEF TitleDue
  <2>6. StatusDue'
    <3> SUFFICES ASSUME lostStatus' = {}
                 PROVE  Due(patches', asked', stored'.status)
      BY DEF StatusDue
    <3>1. lostStatus = {} /\ Behind(patches, i) = {}
      BY <2>1
    <3>2. Due(patches, asked, stored.status)
      BY <1>0, <3>1 DEF StatusDue
    <3>3. Due(PhaseOf(patches, i, "ok"), asked, patches[i].value)
      BY <1>2, <2>1, <3>1, <3>2, DueWhenServed
    <3> QED
      BY <2>1, <2>3, <3>3
  <2>7. NotAhead'
    BY <1>0, <1>1, <2>3, HeaderTypes DEF NotAhead
  <2>8. HeaderCurrent'
    <3>1. patches' # <<>>
      BY <1>2, <2>2
    <3> QED
      BY <3>1 DEF HeaderCurrent
  <2>9. TitleAhead'
    <3>1. survey'.updated_at < stored'.updated_at
      BY <1>0, <1>1, <2>3, HeaderTypes DEF NotAhead
    <3> QED
      BY <3>1 DEF TitleAhead
  <2> QED
    BY <2>4, <2>5, <2>6, <2>7, <2>8, <2>9 DEF HeaderInv
<1>5. ASSUME NEW i \in DOMAIN patches, StatusLost(i) \/ StatusSkips(i)
      PROVE  HeaderInv'
  <2>1. /\ \/ patches' = PhaseOf(patches, i, "error") /\ lostStatus' = lostStatus \cup {"failed"}
           \/ patches' = PhaseOf(patches, i, "ok") /\ lostStatus' = lostStatus \cup {"unstored"}
        /\ spent < MaxTyped /\ spent' = spent + 1
        /\ UNCHANGED <<stored, asking, asked, wrong, passed>>
    BY <1>5 DEF StatusLost, StatusSkips, Spend, PhaseOf
  <2>2. patches' \in Seq(HeaderCalls(Values)) /\ Len(patches') = Len(patches)
    <3>1. "error" \in Phases /\ "ok" \in Phases
      BY DEF Phases
    <3> QED
      BY <1>2, <2>1, <3>1, PhaseChanged
  <2>3. spent' \in 0..MaxTyped /\ patches' # <<>>
    BY <1>0, <1>2, <2>1, <2>2, HeaderTypes
  <2>4. HeaderTypeOK'
    <3>1. lostStatus' \subseteq {"overtaken", "failed", "unstored"}
      BY <1>0, <2>1 DEF HeaderTypeOK
    <3> QED
      BY <1>0, <1>1, <2>1, <2>2, <2>3, <3>1 DEF HeaderTypeOK, HeaderCalls, Values
  <2>5. TitleDue' /\ StatusDue' /\ NotAhead' /\ TitleAhead'
    BY <1>0, <1>1, <2>1 DEF TitleDue, StatusDue, NotAhead, TitleAhead
  <2>6. HeaderCurrent'
    BY <2>3 DEF HeaderCurrent
  <2> QED
    BY <2>4, <2>5, <2>6 DEF HeaderInv
<1>6. ASSUME NEW i \in DOMAIN patches, StatusAnswered(i)
      PROVE  HeaderInv'
  <2>1. /\ patches[i].at # "sent" /\ patches' = Without(patches, i)
        /\ Ended(patches[i]) /\ UNCHANGED <<stored, spent, asked, lostStatus>>
    BY <1>6 DEF StatusAnswered
  <2>2. /\ patches' \in Seq(HeaderCalls(Values)) /\ Len(patches') = Len(patches) - 1
        /\ \A v, base : Due(patches, v, base) => Due(patches', v, base)
    <3>1. PICK rest : rest = Without(patches, i)
      OBVIOUS
    <3>2. /\ rest \in Seq(HeaderCalls(Values)) /\ Len(rest) = Len(patches) - 1
          /\ \A v, base : Due(patches, v, base) => Due(rest, v, base)
      BY <1>2, <2>1, <3>1, DueWhenAnswered
    <3> QED
      BY <2>1, <3>1, <3>2
  <2>3. patches[i].at \in {"ok", "error"}
    <3>1. patches[i] \in HeaderCalls(Values)
      BY <1>2
    <3> QED
      BY <2>1, <3>1 DEF HeaderCalls, Phases
  <2>4. /\ HeaderCurrent' /\ wrong' \in BOOLEAN /\ passed' \in BOOLEAN
        /\ asking' \in {"none", "sent", "served"}
        /\ wrong => wrong'
    BY <1>0, <1>1, <2>1, <2>3, EndedCurrent
  <2>5. Len(patches') <= MaxSends
    <3>1. Len(patches) <= MaxSends /\ Len(patches) \in Nat /\ MaxSends \in Nat
      BY <1>0, <1>2, HeaderAssumption DEF HeaderTypeOK
    <3> QED
      BY <2>2, <3>1
  <2>6. HeaderTypeOK'
    BY <1>0, <1>1, <2>1, <2>2, <2>4, <2>5 DEF HeaderTypeOK, HeaderCalls, Values
  <2>7. TitleDue' /\ StatusDue' /\ NotAhead'
    BY <1>0, <1>1, <2>1, <2>2 DEF TitleDue, StatusDue, NotAhead
  <2>8. TitleAhead'
    <3>1. ~wrong' => ~wrong
      BY <2>4
    <3>2. UNCHANGED <<present, survey, known, stored, surveyTitle, titleSaveTimer, titlePuts,
                      lostTitle>>
      BY <1>1, <2>1
    <3> QED
      BY <1>0, <3>1, <3>2, Zenon DEF TitleAhead
  <2> QED
    BY <2>4, <2>6, <2>7, <2>8 DEF HeaderInv
<1> QED
  BY <1>3, <1>4, <1>5, <1>6

\* The page is left, shown again, or closed.
LEMMA LeavingKeepsHeader ==
  ASSUME HeaderInv, LeaveHeader \/ ReturnToHeader \/ CloseHeader
  PROVE  HeaderInv'
<1>0. HeaderTypeOK /\ TitleDue /\ StatusDue /\ NotAhead /\ HeaderCurrent /\ TitleAhead
  BY DEF HeaderInv
<1>1. UNCHANGED <<stored, titlePuts, patches, typed, asked, lostStatus, wrong>>
  BY DEF LeaveHeader, ReturnToHeader, CloseHeader
<1>2. StatusDue'
  BY <1>0, <1>1 DEF StatusDue
<1>3. CASE LeaveHeader
  <2>1. /\ present = "open" /\ present' = "left"
        /\ UNCHANGED <<survey, known, asking, reply, surveyTitle, titleSaveTimer, spent,
                       lostTitle, passed>>
    BY <1>3 DEF LeaveHeader
  <2>2. HeaderTypeOK'
    BY <1>0, <1>1, <2>1 DEF HeaderTypeOK
  <2>3. TitleDue' /\ NotAhead' /\ HeaderCurrent' /\ TitleAhead'
    BY <1>0, <1>1, <2>1 DEF TitleDue, NotAhead, HeaderCurrent, TitleAhead
  <2> QED
    BY <1>2, <2>2, <2>3 DEF HeaderInv
<1>4. CASE ReturnToHeader
  <2>1. /\ present = "left" /\ present' = "open" /\ ~titleSaveTimer
        /\ surveyTitle' = IF known THEN survey.title ELSE 0
        /\ spent < MaxTyped /\ spent' = spent + 1
        /\ IF asking = "none" THEN asking' = "sent" /\ passed' = FALSE
           ELSE UNCHANGED <<asking, passed>>
        /\ UNCHANGED <<survey, known, reply, titleSaveTimer, lostTitle>>
    BY <1>4 DEF ReturnToHeader, Spend
  <2>2. surveyTitle' \in 0..MaxTyped /\ spent' \in 0..MaxTyped
    <3>1. survey.title \in 0..MaxTyped /\ 0 \in 0..MaxTyped
      BY <1>0, HeaderTypes DEF Survey
    <3>2. spent' \in 0..MaxTyped
      BY <1>0, <2>1, HeaderTypes
    <3> QED
      BY <2>1, <3>1, <3>2
  <2>3. HeaderTypeOK'
    <3>1. asking' \in {"none", "sent", "served"} /\ passed' \in BOOLEAN
      BY <1>0, <2>1 DEF HeaderTypeOK
    <3> QED
      BY <1>0, <1>1, <2>1, <2>2, <3>1 DEF HeaderTypeOK
  <2>4. TitleDue' /\ NotAhead'
    BY <1>0, <1>1, <2>1 DEF TitleDue, NotAhead
  <2>5. HeaderCurrent' /\ TitleAhead'
    BY <1>0, <1>1, <2>1 DEF HeaderCurrent, TitleAhead
  <2> QED
    BY <1>2, <2>3, <2>4, <2>5 DEF HeaderInv
<1>5. CASE CloseHeader
  <2>1. /\ present' = "closed" /\ titleSaveTimer' = FALSE
        /\ lostTitle' = IF titleSaveTimer THEN lostTitle \cup {"closed"} ELSE lostTitle
        /\ asking' = "none" /\ reply' = Draft /\ survey' = Draft /\ known' = FALSE
        /\ surveyTitle' = 0 /\ UNCHANGED <<spent, passed>>
    BY <1>5 DEF CloseHeader
  <2>2. HeaderTypeOK'
    <3>1. 0 \in 0..MaxTyped
      BY <1>0, HeaderTypes
    <3>2. lostTitle' \subseteq {"reset", "overtaken", "failed", "unstored", "closed"}
      BY <1>0, <2>1 DEF HeaderTypeOK
    <3> QED
      BY <1>0, <1>1, <2>1, <3>1, <3>2, DraftType DEF HeaderTypeOK
  <2>3. TitleDue'
    <3>1. lostTitle' = {} => lostTitle = {} /\ ~titleSaveTimer
      BY <2>1
    <3> QED
      BY <1>0, <1>1, <2>1, <3>1 DEF TitleDue
  <2>4. NotAhead'
    BY <1>0, <1>1, <2>1, HeaderTypes, DraftType DEF NotAhead
  <2>5. HeaderCurrent' /\ TitleAhead'
    BY <2>1 DEF HeaderCurrent, TitleAhead
  <2> QED
    BY <1>2, <2>2, <2>3, <2>4, <2>5 DEF HeaderInv
<1> QED
  BY <1>3, <1>4, <1>5

\* Every step of the builder page keeps HeaderInv.
LEMMA HeaderInvHolds == Spec => []HeaderInv
<1>1. Init => HeaderInv
  BY HeaderInitInv DEF Init
<1>2. HeaderInv /\ [Next]_builderVars => HeaderInv'
  <2> SUFFICES ASSUME HeaderInv, [Next]_builderVars
               PROVE  HeaderInv'
    OBVIOUS
  <2>1. CASE HeaderNext
    BY <2>1, QueryKeepsHeader, TypingKeepsHeader, TitleCallKeepsHeader, StatusKeepsHeader,
       LeavingKeepsHeader DEF HeaderNext
  <2>2. CASE UNCHANGED headerVars
    BY <2>2 DEF headerVars, HeaderInv, HeaderTypeOK, TitleDue, StatusDue, NotAhead,
                HeaderCurrent, TitleAhead
  <2> QED
    BY <2>1, <2>2 DEF Next, builderVars
<1> QED
  BY <1>1, <1>2, PTL DEF Spec

\* HeaderIsTrue: with nothing under way the title last typed and the status last
\* asked for are stored, or one of the named causes has come between, and the page
\* shows what is stored: handleTitleChange(), saveTitle and the status button of
\* SurveyBuilderPage.tsx, in whatever order their calls and the query are served, and
\* with Go's UPDATEs that fail and are answered as if they had not.
THEOREM HeaderTrue == Spec => []HeaderIsTrue
<1>1. HeaderInv => HeaderIsTrue
  <2> SUFFICES ASSUME HeaderInv
               PROVE  HeaderLossExplained /\ HeaderShowsStored
    BY DEF HeaderIsTrue
  <2>1. HeaderTypeOK /\ TitleDue /\ StatusDue /\ HeaderCurrent /\ TitleAhead
    BY DEF HeaderInv
  <2>2. HeaderLossExplained
    <3> SUFFICES ASSUME HeaderQuiet
                 PROVE  /\ stored.title # typed => lostTitle # {}
                        /\ stored.status # asked => lostStatus # {}
      BY DEF HeaderLossExplained
    <3>1. ~titleSaveTimer /\ Sent(titlePuts) = {} /\ Sent(patches) = {}
      BY DEF HeaderQuiet, Sent
    <3> QED
      BY <2>1, <3>1 DEF TitleDue, StatusDue, Due
  <2>3. HeaderShowsStored
    <3> SUFFICES ASSUME HeaderQuiet, present = "open", asking = "none", known, ~wrong, ~passed
                 PROVE  survey = stored /\ (surveyTitle = stored.title \/ "unstored" \in lostTitle)
      BY DEF HeaderShowsStored
    <3>1. ~titleSaveTimer /\ titlePuts = <<>> /\ patches = <<>>
      BY DEF HeaderQuiet
    <3>2. survey = stored
      BY <2>1, <3>1 DEF HeaderCurrent
    <3>3. ~(survey.updated_at < stored.updated_at)
      BY <2>1, <3>2, HeaderTypes
    <3>4. ~ \E i \in DOMAIN titlePuts : titlePuts[i].at \in {"sent", "error"}
      BY <3>1
    <3>5. surveyTitle = survey.title \/ "unstored" \in lostTitle
      BY <2>1, <3>1, <3>3, <3>4 DEF TitleAhead
    <3> QED
      BY <3>2, <3>5
  <2> QED
    BY <2>2, <2>3
<1> QED
  BY <1>1, HeaderInvHolds, PTL

-----------------------------------------------------------------------------
(* The saves under way.                                                    *)

PutCalls == [id : Questions, row : Row, mine : BOOLEAN, rest : SUBSET Fields,
             at : {"sent", "ok", "error"}]

\* What is due of a question depends on its saves that are not served.
LEMMA SameSavesSameDue ==
  ASSUME NEW saves, NEW now, NEW q,
         \A f \in Fields : SentFor(now, q, f) = SentFor(saves, q, f),
         \A f \in Fields : \A i \in SentFor(saves, q, f) : now[i].row = saves[i].row
  PROVE  \A row, base : DueRow(saves, q, row, base) => DueRow(now, q, row, base)
<1> SUFFICES ASSUME NEW row, NEW base, NEW f \in Fields, DueField(saves, q, f, row, base)
             PROVE  DueField(now, q, f, row, base)
  BY DEF DueRow
<1> QED
  BY DEF DueField

\* A save more is what is due of its question.
LEMMA SaveAdded ==
  ASSUME NEW saves \in Seq(PutCalls), NEW e \in PutCalls, e.at = "sent", e.rest = Fields
  PROVE  LET now == Append(saves, e)
         IN /\ now \in Seq(PutCalls) /\ Len(now) = Len(saves) + 1
            /\ \A base : DueRow(now, e.id, e.row, base)
            /\ \A q \in Questions \ {e.id} :
                  \A row, base : DueRow(saves, q, row, base) => DueRow(now, q, row, base)
            /\ \A j \in DOMAIN now : now[j] = e \/ \E k \in DOMAIN saves : now[j] = saves[k]
            /\ \A k \in DOMAIN saves : \E j \in DOMAIN now : now[j] = saves[k]
<1>1. PICK now : now = Append(saves, e)
  OBVIOUS
<1>2. /\ now \in Seq(PutCalls) /\ Len(now) = Len(saves) + 1
      /\ DOMAIN now = 1 .. Len(saves) + 1 /\ Len(saves) \in Nat
      /\ DOMAIN saves = 1 .. Len(saves) /\ now[Len(saves) + 1] = e
      /\ \A j \in 1 .. Len(saves) : now[j] = saves[j]
  BY <1>1, AppendedEntry
<1>3. PICK n \in Nat : n = Len(saves)
  BY <1>2
<1>5. ASSUME NEW base, NEW f \in Fields PROVE DueField(now, e.id, f, e.row, base)
  <2>1. /\ n + 1 \in SentFor(now, e.id, f)
        /\ \A j \in SentFor(now, e.id, f) : j <= n + 1
    BY <1>2, <1>3 DEF SentFor
  <2> QED
    BY <1>2, <1>3, <2>1 DEF DueField
<1>6. ASSUME NEW q \in Questions \ {e.id}
      PROVE  \A row, base : DueRow(saves, q, row, base) => DueRow(now, q, row, base)
  <2>1. \A f \in Fields : SentFor(now, q, f) = SentFor(saves, q, f)
    BY <1>2, <1>3 DEF SentFor
  <2>2. \A f \in Fields : \A i \in SentFor(saves, q, f) : now[i].row = saves[i].row
    BY <1>2 DEF SentFor
  <2> QED
    BY <2>1, <2>2, SameSavesSameDue
<1>7. \A j \in DOMAIN now : now[j] = e \/ \E k \in DOMAIN saves : now[j] = saves[k]
  BY <1>2, <1>3
<1>8. \A k \in DOMAIN saves : \E j \in DOMAIN now : now[j] = saves[k]
  BY <1>2, <1>3
<1>9. \A base : DueRow(now, e.id, e.row, base)
  BY <1>5 DEF DueRow
<1> QED
  BY <1>1, <1>2, <1>6, <1>7, <1>8, <1>9

\* The saves after save i has got phase a, and after it has also something less, r,
\* to store.
SavePhase(saves, i, a) == [saves EXCEPT ![i].at = a]
SaveCarried(saves, i, r, a) == [saves EXCEPT ![i].rest = r, ![i].at = a]

\* The saves are what they were, but for how far save i has come.
Stepped(saves, now, i) ==
    /\ now \in Seq(PutCalls) /\ Len(now) = Len(saves) /\ DOMAIN now = DOMAIN saves
    /\ \A j \in DOMAIN saves \ {i} : now[j] = saves[j]
    /\ \A j \in DOMAIN saves : now[j].id = saves[j].id /\ now[j].row = saves[j].row
    /\ saves[i].id \in Questions /\ saves[i].row \in Row
    /\ saves[i].rest \in SUBSET Fields

\* A save with another phase, another rest, and the other saves as they were.
LEMMA SaveChanged ==
  ASSUME NEW saves \in Seq(PutCalls), NEW i \in DOMAIN saves, NEW a \in Phases, NEW now,
         NEW r \in SUBSET Fields,
         \/ now = SavePhase(saves, i, a) /\ r = saves[i].rest
         \/ now = SaveCarried(saves, i, r, a)
  PROVE  Stepped(saves, now, i) /\ now[i].at = a /\ now[i].rest = r
<1>1. PICK n \in Nat : n = Len(saves) /\ DOMAIN saves = 1 .. n /\ saves \in [1 .. n -> PutCalls]
  OBVIOUS
<1>2. PICK c \in PutCalls : c = saves[i]
  BY <1>1
<1>3. PICK d : d = [c EXCEPT !.rest = r, !.at = a]
  OBVIOUS
<1>4. /\ d \in PutCalls /\ d.at = a /\ d.rest = r /\ d.id = c.id /\ d.row = c.row
      /\ c.id \in Questions /\ c.row \in Row /\ c.rest \in SUBSET Fields
  BY <1>2, <1>3 DEF PutCalls, Phases
<1>5. now = [saves EXCEPT ![i] = d]
  <2>1. CASE now = SaveCarried(saves, i, r, a)
    <3>1. now = [saves EXCEPT ![i] = [[saves[i] EXCEPT !.rest = r] EXCEPT !.at = a]]
      BY <1>1, <2>1 DEF SaveCarried
    <3>2. d = [[c EXCEPT !.rest = r] EXCEPT !.at = a]
      BY <1>3
    <3> QED
      BY <1>2, <3>1, <3>2
  <2>2. CASE now = SavePhase(saves, i, a) /\ r = saves[i].rest
    <3>1. PICK e : e = [c EXCEPT !.at = a]
      OBVIOUS
    <3>2. now = [saves EXCEPT ![i] = e]
      BY <1>2, <2>2, <3>1, Zenon DEF SavePhase
    <3>3. d = e
      BY <1>2, <1>3, <2>2, <3>1 DEF PutCalls
    <3> QED
      BY <3>2, <3>3
  <2> QED
    BY <2>1, <2>2
<1>7. /\ now \in [1 .. n -> PutCalls] /\ DOMAIN now = DOMAIN saves
      /\ now[i] = d /\ \A j \in DOMAIN saves \ {i} : now[j] = saves[j]
  BY <1>1, <1>4, <1>5
<1>8. now \in Seq(PutCalls) /\ Len(now) = n
  BY <1>1, <1>7
<1> QED
  BY <1>1, <1>2, <1>4, <1>7, <1>8 DEF Stepped

\* What is due of the other questions stays due when a save moves on, and of its own
\* question when it has been served before.
LEMMA DueElsewhere ==
  ASSUME NEW saves \in Seq(PutCalls), NEW now, NEW i \in DOMAIN saves, Stepped(saves, now, i),
         NEW q, q # saves[i].id \/ (saves[i].at # "sent" /\ now[i].at # "sent")
  PROVE  \A row, base : DueRow(saves, q, row, base) => DueRow(now, q, row, base)
<1>1. \A f \in Fields : SentFor(now, q, f) = SentFor(saves, q, f)
  BY DEF SentFor, Stepped
<1>2. \A f \in Fields : \A j \in SentFor(saves, q, f) : now[j].row = saves[j].row
  BY DEF SentFor, Stepped
<1> QED
  BY <1>1, <1>2, SameSavesSameDue

\* What is due stays due when a save stores fields that no older save has still to
\* store.
LEMMA DueRowServed ==
  ASSUME NEW saves \in Seq(PutCalls), NEW now, NEW i \in DOMAIN saves, Stepped(saves, now, i),
         NEW parts \in SUBSET saves[i].rest,
         saves[i].at = "sent", now[i].rest = saves[i].rest \ parts,
         now[i].rest # {} => now[i].at = "sent",
         \A f \in parts : \A j \in 1 .. (i - 1) :
            ~(saves[j].id = saves[i].id /\ saves[j].at = "sent" /\ f \in saves[j].rest),
         NEW row, NEW base, DueRow(saves, saves[i].id, row, base)
  PROVE  DueRow(now, saves[i].id, row, Changed(base, saves[i].row, parts))
<1>1. PICK q : q = saves[i].id
  OBVIOUS
<1>2. PICK new : new = Changed(base, saves[i].row, parts)
  OBVIOUS
<1>3. \A f \in Fields : new[f] = IF f \in parts THEN saves[i].row[f] ELSE base[f]
  BY <1>2 DEF Changed, Fields
<1> SUFFICES ASSUME NEW f \in Fields
             PROVE  DueField(now, q, f, row, new)
  BY <1>1, <1>2 DEF DueRow
<1>4. DueField(saves, q, f, row, base)
  BY <1>1 DEF DueRow
<1>5. CASE f \in parts
  <2>1. SentFor(now, q, f) = SentFor(saves, q, f) \ {i} /\ i \in SentFor(saves, q, f)
    BY <1>1, <1>5 DEF SentFor, Stepped
  <2>2. PICK k \in SentFor(saves, q, f) :
           saves[k].row[f] = row[f] /\ \A j \in SentFor(saves, q, f) : j <= k
    BY <1>4, <2>1 DEF DueField
  <2>3. CASE k = i
    <3>1. ASSUME NEW j \in SentFor(saves, q, f) PROVE j = i
      <4> SUFFICES ASSUME j # i PROVE FALSE
        OBVIOUS
      <4>1. j \in Nat /\ i \in Nat /\ j >= 1 /\ j <= i
        BY <2>2, <2>3 DEF SentFor
      <4>2. j \in 1 .. (i - 1)
        BY <4>1
      <4> QED
        BY <1>1, <1>5, <4>2 DEF SentFor
    <3> QED
      BY <1>3, <1>5, <2>1, <2>2, <2>3, <3>1 DEF DueField
  <2>4. CASE k # i
    <3>1. k \in SentFor(now, q, f) /\ now[k].row = saves[k].row
          /\ \A j \in SentFor(now, q, f) : j <= k
      BY <2>1, <2>2, <2>4 DEF SentFor, Stepped
    <3> QED
      BY <2>2, <3>1 DEF DueField
  <2> QED
    BY <2>3, <2>4
<1>6. CASE f \notin parts
  <2>1. SentFor(now, q, f) = SentFor(saves, q, f)
    BY <1>6 DEF SentFor, Stepped
  <2>2. \A j \in SentFor(saves, q, f) : now[j].row = saves[j].row
    BY DEF SentFor, Stepped
  <2> QED
    BY <1>3, <1>4, <1>6, <2>1, <2>2 DEF DueField
<1> QED
  BY <1>5, <1>6

\* A save that was served is answered.
LEMMA SaveGone ==
  ASSUME NEW saves \in Seq(PutCalls), NEW i \in DOMAIN saves
  PROVE  LET rest == SubSeq(saves, 1, i - 1) \o SubSeq(saves, i + 1, Len(saves))
         IN /\ rest \in Seq(PutCalls) /\ Len(rest) = Len(saves) - 1
            /\ \A j \in DOMAIN rest : \E k \in DOMAIN saves : rest[j] = saves[k]
            /\ \A k \in DOMAIN saves \ {i} : \E j \in DOMAIN rest : rest[j] = saves[k]
            /\ saves[i].at # "sent" =>
                  \A q, row, base : DueRow(saves, q, row, base) => DueRow(rest, q, row, base)
<1>1. PICK rest : rest = SubSeq(saves, 1, i - 1) \o SubSeq(saves, i + 1, Len(saves))
  OBVIOUS
<1>2. PICK n \in Nat : n = Len(saves) /\ DOMAIN saves = 1 .. n /\ i \in 1 .. n
  OBVIOUS
<1>3. /\ rest \in Seq(PutCalls) /\ Len(rest) = n - 1
      /\ DOMAIN rest = 1 .. n - 1
      /\ \A j \in 1 .. n - 1 : rest[j] = IF j < i THEN saves[j] ELSE saves[j + 1]
  BY <1>1, <1>2, RemovedEntry
<1>4. ASSUME NEW k \in 1 .. n, k # i
      PROVE  \E j \in 1 .. n - 1 : rest[j] = saves[k] /\ j = IF k < i THEN k ELSE k - 1
  <2>1. CASE k < i
    <3>1. k \in 1 .. n - 1
      BY <1>2, <1>4, <2>1
    <3> QED
      BY <1>3, <2>1, <3>1
  <2>2. CASE k > i
    <3>1. k - 1 \in 1 .. n - 1 /\ ~(k - 1 < i) /\ (k - 1) + 1 = k /\ ~(k < i)
      BY <1>2, <1>4, <2>2
    <3> QED
      BY <1>3, <3>1
  <2> QED
    BY <1>2, <1>4, <2>1, <2>2
<1>5. ASSUME NEW j \in 1 .. n - 1
      PROVE  /\ rest[j] = saves[IF j < i THEN j ELSE j + 1]
             /\ (IF j < i THEN j ELSE j + 1) \in 1 .. n
  <2>1. j \in 1 .. n /\ j + 1 \in 1 .. n
    BY <1>2
  <2> QED
    BY <1>3, <2>1
<1>6. ASSUME saves[i].at # "sent", NEW q, NEW row, NEW base, NEW f \in Fields,
             DueField(saves, q, f, row, base)
      PROVE  DueField(rest, q, f, row, base)
  <2>1. \A j \in SentFor(rest, q, f) : (IF j < i THEN j ELSE j + 1) \in SentFor(saves, q, f)
    <3> SUFFICES ASSUME NEW j \in 1 .. n - 1, rest[j].id = q, rest[j].at = "sent",
                        f \in rest[j].rest
                 PROVE  (IF j < i THEN j ELSE j + 1) \in SentFor(saves, q, f)
      BY <1>3 DEF SentFor
    <3>1. PICK p \in 1 .. n : p = (IF j < i THEN j ELSE j + 1) /\ rest[j] = saves[p]
      BY <1>5
    <3> QED
      BY <1>2, <3>1 DEF SentFor
  <2>2. CASE SentFor(saves, q, f) = {} /\ base[f] = row[f]
    BY <2>1, <2>2 DEF DueField
  <2>3. CASE \E k \in SentFor(saves, q, f) :
                saves[k].row[f] = row[f] /\ \A j \in SentFor(saves, q, f) : j <= k
    <3>1. PICK k \in SentFor(saves, q, f) :
             saves[k].row[f] = row[f] /\ \A j \in SentFor(saves, q, f) : j <= k
      BY <2>3
    <3>2. k \in 1 .. n /\ k # i /\ saves[k].at = "sent" /\ saves[k].id = q /\ f \in saves[k].rest
      BY <1>2, <1>6, <3>1 DEF SentFor
    <3>3. PICK p \in 1 .. n - 1 : rest[p] = saves[k] /\ p = IF k < i THEN k ELSE k - 1
      BY <1>4, <3>2
    <3>4. p \in SentFor(rest, q, f) /\ rest[p].row = saves[k].row
      BY <1>3, <3>1, <3>2, <3>3 DEF SentFor
    <3>5. ASSUME NEW j \in SentFor(rest, q, f) PROVE j <= p
      <4>1. (IF j < i THEN j ELSE j + 1) <= k
        BY <2>1, <3>1
      <4>2. j \in 1 .. n - 1
        BY <1>3 DEF SentFor
      <4> QED
        BY <1>2, <3>2, <3>3, <4>1, <4>2
    <3> QED
      BY <3>1, <3>4, <3>5 DEF DueField
  <2> QED
    BY <1>6, <2>2, <2>3 DEF DueField
<1>7. saves[i].at # "sent" =>
         \A q, row, base : DueRow(saves, q, row, base) => DueRow(rest, q, row, base)
  BY <1>6 DEF DueRow
<1> QED
  BY <1>1, <1>2, <1>3, <1>4, <1>5, <1>7

\* The page that sent the saves is left.
LEMMA SavesLeft ==
  ASSUME NEW saves \in Seq(PutCalls)
  PROVE  LET now == [i \in DOMAIN saves |-> [saves[i] EXCEPT !.mine = FALSE]]
         IN /\ now \in Seq(PutCalls) /\ Len(now) = Len(saves) /\ DOMAIN now = DOMAIN saves
            /\ \A j \in DOMAIN saves : /\ now[j].id = saves[j].id /\ now[j].row = saves[j].row
                                       /\ now[j].at = saves[j].at /\ now[j].rest = saves[j].rest
            /\ \A q, row, base : DueRow(saves, q, row, base) => DueRow(now, q, row, base)
<1>1. PICK now : now = [i \in DOMAIN saves |-> [saves[i] EXCEPT !.mine = FALSE]]
  OBVIOUS
<1>2. PICK n \in Nat : n = Len(saves) /\ DOMAIN saves = 1 .. n /\ saves \in [1 .. n -> PutCalls]
  OBVIOUS
<1>3. ASSUME NEW j \in 1 .. n
      PROVE  /\ now[j] \in PutCalls /\ now[j].id = saves[j].id
             /\ now[j].row = saves[j].row /\ now[j].at = saves[j].at
             /\ now[j].rest = saves[j].rest
  <2>1. PICK c \in PutCalls : c = saves[j]
    BY <1>2
  <2>2. now[j] = [c EXCEPT !.mine = FALSE]
    BY <1>1, <1>2, <2>1
  <2>3. PICK d : d = [c EXCEPT !.mine = FALSE]
    OBVIOUS
  <2>4. d \in PutCalls /\ d.id = c.id /\ d.row = c.row /\ d.at = c.at /\ d.rest = c.rest
    BY <2>1, <2>3 DEF PutCalls
  <2> QED
    BY <2>1, <2>2, <2>3, <2>4
<1>4. now \in [1 .. n -> PutCalls]
  BY <1>1, <1>2, <1>3
<1>5. now \in Seq(PutCalls) /\ Len(now) = n /\ DOMAIN now = DOMAIN saves
  BY <1>2, <1>4
<1>6. ASSUME NEW q
      PROVE  \A row, base : DueRow(saves, q, row, base) => DueRow(now, q, row, base)
  <2>1. \A f \in Fields : SentFor(now, q, f) = SentFor(saves, q, f)
    BY <1>2, <1>3, <1>5 DEF SentFor
  <2>2. \A f \in Fields : \A j \in SentFor(saves, q, f) : now[j].row = saves[j].row
    BY <1>2, <1>3 DEF SentFor
  <2> QED
    BY <2>1, <2>2, SameSavesSameDue
<1> QED
  BY <1>1, <1>2, <1>3, <1>5, <1>6

-----------------------------------------------------------------------------
(* The editor: what its handlers do.                                       *)

\* Questions are numbered from 1, and none is None.
LEMMA QuestionIds ==
  /\ IsFiniteSet(Questions) /\ Cardinality(Questions) \in Nat
  /\ Questions \subseteq Nat /\ Questions = 1..Cardinality(Questions)
  /\ Existing \in 0..Cardinality(Questions)
  /\ MaxActs \in Nat /\ MaxPuts \in Nat \ {0} /\ MaxFaults \in Nat
  /\ None \notin Questions /\ None \notin Row /\ None \notin Edited
  /\ NewRow \in Row
<1>1. IsFiniteSet(Questions) /\ Questions = 1..Cardinality(Questions)
  BY EditorAssumption
<1>2. Cardinality(Questions) \in Nat
  BY <1>1, FS_CardinalityType
<1>3. NewRow \in Row
  BY EditorAssumption DEF NewRow, Row
<1> QED
  BY <1>1, <1>2, <1>3, EditorAssumption, NoneAssumption

\* A set of numbers that is not empty has a least one.
LEMMA LeastNatural ==
  ASSUME NEW S, S \subseteq Nat, S # {}
  PROVE  \E m \in S : \A x \in S : m <= x
<1>1. IsWellFoundedOn(OpToRel(<, Nat), Nat)
  BY NatLessThanWellFounded
<1>2. PICK m \in S : \A y \in S : ~(<<y, m>> \in OpToRel(<, Nat))
  BY <1>1, WFMin
<1>3. \A y \in S : ~(y < m)
  BY <1>2 DEF OpToRel
<1> QED
  BY <1>3

\* The first question of a list that has any.
LEMMA FirstListed ==
  ASSUME NEW c, Listed(c) # {}
  PROVE  Min(Listed(c)) \in Listed(c) /\ Min(Listed(c)) \in Questions
<1>1. Listed(c) \subseteq Nat /\ Listed(c) \subseteq Questions
  BY QuestionIds DEF Listed
<1>2. \E m \in Listed(c) : \A x \in Listed(c) : m <= x
  BY <1>1, LeastNatural
<1> QED
  BY <1>1, <1>2 DEF Min

\* A render: the editor keeps what it is given, or takes the question selected.
LEMMA RenderFacts ==
  ASSUME NEW c \in Rows, NEW s \in Questions \cup {None}, NEW picking \in BOOLEAN,
         NEW e \in Edited \cup {None}, Render(c, s, picking, e)
  PROVE  /\ cache' = c /\ pickingType' = picking
         /\ selectedId' \in Questions \cup {None} /\ editingQ' \in Edited \cup {None}
         /\ \/ editingQ' = e
            \/ /\ selectedId' \in Listed(c) /\ editingQ'.id = selectedId'
         /\ Selected(c, selectedId') # None =>
               \/ editingQ'.id = selectedId'
               \/ Selected(c, selectedId') = Selected(cache, selectedId) /\ editingQ' = e
         /\ c = cache => selectedId' = s
         /\ /\ c = cache \/ s = selectedId
            /\ Selected(cache, selectedId) # None /\ selectedId' = selectedId
            => editingQ' = e
<1> DEFINE chosen == /\ Cardinality(Listed(c)) # Cardinality(Listed(cache))
                     /\ Listed(c) # {} /\ s = None /\ ~picking
           now == IF chosen THEN Min(Listed(c)) ELSE s
<1>1. /\ cache' = c /\ selectedId' = now /\ pickingType' = picking
      /\ editingQ' = Reloaded(c, now, chosen, e)
  BY DEF Render
<1>2. chosen => /\ Min(Listed(c)) \in Listed(c) /\ Min(Listed(c)) \in Questions
                /\ s = None /\ c # cache
  BY FirstListed
<1> HIDE DEF chosen
<1>3. now \in Questions \cup {None} /\ (c = cache => now = s)
  BY <1>2
<1>4. \/ editingQ' = e
      \/ /\ Selected(c, now) # None /\ editingQ' = [id |-> now, row |-> c[now]]
  BY <1>1 DEF Reloaded
<1>5. Selected(c, now) # None => now \in Listed(c) /\ now \in Questions /\ c[now] \in Row
  BY DEF Selected, Listed, Rows
<1>6. editingQ' \in Edited \cup {None}
  BY <1>4, <1>5 DEF Edited
<1>7. Selected(c, now) # None =>
         \/ editingQ' = [id |-> now, row |-> c[now]]
         \/ Selected(c, now) = Selected(cache, selectedId) /\ editingQ' = e
  BY <1>1 DEF Reloaded
<1>8. ASSUME c = cache \/ s = selectedId, Selected(cache, selectedId) # None, now = selectedId
      PROVE  editingQ' = e
  <2>1. ~chosen
    BY <1>2, <1>8, QuestionIds DEF Selected, Listed
  <2>2. now = s /\ editingQ' = Reloaded(c, s, FALSE, e)
    <3>1. chosen = FALSE
      BY <2>1 DEF chosen
    <3> QED
      BY <1>1, <3>1, Zenon
  <2>3. Selected(c, s) # None => Selected(c, s) = s /\ Selected(cache, selectedId) = s
    BY <1>8, <2>2 DEF Selected
  <2> QED
    BY <2>2, <2>3 DEF Reloaded
<1> HIDE DEF now
<1> QED
  BY <1>1, <1>3, <1>4, <1>5, <1>6, <1>7, <1>8

\* invalidateQueries(): the list is asked for again, or is known to be old.
LEMMA InvalidateFacts ==
  ASSUME EditorTypeOK, Invalidate
  PROVE  /\ fetching' \in {"none", "sent", "served"}
         /\ outrun' \in BOOLEAN /\ stale' \in BOOLEAN
         /\ \/ fetching' = "sent"
            \/ outrun'
            \/ fetching' = "none" /\ visit # "open" /\ stale'
BY DEF EditorTypeOK, Invalidate

\* A save is sent.
LEMMA PutFacts ==
  ASSUME EditorTypeOK, NEW e \in Edited, Put(e)
  PROVE  /\ puts' \in Seq(PutCalls) /\ Len(puts') <= MaxPuts
         /\ \A base : DueRow(puts', e.id, e.row, base)
         /\ \A q \in Questions \ {e.id} :
               \A row, base : DueRow(puts, q, row, base) => DueRow(puts', q, row, base)
         /\ \A j \in DOMAIN puts' : \/ puts'[j].id = e.id
                                    \/ \E k \in DOMAIN puts : puts'[j] = puts[k]
         /\ \A k \in DOMAIN puts : \E j \in DOMAIN puts' : puts'[j] = puts[k]
<1>1. PICK call : call = [id |-> e.id, row |-> e.row, mine |-> visit = "open",
                          rest |-> Fields, at |-> "sent"]
  OBVIOUS
<1>2. /\ call \in PutCalls /\ call.at = "sent" /\ call.id = e.id /\ call.row = e.row
      /\ call.rest = Fields
  BY <1>1 DEF PutCalls, Edited
<1>3. /\ puts' = Append(puts, call) /\ Len(puts) < MaxPuts
      /\ puts \in Seq(PutCalls) /\ Len(puts) \in Nat /\ MaxPuts \in Nat
  BY <1>1, QuestionIds DEF Put, EditorTypeOK, PutCalls
<1>4. PICK now : now = Append(puts, call)
  OBVIOUS
<1>5. /\ now \in Seq(PutCalls) /\ Len(now) = Len(puts) + 1
      /\ \A base : DueRow(now, call.id, call.row, base)
      /\ \A q \in Questions \ {call.id} :
            \A row, base : DueRow(puts, q, row, base) => DueRow(now, q, row, base)
      /\ \A j \in DOMAIN now : now[j] = call \/ \E k \in DOMAIN puts : now[j] = puts[k]
      /\ \A k \in DOMAIN puts : \E j \in DOMAIN now : now[j] = puts[k]
  BY <1>2, <1>3, <1>4, SaveAdded
<1>6. Len(now) <= MaxPuts
  BY <1>3, <1>5
<1> QED
  BY <1>2, <1>3, <1>4, <1>5, <1>6

\* The bounds of the acts and of the calls lost.
LEMMA CountFacts ==
  ASSUME EditorTypeOK
  PROVE  /\ Acting => acts' \in 0..MaxActs /\ acts' # acts
         /\ Fault => faults' \in 0..MaxFaults /\ faults' # 0
<1>1. acts \in 0..MaxActs /\ faults \in 0..MaxFaults /\ MaxActs \in Nat /\ MaxFaults \in Nat
  BY QuestionIds DEF EditorTypeOK
<1> QED
  BY <1>1 DEF Acting, Fault

\* A save has been carried on with some of its fields.
LEMMA CarriedFacts ==
  ASSUME EditorTypeOK, NEW i \in DOMAIN puts, NEW parts \in SUBSET Fields, Carried(i, parts)
  PROVE  /\ puts \in Seq(PutCalls) /\ Stepped(puts, puts', i)
         /\ puts'[i].rest = puts[i].rest \ parts
         /\ puts'[i].rest # {} => puts'[i].at = "sent"
         /\ puts'[i].at = "error" => rows[puts[i].id] = None
<1>0. puts \in Seq(PutCalls)
  BY DEF EditorTypeOK, PutCalls
<1>1. puts \in Seq(PutCalls) /\ puts[i] \in PutCalls
  BY <1>0
<1>2. puts[i].rest \in SUBSET Fields
  BY <1>1 DEF PutCalls
<1>3. PICK r \in SUBSET Fields : r = puts[i].rest \ parts
  BY <1>2
<1>4. PICK a : /\ puts' = SaveCarried(puts, i, r, a)
               /\ a \in IF r # {} THEN {"sent"}
                        ELSE IF rows[puts[i].id] = None THEN {"ok", "error"} ELSE {"ok"}
  BY <1>3 DEF Carried, SaveCarried
<1>5. a \in Phases
  BY <1>4 DEF Phases
<1>6. Stepped(puts, puts', i) /\ puts'[i].at = a /\ puts'[i].rest = r
  BY <1>1, <1>4, <1>5, SaveChanged
<1> QED
  BY <1>1, <1>3, <1>4, <1>6

\* A save has stored some of its fields.
LEMMA StoreFacts ==
  ASSUME EditorTypeOK, NEW i \in DOMAIN puts, NEW parts \in SUBSET puts[i].rest,
         Store(i, parts)
  PROVE  /\ puts \in Seq(PutCalls) /\ Stepped(puts, puts', i)
         /\ puts'[i].rest = puts[i].rest \ parts
         /\ puts'[i].rest # {} => puts'[i].at = "sent"
         /\ puts'[i].at = "error" => rows[puts[i].id] = None
         /\ rows' \in Rows /\ \A q \in Questions \ {puts[i].id} : rows'[q] = rows[q]
         /\ rows[puts[i].id] = None => rows' = rows
         /\ rows[puts[i].id] # None =>
               /\ rows'[puts[i].id] = Changed(rows[puts[i].id], puts[i].row, parts)
               /\ rows'[puts[i].id] # None
         /\ excuse' \in [Questions -> SUBSET Causes]
         /\ \A q \in Questions : excuse'[q] = {} =>
               /\ excuse[q] = {}
               /\ q = puts[i].id => \A f \in parts : ~Overtaken(i, f)
<1>0. /\ puts \in Seq(PutCalls) /\ rows \in Rows
      /\ excuse \in [Questions -> SUBSET Causes]
  BY DEF EditorTypeOK, PutCalls
<1>1. /\ puts \in Seq(PutCalls) /\ puts[i] \in PutCalls /\ rows \in Rows
      /\ excuse \in [Questions -> SUBSET Causes]
  BY <1>0
<1>2. puts[i].rest \in SUBSET Fields /\ puts[i].id \in Questions /\ puts[i].row \in Row
  BY <1>1 DEF PutCalls
<1>3. parts \in SUBSET Fields /\ Carried(i, parts)
  BY <1>2 DEF Store
<1>4. PICK q \in Questions, new \in Row : q = puts[i].id /\ new = puts[i].row
  BY <1>2
<1>5. PICK row : row = IF rows[q] = None THEN None ELSE Changed(rows[q], new, parts)
  OBVIOUS
<1>6. row \in Row \cup {None} /\ (rows[q] # None => row # None)
  <2>1. CASE rows[q] # None
    <3>1. PICK old \in Row : old = rows[q]
      BY <1>1, <2>1 DEF Rows
    <3>2. Changed(old, new, parts) \in Row
      <4>1. /\ old.text \in 0..MaxActs /\ old.required \in BOOLEAN
            /\ new.text \in 0..MaxActs /\ new.required \in BOOLEAN
        BY DEF Row
      <4>2. PICK t \in 0..MaxActs : t = IF "text" \in parts THEN new.text ELSE old.text
        BY <4>1
      <4>3. PICK b \in BOOLEAN :
               b = IF "required" \in parts THEN new.required ELSE old.required
        BY <4>1, Zenon
      <4> QED
        BY <4>2, <4>3 DEF Changed, Row
    <3> QED
      BY <1>5, <2>1, <3>1, <3>2, QuestionIds
  <2> QED
    BY <1>5, <2>1
<1>7. rows' = [rows EXCEPT ![q] = row]
  BY <1>1, <1>4, <1>5, Zenon DEF Store
<1>8. /\ rows' \in Rows /\ \A p \in Questions \ {q} : rows'[p] = rows[p]
      /\ rows'[q] = row /\ (rows[q] = None => rows' = rows)
  <2>1. DOMAIN rows = Questions /\ rows \in [Questions -> Row \cup {None}]
    BY <1>1 DEF Rows
  <2>2. rows[q] = None => row = None
    BY <1>5
  <2> QED
    BY <1>6, <1>7, <2>1, <2>2 DEF Rows
<1>9. /\ excuse' \in [Questions -> SUBSET Causes]
      /\ \A p \in Questions : excuse'[p] = {} =>
            excuse[p] = {} /\ (p = q => \A f \in parts : ~Overtaken(i, f))
  <2>1. PICK why : why = IF \E f \in parts : Overtaken(i, f)
                            THEN excuse[q] \cup {"overtaken"} ELSE excuse[q]
    OBVIOUS
  <2>2. excuse' = [excuse EXCEPT ![q] = why]
    BY <1>4, <2>1, Zenon DEF Store
  <2>3. why \in SUBSET Causes
    BY <1>1, <2>1 DEF Causes
  <2>4. why = {} => excuse[q] = {} /\ \A f \in parts : ~Overtaken(i, f)
    BY <2>1
  <2> QED
    BY <1>1, <2>2, <2>3, <2>4
<1>10. /\ Stepped(puts, puts', i) /\ puts'[i].rest = puts[i].rest \ parts
       /\ puts'[i].rest # {} => puts'[i].at = "sent"
       /\ puts'[i].at = "error" => rows[puts[i].id] = None
  BY <1>3, CarriedFacts
<1> QED
  BY <1>1, <1>4, <1>5, <1>6, <1>8, <1>9, <1>10

\* The two ways in which a save is served: as a whole, or one of its fields first.
Serving(i) == PutServed(i) \/ \E f \in Fields : PutBegun(i, f)

LEMMA ServingFacts ==
  ASSUME EditorTypeOK, NEW i \in DOMAIN puts, Serving(i)
  PROVE  /\ puts[i].at = "sent" /\ acts' \in 0..MaxActs
         /\ \E parts \in SUBSET puts[i].rest :
               Store(i, parts) /\ puts[i].rest \ parts # Fields
         /\ UNCHANGED <<created, visit, queryVars, pageVars, post, deletes, faults,
                        wanted, refused, outrun>>
<1>1. CASE PutServed(i)
  <2>1. puts[i].rest \ puts[i].rest # Fields
    BY DEF Fields
  <2> QED
    BY <1>1, <2>1 DEF PutServed, EditorTypeOK
<1>2. ASSUME NEW f \in Fields, PutBegun(i, f)
      PROVE  /\ puts[i].at = "sent" /\ acts' \in 0..MaxActs
             /\ Store(i, {f}) /\ {f} \in SUBSET puts[i].rest
             /\ puts[i].rest \ {f} # Fields
             /\ UNCHANGED <<created, visit, queryVars, pageVars, post, deletes, faults,
                            wanted, refused, outrun>>
  BY <1>2, CountFacts DEF PutBegun
<1> QED
  BY <1>1, <1>2 DEF Serving

\* A statement of a save that is left out, unseen.
Skipping(i) == \E f \in Fields : PutSkips(i, f)

LEMMA SkippingFacts ==
  ASSUME EditorTypeOK, NEW i \in DOMAIN puts, Skipping(i)
  PROVE  /\ Stepped(puts, puts', i) /\ Fault
         /\ excuse' = [excuse EXCEPT ![puts[i].id] = @ \cup {"unstored"}]
         /\ UNCHANGED <<serverVars, visit, queryVars, pageVars, post, deletes, acts,
                        wanted, refused, outrun>>
<1>1. PICK f \in Fields : PutSkips(i, f)
  BY DEF Skipping
<1>2. Carried(i, {f}) /\ {f} \in SUBSET Fields
  BY <1>1 DEF PutSkips
<1> QED
  BY <1>1, <1>2, CarriedFacts DEF PutSkips

\* A save, or its answer, is lost.
LEMMA LostFacts ==
  ASSUME EditorTypeOK, NEW i \in DOMAIN puts, PutLost(i)
  PROVE  Stepped(puts, puts', i) /\ puts'[i].at = "error"
<1>0. puts \in Seq(PutCalls)
  BY DEF EditorTypeOK, PutCalls
<1>1. puts \in Seq(PutCalls) /\ puts[i] \in PutCalls
  BY <1>0
<1>2. PICK r \in SUBSET Fields : r = puts[i].rest
  BY <1>1 DEF PutCalls
<1>3. PICK now : now = SavePhase(puts, i, "error")
  OBVIOUS
<1>4. puts' = now /\ "error" \in Phases
  BY <1>3 DEF PutLost, SavePhase, Phases
<1>5. \/ now = SavePhase(puts, i, "error") /\ r = puts[i].rest
      \/ now = SaveCarried(puts, i, r, "error")
  BY <1>2, <1>3
<1>6. Stepped(puts, now, i) /\ now[i].at = "error"
  BY <1>1, <1>4, <1>5, SaveChanged
<1> QED
  BY <1>4, <1>6

\* A text is typed: the timer will send what the editor then shows.
LEMMA EditFacts ==
  ASSUME EditorTypeOK, EditText
  PROVE  \E e \in Edited :
            /\ editingQ # None /\ e.id = editingQ.id /\ editingQ' = e /\ qSaveTimer' = e
            /\ wanted' \in Rows
            /\ \A p \in Questions \ {e.id} : wanted'[p] = wanted[p]
            /\ wanted[e.id] = None <=> wanted'[e.id] = None
            /\ excuse' \in [Questions -> SUBSET Causes]
            /\ \A p \in Questions : excuse'[p] = {} =>
                  IF p = e.id THEN e.row = wanted'[p] ELSE excuse[p] = {} /\ ~OnTimer(p)
            /\ acts' \in 0..MaxActs /\ acts' # acts
            /\ saveState' = "saving" /\ visit = "open"
            /\ UNCHANGED <<serverVars, visit, queryVars, selectedId, pickingType, idleTimers,
                           callVars, faults, refused, outrun>>
<1>1. PICK r : r = editingQ
  OBVIOUS
<1>2. PICK v : v = acts + 1
  OBVIOUS
<1>3. acts \in 0..MaxActs /\ faults \in 0..MaxFaults /\ acts + faults < MaxActs /\ acts' = v
  BY <1>2 DEF EditText, Acting, EditorTypeOK
<1>4. v \in 0..MaxActs /\ v # acts
  BY <1>2, <1>3, QuestionIds
<1>5. r \in Edited /\ r.id \in Questions /\ r.row \in Row
  BY <1>1 DEF EditText, Panel, EditorTypeOK, Edited
<1>6. PICK new : new = [r.row EXCEPT !.text = v]
  OBVIOUS
<1>7. new \in Row
  BY <1>4, <1>5, <1>6 DEF Row
<1>8. PICK e : e = [id |-> r.id, row |-> new]
  OBVIOUS
<1>9. e \in Edited /\ e.id = r.id /\ e.row = new
  BY <1>5, <1>7, <1>8 DEF Edited
<1>10. PICK w : w = [wanted EXCEPT ![r.id] = IF @ = None THEN None ELSE [@ EXCEPT !.text = v]]
  OBVIOUS
<1>11. PICK dropped : dropped = IF qSaveTimer # None /\ qSaveTimer.id # r.id
                                  THEN {qSaveTimer.id} ELSE {}
  OBVIOUS
<1>12. /\ editingQ' = e /\ qSaveTimer' = e /\ wanted' = w
       /\ excuse' = [p \in Questions |->
                      IF p \in dropped THEN excuse[p] \cup {"switched"}
                      ELSE IF p = r.id /\ e.row = w[r.id] THEN {}
                      ELSE IF p = r.id THEN excuse[p] \cup {"stale"}
                      ELSE excuse[p]]
  <2>1. /\ editingQ' = [id |-> r.id, row |-> [editingQ.row EXCEPT !.text = v]]
        /\ qSaveTimer' = Scheduled(editingQ, v) /\ wanted' = w
        /\ excuse' = [p \in Questions |->
                      IF p \in dropped THEN excuse[p] \cup {"switched"}
                      ELSE IF p = r.id /\ editingQ'.row = w[r.id] THEN {}
                      ELSE IF p = r.id THEN excuse[p] \cup {"stale"}
                      ELSE excuse[p]]
    BY <1>1, <1>2, <1>10, <1>11, Zenon DEF EditText
  <2>2. editingQ' = e
    BY <1>1, <1>6, <1>8, <2>1, Zenon
  <2>3. qSaveTimer' = e
    BY <1>1, <1>6, <1>8, <2>1, Zenon DEF Scheduled
  <2> QED
    BY <2>1, <2>2, <2>3, Zenon
<1>13. /\ w \in Rows /\ \A p \in Questions \ {r.id} : w[p] = wanted[p]
       /\ wanted[r.id] = None <=> w[r.id] = None
  <2>1. wanted \in Rows /\ wanted[r.id] \in Row \cup {None} /\ DOMAIN wanted = Questions
    BY <1>5 DEF EditorTypeOK, Rows
  <2>2. PICK old : old = wanted[r.id]
    OBVIOUS
  <2>3. PICK now : now = IF old = None THEN None ELSE [old EXCEPT !.text = v]
    OBVIOUS
  <2>4. now \in Row \cup {None} /\ (old = None <=> now = None)
    <3>1. old \in Row => [old EXCEPT !.text = v] \in Row
      BY <1>4 DEF Row
    <3> QED
      BY <2>1, <2>2, <2>3, <3>1, QuestionIds
  <2>5. w = [wanted EXCEPT ![r.id] = now]
    BY <1>10, <2>2, <2>3, Zenon
  <2> QED
    BY <1>5, <2>1, <2>2, <2>4, <2>5 DEF Rows
<1>14. excuse' \in [Questions -> SUBSET Causes]
  <2>1. excuse \in [Questions -> SUBSET Causes] /\ "switched" \in Causes /\ "stale" \in Causes
    BY DEF EditorTypeOK, Causes
  <2> QED
    BY <1>12, <2>1
<1>15. ASSUME NEW p \in Questions, excuse'[p] = {}
       PROVE  IF p = r.id THEN e.row = w[p] ELSE excuse[p] = {} /\ ~OnTimer(p)
  <2>1. p \notin dropped
    BY <1>12, <1>15
  <2>2. p = r.id => e.row = w[r.id]
    BY <1>12, <1>15, <2>1
  <2>3. p # r.id => excuse[p] = {} /\ ~OnTimer(p)
    BY <1>11, <1>12, <1>15, <2>1 DEF OnTimer
  <2> QED
    BY <2>2, <2>3
<1>16. /\ saveState' = "saving" /\ visit = "open" /\ editingQ # None
       /\ UNCHANGED <<serverVars, visit, queryVars, selectedId, pickingType, idleTimers,
                      callVars, faults, refused, outrun>>
  BY DEF EditText, Panel
<1>17. /\ editingQ # None /\ e.id = editingQ.id /\ editingQ' = e /\ qSaveTimer' = e
       /\ wanted' \in Rows
       /\ \A p \in Questions \ {e.id} : wanted'[p] = wanted[p]
       /\ wanted[e.id] = None <=> wanted'[e.id] = None
  BY <1>1, <1>9, <1>12, <1>13, <1>16, Zenon
<1>18. \A p \in Questions : excuse'[p] = {} =>
          IF p = e.id THEN e.row = wanted'[p] ELSE excuse[p] = {} /\ ~OnTimer(p)
  BY <1>9, <1>12, <1>15, Zenon
<1>19. acts' \in 0..MaxActs /\ acts' # acts
  BY <1>3, <1>4
<1>20. e \in Edited
  BY <1>9
<1> QED
  BY <1>14, <1>16, <1>17, <1>18, <1>19, <1>20, Zenon

\* Required is switched: what the editor then shows is sent at once.
LEMMA ToggleFacts ==
  ASSUME EditorTypeOK, ToggleRequired
  PROVE  \E e \in Edited :
            /\ editingQ # None /\ e.id = editingQ.id /\ editingQ' = e /\ Put(e)
            /\ wanted' \in Rows
            /\ \A p \in Questions \ {e.id} : wanted'[p] = wanted[p]
            /\ wanted[e.id] = None <=> wanted'[e.id] = None
            /\ excuse' \in [Questions -> SUBSET Causes]
            /\ \A p \in Questions : excuse'[p] = {} =>
                  IF p = e.id THEN e.row = wanted'[p] /\ ~OnTimer(p) ELSE excuse[p] = {}
            /\ acts' \in 0..MaxActs /\ acts' # acts /\ visit = "open"
            /\ UNCHANGED <<serverVars, visit, queryVars, selectedId, pickingType, saveState,
                           idleTimers, qSaveTimer, post, deletes, faults, refused, outrun>>
<1>1. PICK r : r = editingQ
  OBVIOUS
<1>2. acts \in 0..MaxActs /\ faults \in 0..MaxFaults /\ acts + faults < MaxActs
      /\ acts' = acts + 1
  BY DEF ToggleRequired, Acting, EditorTypeOK
<1>3. acts' \in 0..MaxActs /\ acts' # acts
  BY <1>2, QuestionIds
<1>4. r \in Edited /\ r.id \in Questions /\ r.row \in Row
  BY <1>1 DEF ToggleRequired, Panel, EditorTypeOK, Edited
<1>5. PICK new : new = [editingQ.row EXCEPT !.required = ~@]
  OBVIOUS
<1>6. new \in Row
  BY <1>1, <1>4, <1>5 DEF Row
<1>7. PICK e : e = [id |-> r.id, row |-> new]
  OBVIOUS
<1>8. e \in Edited /\ e.id = r.id /\ e.row = new
  BY <1>4, <1>6, <1>7 DEF Edited
<1>9. PICK w : w = [wanted EXCEPT ![r.id] =
                       IF @ = None THEN None ELSE [@ EXCEPT !.required = new.required]]
  OBVIOUS
<1>10. PICK why : why = (IF new = w[r.id] THEN {} ELSE excuse[r.id] \cup {"stale"})
                        \cup (IF qSaveTimer # None /\ qSaveTimer.id = r.id
                                 THEN {"toggled"} ELSE {})
  OBVIOUS
<1>11. /\ editingQ' = e /\ Put(e) /\ wanted' = w
       /\ excuse' = [excuse EXCEPT ![r.id] = why]
  <2>1. /\ editingQ' = [id |-> r.id, row |-> new] /\ Put(editingQ') /\ wanted' = w
        /\ excuse' = [excuse EXCEPT ![r.id] =
                  (IF new = w[r.id] THEN {} ELSE @ \cup {"stale"})
                  \cup (IF qSaveTimer # None /\ qSaveTimer.id = r.id
                           THEN {"toggled"} ELSE {})]
    <3> DEFINE q == editingQ.id
               row == [editingQ.row EXCEPT !.required = ~@]
               x == [wanted EXCEPT ![q] =
                       IF @ = None THEN None ELSE [@ EXCEPT !.required = row.required]]
    <3>1. /\ editingQ' = [id |-> q, row |-> row] /\ Put(editingQ') /\ wanted' = x
          /\ excuse' = [excuse EXCEPT ![q] =
                  (IF row = x[q] THEN {} ELSE @ \cup {"stale"})
                  \cup (IF qSaveTimer # None /\ qSaveTimer.id = q
                           THEN {"toggled"} ELSE {})]
      BY DEF ToggleRequired
    <3>2. row = new /\ q = r.id
      BY <1>1, <1>5
    <3> HIDE DEF row, q
    <3>3. x = w
      BY <1>9, <3>2, Zenon
    <3> HIDE DEF x
    <3> QED
      BY <3>1, <3>2, <3>3, Zenon
  <2>2. Put(e)
    BY <1>7, <2>1, Zenon DEF Put
  <2> QED
    BY <1>7, <1>10, <2>1, <2>2, Zenon
<1>12. /\ w \in Rows /\ \A p \in Questions \ {r.id} : w[p] = wanted[p]
       /\ wanted[r.id] = None <=> w[r.id] = None
  <2>1. wanted \in Rows /\ wanted[r.id] \in Row \cup {None} /\ DOMAIN wanted = Questions
    BY <1>4 DEF EditorTypeOK, Rows
  <2>2. PICK old : old = wanted[r.id]
    OBVIOUS
  <2>3. PICK now : now = IF old = None THEN None ELSE [old EXCEPT !.required = new.required]
    OBVIOUS
  <2>4. now \in Row \cup {None} /\ (old = None <=> now = None)
    <3>1. old \in Row => [old EXCEPT !.required = new.required] \in Row
      BY <1>6 DEF Row
    <3> QED
      BY <2>1, <2>2, <2>3, <3>1, QuestionIds
  <2>5. w = [wanted EXCEPT ![r.id] = now]
    BY <1>9, <2>2, <2>3, Zenon
  <2> QED
    BY <1>4, <2>1, <2>2, <2>4, <2>5 DEF Rows
<1>13. excuse \in [Questions -> SUBSET Causes] /\ excuse' \in [Questions -> SUBSET Causes]
  <2>1. /\ excuse \in [Questions -> SUBSET Causes]
        /\ "toggled" \in Causes /\ "stale" \in Causes
    BY DEF EditorTypeOK, Causes
  <2>2. why \in SUBSET Causes
    BY <1>4, <1>10, <2>1
  <2> QED
    BY <1>11, <2>1, <2>2
<1>14. ASSUME NEW p \in Questions, excuse'[p] = {}
       PROVE  IF p = r.id THEN e.row = w[p] /\ ~OnTimer(p) ELSE excuse[p] = {}
  <2>1. CASE p = r.id
    <3>1. why = {}
      BY <1>11, <1>13, <1>14, <2>1
    <3> QED
      BY <1>8, <1>10, <2>1, <3>1 DEF OnTimer
  <2>2. CASE p # r.id
    BY <1>11, <1>13, <1>14, <2>2
  <2> QED
    BY <2>1, <2>2
<1>15. /\ visit = "open" /\ editingQ # None
       /\ UNCHANGED <<serverVars, visit, queryVars, selectedId, pickingType, saveState,
                      idleTimers, qSaveTimer, post, deletes, faults, refused, outrun>>
  BY DEF ToggleRequired, Panel
<1> QED
  BY <1>1, <1>3, <1>8, <1>11, <1>12, <1>13, <1>14, <1>15, Zenon

\* Every step keeps the types.
LEMMA EditorTypesKept ==
  ASSUME EditorTypeOK, PostHasId, EditorNext
  PROVE  EditorTypeOK'
<1> USE DEF serverVars, queryVars, pageVars, callVars, historyVars
<1>1. puts \in Seq(PutCalls) /\ Len(puts) \in Nat /\ Len(puts) <= MaxPuts /\ MaxPuts \in Nat
  BY QuestionIds DEF EditorTypeOK, PutCalls
<1>2. CASE FetchServed \/ IdleTimer \/ AddQuestion \/ Refocus
  <2>1. CASE FetchServed
    BY <2>1 DEF FetchServed, EditorTypeOK
  <2>2. CASE IdleTimer
    <3>1. idleTimers' \in Nat
      BY <2>2 DEF IdleTimer, EditorTypeOK
    <3> QED
      BY <2>2, <3>1 DEF IdleTimer, EditorTypeOK
  <2>3. CASE AddQuestion
    <3>1. acts' \in 0..MaxActs
      BY <2>3, CountFacts DEF AddQuestion
    <3> QED
      BY <2>3, <3>1 DEF AddQuestion, EditorTypeOK
  <2>4. CASE Refocus
    <3>1. acts' \in 0..MaxActs
      BY <2>4, CountFacts DEF Refocus
    <3> QED
      BY <2>4, <3>1 DEF Refocus, EditorTypeOK
  <2> QED
    BY <1>2, <2>1, <2>2, <2>3, <2>4
<1>3. CASE FetchAnswered
  <2>1. [q \in Questions |-> None] \in Rows
    BY DEF Rows
  <2>2. /\ cache' \in Rows /\ selectedId' \in Questions \cup {None} /\ pickingType' \in BOOLEAN
        /\ editingQ' \in Edited \cup {None}
    <3>1. CASE visit = "open"
      <4>1. Render(fetched, selectedId, pickingType, editingQ)
        BY <1>3, <3>1 DEF FetchAnswered
      <4>2. /\ fetched \in Rows /\ selectedId \in Questions \cup {None}
            /\ pickingType \in BOOLEAN /\ editingQ \in Edited \cup {None}
        BY DEF EditorTypeOK
      <4> QED
        BY <4>1, <4>2, RenderFacts
    <3>2. CASE visit # "open"
      BY <1>3, <3>2 DEF FetchAnswered, EditorTypeOK
    <3> QED
      BY <3>1, <3>2
  <2> QED
    BY <1>3, <2>1, <2>2 DEF FetchAnswered, EditorTypeOK
<1>4. CASE FetchFails
  <2>1. [q \in Questions |-> None] \in Rows
    BY DEF Rows
  <2>2. faults' \in 0..MaxFaults
    BY <1>4, CountFacts DEF FetchFails
  <2> QED
    BY <1>4, <2>1, <2>2 DEF FetchFails, EditorTypeOK
<1>5. CASE AddServed
  <2>1. created \in 0..Cardinality(Questions) /\ faults \in 0..MaxFaults
    BY DEF EditorTypeOK
  <2>2. faults' \in 0..MaxFaults
    BY <1>5, <2>1, CountFacts DEF AddServed
  <2>3. /\ created' = created + 1 /\ rows' = [rows EXCEPT ![created + 1] = NewRow]
        /\ wanted' = [wanted EXCEPT ![created + 1] = NewRow] /\ post' \in {"ok", "failed"}
        /\ UNCHANGED <<visit, queryVars, pageVars, puts, deletes, acts, excuse, refused,
                       outrun>>
    BY <1>5 DEF AddServed
  <2>4. rows' \in Rows /\ wanted' \in Rows
    BY <2>3, QuestionIds DEF EditorTypeOK, Rows
  <2>5. created < Cardinality(Questions)
    BY <1>5 DEF AddServed, PostHasId
  <2>6. created' \in 0..Cardinality(Questions)
    BY <2>1, <2>3, <2>5, QuestionIds
  <2> QED
    BY <2>2, <2>3, <2>4, <2>6 DEF EditorTypeOK
<1>6. CASE AddAnswered
  <2>1. post' = "none" /\ UNCHANGED <<serverVars, visit, loaded, fetched, saveState, idleTimers,
                          qSaveTimer, puts, deletes, acts, faults, wanted, excuse, refused>>
    BY <1>6 DEF AddAnswered
  <2>2. CASE post = "ok" /\ visit # "closed"
    <3>1. Invalidate
      BY <1>6, <2>2 DEF AddAnswered
    <3>2. /\ fetching' \in {"none", "sent", "served"}
          /\ outrun' \in BOOLEAN /\ stale' \in BOOLEAN
      BY <3>1, InvalidateFacts
    <3>3. created \in Questions
      <4>1. created \in 0..Cardinality(Questions) /\ created # 0
        BY <2>2 DEF EditorTypeOK, PostHasId
      <4> QED
        BY <4>1, QuestionIds
    <3>4. /\ cache' \in Rows /\ selectedId' \in Questions \cup {None}
          /\ pickingType' \in BOOLEAN /\ editingQ' \in Edited \cup {None}
      <4>1. CASE visit = "open"
        <5>1. Render(cache, created, FALSE, editingQ)
          BY <1>6, <2>2, <4>1 DEF AddAnswered
        <5>2. cache \in Rows /\ editingQ \in Edited \cup {None}
          BY DEF EditorTypeOK
        <5> QED
          BY <3>3, <5>1, <5>2, RenderFacts
      <4>2. CASE visit # "open"
        BY <1>6, <2>2, <4>2 DEF AddAnswered, EditorTypeOK
      <4> QED
        BY <4>1, <4>2
    <3> QED
      BY <2>1, <3>2, <3>4 DEF EditorTypeOK
  <2>3. CASE ~(post = "ok" /\ visit # "closed")
    BY <1>6, <2>1, <2>3 DEF AddAnswered, EditorTypeOK
  <2> QED
    BY <2>2, <2>3
<1>7. CASE AddLost
  <2>1. faults' \in 0..MaxFaults
    BY <1>7, CountFacts DEF AddLost
  <2> QED
    BY <1>7, <2>1 DEF AddLost, EditorTypeOK
<1>8. ASSUME NEW i \in DOMAIN puts, Serving(i)
      PROVE  EditorTypeOK'
  <2>1. PICK parts \in SUBSET puts[i].rest : Store(i, parts)
    BY <1>8, ServingFacts
  <2>2. /\ puts' \in Seq(PutCalls) /\ Len(puts') = Len(puts)
        /\ rows' \in Rows /\ excuse' \in [Questions -> SUBSET Causes]
    BY <2>1, StoreFacts DEF Stepped
  <2>3. /\ acts' \in 0..MaxActs
        /\ UNCHANGED <<created, visit, queryVars, pageVars, post, deletes, faults,
                       wanted, refused, outrun>>
    BY <1>8, ServingFacts
  <2> QED
    BY <1>1, <2>2, <2>3 DEF EditorTypeOK, PutCalls
<1>9. ASSUME NEW i \in DOMAIN puts, PutLost(i) \/ Skipping(i)
      PROVE  EditorTypeOK'
  <2>1. Stepped(puts, puts', i)
    BY <1>9, LostFacts, SkippingFacts
  <2>2. puts' \in Seq(PutCalls) /\ Len(puts') = Len(puts) /\ puts[i].id \in Questions
    BY <2>1 DEF Stepped
  <2>3. excuse' \in [Questions -> SUBSET Causes]
    <3>1. \/ excuse' = excuse
          \/ \E why \in {"failed", "unstored"} :
                excuse' = [excuse EXCEPT ![puts[i].id] = @ \cup {why}]
      BY <1>9, SkippingFacts DEF PutLost
    <3>2. excuse \in [Questions -> SUBSET Causes] /\ "failed" \in Causes /\ "unstored" \in Causes
      BY DEF EditorTypeOK, Causes
    <3> QED
      BY <2>2, <3>1, <3>2
  <2>4. /\ Fault
        /\ UNCHANGED <<serverVars, visit, queryVars, pageVars, post, deletes, acts,
                       wanted, refused, outrun>>
    BY <1>9, SkippingFacts DEF PutLost
  <2>5. faults' \in 0..MaxFaults
    BY <2>4, CountFacts
  <2> QED
    BY <1>1, <2>2, <2>3, <2>4, <2>5 DEF EditorTypeOK, PutCalls
<1>10. ASSUME NEW i \in DOMAIN puts, PutAnswered(i)
       PROVE  EditorTypeOK'
  <2>1. /\ puts' = SubSeq(puts, 1, i - 1) \o SubSeq(puts, i + 1, Len(puts))
        /\ UNCHANGED <<serverVars, visit, loaded, cache, fetched, selectedId, editingQ,
                       pickingType, qSaveTimer, post, deletes, acts, faults, wanted,
                       excuse>>
    BY <1>10 DEF PutAnswered
  <2>2. puts' \in Seq(PutCalls) /\ Len(puts') = Len(puts) - 1
    BY <1>1, <2>1, SaveGone
  <2>3. Len(puts') <= MaxPuts
    BY <1>1, <2>2
  <2>4. /\ fetching' \in {"none", "sent", "served"} /\ outrun' \in BOOLEAN /\ stale' \in BOOLEAN
        /\ saveState' \in {"idle", "saving", "saved"} /\ idleTimers' \in Nat
        /\ refused' \in BOOLEAN
    <3>1. CASE puts[i].at = "ok" /\ visit # "closed"
      <4>1. Invalidate /\ UNCHANGED refused
        BY <1>10, <3>1 DEF PutAnswered
      <4>2. /\ saveState' \in {"idle", "saving", "saved"}
            /\ idleTimers' = idleTimers + 1 \/ idleTimers' = idleTimers
        BY <1>10, <3>1 DEF PutAnswered, EditorTypeOK
      <4>3. idleTimers' \in Nat
        BY <4>2 DEF EditorTypeOK
      <4> QED
        BY <4>1, <4>2, <4>3, InvalidateFacts DEF EditorTypeOK
    <3>2. CASE ~(puts[i].at = "ok" /\ visit # "closed")
      BY <1>10, <3>2 DEF PutAnswered, EditorTypeOK
    <3> QED
      BY <3>1, <3>2
  <2> QED
    BY <2>1, <2>2, <2>3, <2>4 DEF EditorTypeOK, PutCalls
<1>11. ASSUME NEW q \in Questions, DeleteServed(q)
       PROVE  EditorTypeOK'
  <2>1. /\ rows' = [rows EXCEPT ![q] = None]
        /\ deletes' = [deletes EXCEPT ![q] = "ok"] \/ deletes' = [deletes EXCEPT ![q] = "failed"]
        /\ UNCHANGED <<created, visit, queryVars, pageVars, puts, post, acts, historyVars>>
    BY <1>11 DEF DeleteServed
  <2>2. faults' \in 0..MaxFaults
    BY <1>11, CountFacts DEF DeleteServed, EditorTypeOK
  <2>3. rows' \in Rows
    BY <2>1 DEF EditorTypeOK, Rows
  <2>4. deletes' \in [Questions -> {"none", "sent", "ok", "failed"}]
    BY <2>1 DEF EditorTypeOK
  <2> QED
    BY <2>1, <2>2, <2>3, <2>4 DEF EditorTypeOK
<1>12. ASSUME NEW q \in Questions, DeleteLost(q) \/ DeleteSkips(q)
       PROVE  EditorTypeOK'
  <2>1. faults' \in 0..MaxFaults
    BY <1>12, CountFacts DEF DeleteLost, DeleteSkips
  <2>2. deletes' \in [Questions -> {"none", "sent", "ok", "failed"}]
    BY <1>12 DEF DeleteLost, DeleteSkips, EditorTypeOK
  <2>3. excuse' \in [Questions -> SUBSET Causes]
    BY <1>12 DEF DeleteLost, DeleteSkips, EditorTypeOK, Causes
  <2> QED
    BY <1>12, <2>1, <2>2, <2>3 DEF DeleteLost, DeleteSkips, EditorTypeOK
<1>13. ASSUME NEW q \in Questions, DeleteAnswered(q)
       PROVE  EditorTypeOK'
  <2>1. /\ deletes' = [deletes EXCEPT ![q] = "none"]
        /\ UNCHANGED <<serverVars, visit, loaded, fetched, saveState, idleTimers,
                       qSaveTimer, puts, post, acts, faults, wanted, excuse, refused>>
    BY <1>13 DEF DeleteAnswered
  <2>2. deletes' \in [Questions -> {"none", "sent", "ok", "failed"}]
    BY <2>1 DEF EditorTypeOK
  <2>3. /\ fetching' \in {"none", "sent", "served"} /\ outrun' \in BOOLEAN /\ stale' \in BOOLEAN
    <3>1. CASE deletes[q] = "ok" /\ visit # "closed"
      BY <1>13, <3>1, InvalidateFacts DEF DeleteAnswered
    <3>2. CASE ~(deletes[q] = "ok" /\ visit # "closed")
      BY <1>13, <3>2 DEF DeleteAnswered, EditorTypeOK
    <3> QED
      BY <3>1, <3>2
  <2>4. /\ cache' \in Rows /\ selectedId' \in Questions \cup {None}
        /\ pickingType' \in BOOLEAN /\ editingQ' \in Edited \cup {None}
    <3>1. CASE deletes[q] = "ok" /\ visit = "open"
      <4>1. Render(cache, None, pickingType, None)
        BY <1>13, <3>1 DEF DeleteAnswered
      <4>2. cache \in Rows /\ pickingType \in BOOLEAN
        BY DEF EditorTypeOK
      <4>3. None \in Questions \cup {None} /\ None \in Edited \cup {None}
        OBVIOUS
      <4> QED
        BY <4>1, <4>2, <4>3, RenderFacts
    <3>2. CASE ~(deletes[q] = "ok" /\ visit = "open")
      BY <1>13, <3>2 DEF DeleteAnswered, EditorTypeOK
    <3> QED
      BY <3>1, <3>2
  <2> QED
    BY <2>1, <2>2, <2>3, <2>4 DEF EditorTypeOK
<1>14. ASSUME NEW q \in Questions, Select(q)
       PROVE  EditorTypeOK'
  <2>1. Render(cache, q, FALSE, editingQ)
    BY <1>14 DEF Select
  <2>2. cache \in Rows /\ editingQ \in Edited \cup {None} /\ FALSE \in BOOLEAN
        /\ q \in Questions \cup {None}
    BY DEF EditorTypeOK
  <2>3. /\ cache' \in Rows /\ selectedId' \in Questions \cup {None}
        /\ pickingType' \in BOOLEAN /\ editingQ' \in Edited \cup {None}
    BY <2>1, <2>2, RenderFacts
  <2> QED
    BY <1>14, <2>3 DEF Select, EditorTypeOK
<1>15. CASE PickType \/ PickBack
  <2>1. cache \in Rows /\ editingQ \in Edited \cup {None} /\ FALSE \in BOOLEAN
        /\ TRUE \in BOOLEAN /\ selectedId \in Questions \cup {None}
        /\ None \in Questions \cup {None}
    BY DEF EditorTypeOK
  <2>2. \/ Render(cache, None, TRUE, editingQ) \/ Render(cache, selectedId, TRUE, editingQ)
        \/ Render(cache, selectedId, FALSE, editingQ)
    BY <1>15 DEF PickType, PickBack
  <2>3. /\ cache' \in Rows /\ selectedId' \in Questions \cup {None}
        /\ pickingType' \in BOOLEAN /\ editingQ' \in Edited \cup {None}
    BY <2>1, <2>2, RenderFacts
  <2>4. UNCHANGED <<serverVars, visit, loaded, stale, fetching, fetched, saveState,
                    idleTimers, qSaveTimer, callVars, acts, faults, historyVars>>
    BY <1>15 DEF PickType, PickBack
  <2> QED
    BY <2>3, <2>4 DEF EditorTypeOK
<1>16. ASSUME NEW q \in Questions, DeleteQuestion(q)
       PROVE  EditorTypeOK'
  <2>1. acts' \in 0..MaxActs
    BY <1>16, CountFacts DEF DeleteQuestion
  <2>2. deletes' \in [Questions -> {"none", "sent", "ok", "failed"}]
    BY <1>16 DEF DeleteQuestion, EditorTypeOK
  <2>3. wanted' \in Rows
    BY <1>16 DEF DeleteQuestion, EditorTypeOK, Rows
  <2> QED
    BY <1>16, <2>1, <2>2, <2>3 DEF DeleteQuestion, EditorTypeOK
<1>17. CASE EditText
  <2>1. PICK e \in Edited :
            /\ editingQ' = e /\ qSaveTimer' = e /\ wanted' \in Rows
            /\ excuse' \in [Questions -> SUBSET Causes] /\ acts' \in 0..MaxActs
            /\ saveState' = "saving"
            /\ UNCHANGED <<serverVars, visit, queryVars, selectedId, pickingType, idleTimers,
                           callVars, faults, refused, outrun>>
    BY <1>17, EditFacts
  <2> QED
    BY <2>1 DEF EditorTypeOK
<1>18. CASE ToggleRequired
  <2>1. PICK e \in Edited :
            /\ editingQ' = e /\ Put(e) /\ wanted' \in Rows
            /\ excuse' \in [Questions -> SUBSET Causes] /\ acts' \in 0..MaxActs
            /\ UNCHANGED <<serverVars, visit, queryVars, selectedId, pickingType, saveState,
                           idleTimers, qSaveTimer, post, deletes, faults, refused, outrun>>
    BY <1>18, ToggleFacts
  <2>2. puts' \in Seq(PutCalls) /\ Len(puts') <= MaxPuts
    BY <2>1, PutFacts
  <2> QED
    BY <2>1, <2>2 DEF EditorTypeOK, PutCalls
<1>19. CASE SaveTimer
  <2>1. /\ qSaveTimer \in Edited /\ Put(qSaveTimer)
        /\ qSaveTimer' = None
        /\ UNCHANGED <<serverVars, visit, queryVars, selectedId, editingQ, pickingType,
                       saveState, idleTimers, post, deletes, acts, faults, historyVars>>
    BY <1>19 DEF SaveTimer, EditorTypeOK
  <2>2. puts' \in Seq(PutCalls) /\ Len(puts') <= MaxPuts
    BY <2>1, PutFacts
  <2> QED
    BY <2>1, <2>2 DEF EditorTypeOK, PutCalls
<1>20. CASE Leave
  <2>1. puts' \in Seq(PutCalls) /\ Len(puts') = Len(puts)
    BY <1>1, <1>20, SavesLeft DEF Leave
  <2> QED
    BY <1>1, <1>20, <2>1 DEF Leave, Blank, EditorTypeOK, PutCalls
<1>21. CASE Return
  <2>1. acts' \in 0..MaxActs
    BY <1>21, CountFacts DEF Return
  <2>2. selectedId' \in Questions \cup {None} /\ editingQ' \in Edited \cup {None}
    <3>1. CASE Listed(cache) = {}
      BY <1>21, <3>1 DEF Return, EditorTypeOK
    <3>2. CASE Listed(cache) # {}
      <4>1. PICK q \in Questions : q = Min(Listed(cache)) /\ q \in Listed(cache)
        BY <3>2, FirstListed
      <4>2. selectedId' = q /\ editingQ' = [id |-> q, row |-> cache[q]]
        BY <1>21, <3>2, <4>1 DEF Return
      <4>3. cache[q] \in Row
        BY <4>1 DEF EditorTypeOK, Rows, Listed
      <4> QED
        BY <4>2, <4>3 DEF Edited
    <3> QED
      BY <3>1, <3>2
  <2>3. fetching' \in {"none", "sent", "served"} /\ outrun' \in BOOLEAN
    BY <1>21 DEF Return, EditorTypeOK
  <2> QED
    BY <1>21, <2>1, <2>2, <2>3 DEF Return, EditorTypeOK
<1>22. CASE Close
  <2>1. [q \in Questions |-> None] \in Rows
    BY DEF Rows
  <2>2. excuse' \in [Questions -> SUBSET Causes]
    BY <1>22 DEF Close, EditorTypeOK, Causes, Edited
  <2> QED
    BY <1>22, <2>1, <2>2 DEF Close, Blank, EditorTypeOK
<1> QED
  BY <1>2, <1>3, <1>4, <1>5, <1>6, <1>7, <1>8, <1>9, <1>10, <1>11, <1>12, <1>13, <1>14, <1>15,
     <1>16, <1>17, <1>18, <1>19, <1>20, <1>21, <1>22
  DEF EditorNext, Calls, User, Faults, Serving, Skipping

-----------------------------------------------------------------------------
(* The editor: every step keeps the parts of EditorInv.                    *)

\* A question under way keeps its id.
LEMMA PostKept ==
  ASSUME EditorTypeOK, PostHasId, EditorNext
  PROVE  PostHasId'
<1> USE DEF serverVars, queryVars, pageVars, callVars, historyVars
<1>1. CASE AddServed
  <2>1. created' = created + 1 /\ post' \in {"ok", "failed"} /\ created \in Nat
    BY <1>1, QuestionIds DEF AddServed, EditorTypeOK
  <2>2. created' # 0
    BY <2>1
  <2> QED
    BY <2>1, <2>2 DEF PostHasId
<1>2. CASE AddQuestion
  BY <1>2 DEF AddQuestion, PostHasId
<1>3. CASE AddLost \/ AddAnswered
  BY <1>3 DEF AddLost, AddAnswered, PostHasId
<1>4. CASE post' = post /\ created' = created
  BY <1>4 DEF PostHasId
<1>5. CASE ToggleRequired \/ EditText
  <2>1. post' = post /\ created' = created
    BY <1>5 DEF ToggleRequired, EditText
  <2> QED
    BY <2>1 DEF PostHasId
<1> QED
  BY <1>1, <1>2, <1>3, <1>4, <1>5
  DEF EditorNext, Calls, User, Faults, FetchServed, FetchAnswered, PutServed, PutBegun, PutSkips,
      PutAnswered, DeleteSkips, DeleteServed, DeleteAnswered, Select, DeleteQuestion, PickType, PickBack, Refocus, Leave,
      Return, Close, FetchFails, PutLost, DeleteLost, SaveTimer, IdleTimer

\* The steps by which the page renders another list or another selection.
Renders(c, s, picking, e) ==
    /\ c \in Rows /\ s \in Questions \cup {None} /\ picking \in BOOLEAN
    /\ e \in Edited \cup {None} /\ Render(c, s, picking, e)

\* A step of the editor renders the page, leaves it blank or as it was, or changes the
\* question in the editor, at the cost of an act.
LEMMA PageSteps ==
  ASSUME EditorTypeOK, PostHasId, AwayIsBlank, EditorNext
  PROVE  \/ /\ visit = "open" /\ UNCHANGED visit
            /\ \/ Renders(fetched, selectedId, pickingType, editingQ)
               \/ \E q \in Questions \cup {None}, p \in BOOLEAN : Renders(cache, q, p, editingQ)
               \/ Renders(cache, None, pickingType, None)
         \/ selectedId' = None /\ editingQ' = None
         \/ UNCHANGED <<visit, cache, selectedId, editingQ>>
         \/ /\ visit = "open" /\ UNCHANGED <<visit, cache, selectedId>> /\ acts' # acts
            /\ editingQ # None /\ editingQ' \in Edited /\ editingQ'.id = editingQ.id
         \/ /\ visit' = "open" /\ UNCHANGED cache /\ acts' # acts
            /\ selectedId' \in Listed(cache) /\ editingQ' # None /\ editingQ'.id = selectedId'
<1> USE DEF serverVars, queryVars, pageVars, callVars, historyVars
<1>0. /\ cache \in Rows /\ fetched \in Rows /\ selectedId \in Questions \cup {None}
      /\ pickingType \in BOOLEAN /\ editingQ \in Edited \cup {None}
      /\ None \in Questions \cup {None} /\ None \in Edited \cup {None}
      /\ TRUE \in BOOLEAN /\ FALSE \in BOOLEAN
  BY DEF EditorTypeOK
<1>1. CASE \/ FetchServed \/ AddServed \/ AddQuestion \/ Refocus \/ FetchFails \/ AddLost
           \/ SaveTimer \/ IdleTimer
           \/ \E i \in DOMAIN puts : \/ Serving(i) \/ PutAnswered(i) \/ PutLost(i)
                                    \/ Skipping(i)
           \/ \E q \in Questions : \/ DeleteServed(q) \/ DeleteQuestion(q) \/ DeleteLost(q)
                                   \/ DeleteSkips(q)
  <2>1. UNCHANGED <<visit, cache, selectedId, editingQ>>
    BY <1>1 DEF FetchServed, AddServed, AddQuestion, Refocus, FetchFails, AddLost, SaveTimer,
                IdleTimer, Serving, PutServed, PutBegun, PutAnswered, PutLost, Skipping,
                PutSkips, DeleteServed, DeleteQuestion, DeleteLost, DeleteSkips
  <2> QED
    BY <2>1
<1>2. CASE FetchAnswered
  <2>1. CASE visit = "open"
    BY <1>0, <1>2, <2>1 DEF FetchAnswered, Renders
  <2>2. CASE visit # "open"
    BY <1>2, <2>2 DEF FetchAnswered, AwayIsBlank
  <2> QED
    BY <2>1, <2>2
<1>3. CASE AddAnswered
  <2>1. CASE post = "ok" /\ visit = "open"
    <3>1. created \in Questions
      <4>1. created \in 0..Cardinality(Questions) /\ created # 0
        BY <2>1 DEF EditorTypeOK, PostHasId
      <4> QED
        BY <4>1, QuestionIds
    <3>2. Render(cache, created, FALSE, editingQ) /\ UNCHANGED visit
      BY <1>3, <2>1 DEF AddAnswered
    <3>3. created \in Questions \cup {None} /\ Renders(cache, created, FALSE, editingQ)
      BY <1>0, <3>1, <3>2 DEF Renders
    <3> QED
      BY <1>0, <2>1, <3>2, <3>3
  <2>2. CASE ~(post = "ok" /\ visit = "open")
    <3>1. UNCHANGED <<visit, cache, selectedId, editingQ>>
      BY <1>3, <2>2 DEF AddAnswered
    <3> QED
      BY <3>1
  <2> QED
    BY <2>1, <2>2
<1>4. ASSUME NEW q \in Questions, DeleteAnswered(q)
      PROVE  \/ visit = "open" /\ UNCHANGED visit /\ Renders(cache, None, pickingType, None)
             \/ UNCHANGED <<visit, cache, selectedId, editingQ>>
  <2>1. CASE deletes[q] = "ok" /\ visit = "open"
    BY <1>0, <1>4, <2>1 DEF DeleteAnswered, Renders
  <2>2. CASE ~(deletes[q] = "ok" /\ visit = "open")
    BY <1>4, <2>2 DEF DeleteAnswered
  <2> QED
    BY <2>1, <2>2
<1>5. ASSUME NEW q \in Questions, Select(q)
      PROVE  /\ visit = "open" /\ UNCHANGED visit
             /\ \E t \in Questions \cup {None}, p \in BOOLEAN : Renders(cache, t, p, editingQ)
  <2>1. visit = "open" /\ UNCHANGED visit /\ Render(cache, q, FALSE, editingQ)
    BY <1>5 DEF Select
  <2>2. q \in Questions \cup {None} /\ Renders(cache, q, FALSE, editingQ)
    BY <1>0, <2>1 DEF Renders
  <2> QED
    BY <1>0, <2>1, <2>2
<1>6. CASE PickType \/ PickBack
  <2>1. visit = "open" /\ UNCHANGED visit
    BY <1>6 DEF PickType, PickBack
  <2>2. \/ Render(cache, None, TRUE, editingQ) \/ Render(cache, selectedId, TRUE, editingQ)
        \/ Render(cache, selectedId, FALSE, editingQ)
    BY <1>6 DEF PickType, PickBack
  <2>3. \E t \in Questions \cup {None}, p \in BOOLEAN : Renders(cache, t, p, editingQ)
    BY <1>0, <2>2 DEF Renders
  <2> QED
    BY <2>1, <2>3
<1>7. CASE EditText
  <2>1. PICK e \in Edited :
           /\ editingQ # None /\ e.id = editingQ.id /\ editingQ' = e /\ acts' # acts
           /\ visit = "open" /\ UNCHANGED <<visit, queryVars, selectedId>>
    BY <1>7, EditFacts
  <2> QED
    BY <2>1
<1>8. CASE ToggleRequired
  <2>1. PICK e \in Edited :
           /\ editingQ # None /\ e.id = editingQ.id /\ editingQ' = e /\ acts' # acts
           /\ visit = "open" /\ UNCHANGED <<visit, queryVars, selectedId>>
    BY <1>8, ToggleFacts
  <2> QED
    BY <2>1
<1>9. CASE Leave \/ Close
  <2>1. selectedId' = None /\ editingQ' = None
    BY <1>9 DEF Leave, Close, Blank
  <2> QED
    BY <2>1
<1>10. CASE Return
  <2>1. visit' = "open" /\ UNCHANGED cache /\ acts' # acts /\ visit = "left"
    BY <1>10, CountFacts DEF Return
  <2>2. CASE Listed(cache) = {}
    <3>1. selectedId' = None /\ editingQ' = None
      BY <1>10, <2>1, <2>2 DEF Return, AwayIsBlank
    <3> QED
      BY <3>1
  <2>3. CASE Listed(cache) # {}
    <3>1. PICK q \in Questions : q = Min(Listed(cache)) /\ q \in Listed(cache)
      BY <2>3, FirstListed
    <3>2. selectedId' = q /\ editingQ' = [id |-> q, row |-> cache[q]]
      BY <1>10, <2>3, <3>1 DEF Return
    <3>3. cache[q] \in Row
      BY <1>0, <3>1 DEF Rows, Listed
    <3>4. editingQ' \in Edited
      BY <3>2, <3>3 DEF Edited
    <3> QED
      BY <2>1, <3>1, <3>2, <3>4, QuestionIds
  <2> QED
    BY <2>2, <2>3
<1> QED
  BY <1>1, <1>2, <1>3, <1>4, <1>5, <1>6, <1>7, <1>8, <1>9, <1>10
  DEF EditorNext, Calls, User, Faults, Serving, Skipping

\* Nothing is edited away from the page, and on it the question selected.
LEMMA PageKept ==
  ASSUME EditorTypeOK, PostHasId, AwayIsBlank, EditorFollows, EditorNext
  PROVE  AwayIsBlank' /\ EditorFollows'
<1>1. ASSUME NEW c, NEW s, NEW p, NEW e \in {editingQ, None}, Renders(c, s, p, e),
             visit = "open", UNCHANGED visit
      PROVE  AwayIsBlank' /\ EditorFollows'
  <2>1. AwayIsBlank'
    BY <1>1 DEF AwayIsBlank
  <2>2. /\ cache' = c
        /\ Selected(c, selectedId') # None =>
              \/ editingQ'.id = selectedId'
              \/ Selected(c, selectedId') = Selected(cache, selectedId) /\ editingQ' = e
    BY <1>1, RenderFacts DEF Renders
  <2>3. EditorFollows'
    <3> SUFFICES ASSUME Selected(cache', selectedId') # None, editingQ' # None
                 PROVE  editingQ'.id = selectedId'
      BY DEF EditorFollows, Selected, Listed
    <3>1. CASE editingQ'.id = selectedId'
      BY <3>1
    <3>2. CASE Selected(c, selectedId') = Selected(cache, selectedId) /\ editingQ' = e
      <4>1. selectedId' = selectedId /\ Selected(cache, selectedId) # None /\ e = editingQ
        BY <1>1, <2>2, <3>2 DEF Selected
      <4> QED
        BY <3>2, <4>1 DEF EditorFollows
    <3> QED
      BY <2>2, <3>1, <3>2
  <2> QED
    BY <2>1, <2>3
<1>2. CASE selectedId' = None /\ editingQ' = None
  BY <1>2 DEF AwayIsBlank, EditorFollows
<1>3. CASE UNCHANGED <<visit, cache, selectedId, editingQ>>
  BY <1>3 DEF AwayIsBlank, EditorFollows, Selected, Listed
<1>4. CASE /\ visit = "open" /\ UNCHANGED <<visit, cache, selectedId>>
           /\ editingQ # None /\ editingQ' \in Edited /\ editingQ'.id = editingQ.id
  BY <1>4 DEF AwayIsBlank, EditorFollows, Selected, Listed
<1>5. CASE visit' = "open" /\ editingQ'.id = selectedId'
  BY <1>5 DEF AwayIsBlank, EditorFollows
<1> QED
  BY <1>1, <1>2, <1>3, <1>4, <1>5, PageSteps

\* Which steps change what.
LEMMA EditorFrame ==
  ASSUME EditorNext
  PROVE  /\ UNCHANGED created \/ AddServed
         /\ \/ UNCHANGED rows \/ AddServed
            \/ \E i \in DOMAIN puts : Serving(i)
            \/ \E q \in Questions : DeleteServed(q)
         /\ \/ UNCHANGED wanted \/ AddServed \/ EditText \/ ToggleRequired
            \/ \E q \in Questions : DeleteQuestion(q)
         /\ \/ UNCHANGED deletes
            \/ \E q \in Questions : \/ DeleteQuestion(q) \/ DeleteServed(q) \/ DeleteLost(q)
                                    \/ DeleteSkips(q) \/ DeleteAnswered(q)
         /\ UNCHANGED fetched \/ FetchServed \/ fetched' = [q \in Questions |-> None]
         /\ UNCHANGED qSaveTimer \/ EditText \/ SaveTimer \/ Close
         /\ \/ UNCHANGED puts \/ ToggleRequired \/ SaveTimer \/ Leave
            \/ \E i \in DOMAIN puts : \/ Serving(i) \/ PutAnswered(i) \/ PutLost(i)
                                     \/ Skipping(i)
         /\ \/ UNCHANGED excuse \/ EditText \/ ToggleRequired \/ Close
            \/ \E i \in DOMAIN puts : Serving(i) \/ PutLost(i) \/ Skipping(i)
            \/ \E q \in Questions : DeleteLost(q) \/ DeleteSkips(q)
<1> USE DEF Serving, Skipping, serverVars, queryVars, pageVars, callVars, historyVars
<1>1. CASE Calls
  BY <1>1 DEF Calls, FetchServed, FetchAnswered, AddServed, AddAnswered, PutServed, PutBegun, PutAnswered,
              DeleteServed, DeleteAnswered
<1>2. CASE User
  BY <1>2 DEF User, Select, DeleteQuestion, PickType, PickBack, EditText, ToggleRequired,
              AddQuestion, Refocus, Leave, Return, Close
<1>3. CASE Faults
  BY <1>3 DEF Faults, FetchFails, AddLost, PutLost, PutSkips, DeleteLost, DeleteSkips
<1>4. CASE SaveTimer \/ IdleTimer
  BY <1>4 DEF SaveTimer, IdleTimer
<1> QED
  BY <1>1, <1>2, <1>3, <1>4 DEF EditorNext

\* What the list becomes.
LEMMA ListSteps ==
  ASSUME EditorTypeOK, PostHasId, AwayIsBlank, EditorNext
  PROVE  /\ cache' = cache \/ cache' = fetched \/ cache' = [q \in Questions |-> None]
         /\ cache' # cache => FetchAnswered \/ Close
<1> USE DEF serverVars, queryVars, pageVars, callVars, historyVars
<1>0. /\ cache \in Rows /\ fetched \in Rows /\ selectedId \in Questions \cup {None}
      /\ pickingType \in BOOLEAN /\ editingQ \in Edited \cup {None}
  BY DEF EditorTypeOK
<1>1. CASE FetchAnswered
  BY <1>1 DEF FetchAnswered, Render
<1>2. CASE Close
  BY <1>2 DEF Close
<1>3. CASE AddAnswered \/ \E q \in Questions : DeleteAnswered(q) \/ Select(q)
  BY <1>3 DEF AddAnswered, DeleteAnswered, Select, Render
<1>4. CASE PickType \/ PickBack
  BY <1>4 DEF PickType, PickBack, Render
<1>5. CASE \/ FetchServed \/ AddServed \/ AddQuestion \/ Refocus \/ FetchFails \/ AddLost
           \/ SaveTimer \/ IdleTimer \/ EditText \/ ToggleRequired \/ Leave \/ Return
           \/ \E i \in DOMAIN puts : \/ Serving(i) \/ PutAnswered(i) \/ PutLost(i)
                                    \/ Skipping(i)
           \/ \E q \in Questions : \/ DeleteServed(q) \/ DeleteQuestion(q) \/ DeleteLost(q)
                                   \/ DeleteSkips(q)
  <2>1. UNCHANGED cache
    BY <1>5 DEF FetchServed, AddServed, AddQuestion, Refocus, FetchFails, AddLost, SaveTimer,
                IdleTimer, EditText, ToggleRequired, Leave, Return, Serving, PutServed,
                PutBegun, PutAnswered, PutLost, Skipping, PutSkips, DeleteServed,
                DeleteQuestion, DeleteLost, DeleteSkips
  <2> QED
    BY <2>1
<1> QED
  BY <1>1, <1>2, <1>3, <1>4, <1>5 DEF EditorNext, Calls, User, Faults, Serving, Skipping

\* The question the editor shows was created, if those it could show were.
LEMMA EditedBefore ==
  ASSUME EditorTypeOK, PostHasId, AwayIsBlank, EditorNext, NEW q \in Questions,
         cache[q] = None, fetched[q] = None, editingQ # None => editingQ.id # q,
         editingQ' # None
  PROVE  editingQ'.id # q
<1>1. ASSUME NEW c, NEW s, NEW p, NEW e \in {editingQ, None}, Renders(c, s, p, e), c[q] = None
      PROVE  editingQ'.id # q
  <2>1. \/ editingQ' = e
        \/ selectedId' \in Listed(c) /\ editingQ'.id = selectedId'
    BY <1>1, RenderFacts DEF Renders
  <2> QED
    BY <1>1, <2>1 DEF Listed
<1>2. CASE visit = "open" /\ UNCHANGED visit
           /\ \/ Renders(fetched, selectedId, pickingType, editingQ)
              \/ \E r \in Questions \cup {None}, p \in BOOLEAN : Renders(cache, r, p, editingQ)
              \/ Renders(cache, None, pickingType, None)
  BY <1>1, <1>2
<1>3. CASE UNCHANGED <<visit, cache, selectedId, editingQ>>
  BY <1>3
<1>4. CASE editingQ # None /\ editingQ'.id = editingQ.id
  BY <1>4
<1>5. CASE selectedId' \in Listed(cache) /\ editingQ'.id = selectedId'
  BY <1>5 DEF Listed
<1> QED
  BY <1>2, <1>3, <1>4, <1>5, PageSteps

\* Nothing comes to be known of a question before it is created.
LEMMA UnbornKept ==
  ASSUME EditorTypeOK, PostHasId, AwayIsBlank, Unborn, EditorNext
  PROVE  Unborn'
<1> USE DEF serverVars, queryVars, pageVars, callVars, historyVars
<1>0. /\ rows \in Rows /\ wanted \in Rows /\ puts \in Seq(PutCalls) /\ created \in Nat
      /\ DOMAIN rows = Questions /\ DOMAIN wanted = Questions
      /\ deletes \in [Questions -> {"none", "sent", "ok", "failed"}]
  BY QuestionIds DEF EditorTypeOK, Rows, PutCalls
<1>1. created' = created \/ (created' = created + 1 /\ AddServed)
  BY EditorFrame DEF AddServed
<1> SUFFICES ASSUME NEW q \in Questions, q > created'
             PROVE  /\ rows'[q] = None /\ cache'[q] = None /\ fetched'[q] = None
                    /\ wanted'[q] = None /\ deletes'[q] = "none"
                    /\ editingQ' # None => editingQ'.id # q
                    /\ qSaveTimer' # None => qSaveTimer'.id # q
                    /\ \A i \in DOMAIN puts' : puts'[i].id # q
  BY DEF Unborn
<1>2. q \in Nat /\ q > created /\ (AddServed => q # created + 1)
  BY <1>0, <1>1, QuestionIds DEF AddServed
<1>3. /\ rows[q] = None /\ cache[q] = None /\ fetched[q] = None /\ wanted[q] = None
      /\ deletes[q] = "none"
      /\ editingQ # None => editingQ.id # q
      /\ qSaveTimer # None => qSaveTimer.id # q
      /\ \A i \in DOMAIN puts : puts[i].id # q
  BY <1>2 DEF Unborn
<1>4. rows'[q] = None
  <2>1. CASE AddServed
    <3>1. rows' = [rows EXCEPT ![created + 1] = NewRow]
      BY <2>1 DEF AddServed
    <3> QED
      BY <1>0, <1>2, <1>3, <2>1, <3>1
  <2>2. ASSUME NEW i \in DOMAIN puts, Serving(i) PROVE rows'[q] = None
    <3>1. PICK parts \in SUBSET puts[i].rest : Store(i, parts)
      BY <2>2, ServingFacts
    <3> QED
      BY <1>3, <3>1, StoreFacts
  <2>3. ASSUME NEW r \in Questions, DeleteServed(r) PROVE rows'[q] = None
    BY <1>0, <1>3, <2>3 DEF DeleteServed
  <2> QED
    BY <1>3, <2>1, <2>2, <2>3, EditorFrame
<1>5. cache'[q] = None
  BY <1>3, ListSteps
<1>6. fetched'[q] = None
  BY <1>3, EditorFrame DEF FetchServed
<1>7. wanted'[q] = None
  <2>1. CASE AddServed
    <3>1. wanted' = [wanted EXCEPT ![created + 1] = NewRow]
      BY <2>1 DEF AddServed
    <3> QED
      BY <1>0, <1>2, <1>3, <2>1, <3>1
  <2>2. CASE EditText
    <3>1. PICK e \in Edited : e.id = editingQ.id /\ editingQ # None
                              /\ \A p \in Questions \ {e.id} : wanted'[p] = wanted[p]
      BY <2>2, EditFacts
    <3> QED
      BY <1>3, <3>1
  <2>3. CASE ToggleRequired
    <3>1. PICK e \in Edited : e.id = editingQ.id /\ editingQ # None
                              /\ \A p \in Questions \ {e.id} : wanted'[p] = wanted[p]
      BY <2>3, ToggleFacts
    <3> QED
      BY <1>3, <3>1
  <2>4. ASSUME NEW r \in Questions, DeleteQuestion(r) PROVE wanted'[q] = None
    BY <1>0, <1>3, <2>4 DEF DeleteQuestion
  <2> QED
    BY <1>3, <2>1, <2>2, <2>3, <2>4, EditorFrame
<1>8. deletes'[q] = "none"
  <2>1. ASSUME NEW r \in Questions,
               \/ DeleteQuestion(r) \/ DeleteServed(r) \/ DeleteLost(r)
               \/ DeleteSkips(r) \/ DeleteAnswered(r)
        PROVE  deletes'[q] = "none"
    <3>1. CASE r = q
      BY <1>0, <1>3, <2>1, <3>1
      DEF DeleteQuestion, DeleteServed, DeleteLost, DeleteSkips, DeleteAnswered, Listed
    <3>2. CASE r # q
      BY <1>0, <1>3, <2>1, <3>2 DEF DeleteQuestion, DeleteServed, DeleteLost, DeleteSkips, DeleteAnswered
    <3> QED
      BY <3>1, <3>2
  <2> QED
    BY <1>3, <2>1, EditorFrame
<1>9. editingQ' # None => editingQ'.id # q
  BY <1>3, EditedBefore
<1>10. qSaveTimer' # None => qSaveTimer'.id # q
  <2>1. CASE EditText
    <3>1. PICK e \in Edited : e.id = editingQ.id /\ editingQ # None /\ qSaveTimer' = e
      BY <2>1, EditFacts
    <3> QED
      BY <1>3, <3>1
  <2>2. CASE SaveTimer \/ Close
    BY <2>2 DEF SaveTimer, Close
  <2> QED
    BY <1>3, <2>1, <2>2, EditorFrame
<1>11. \A i \in DOMAIN puts' : puts'[i].id # q
  <2>1. CASE ToggleRequired
    <3>1. PICK e \in Edited : e.id = editingQ.id /\ editingQ # None /\ Put(e)
      BY <2>1, ToggleFacts
    <3>2. \A j \in DOMAIN puts' : \/ puts'[j].id = e.id
                                  \/ \E k \in DOMAIN puts : puts'[j] = puts[k]
      BY <3>1, PutFacts
    <3> QED
      BY <1>3, <3>1, <3>2
  <2>2. CASE SaveTimer
    <3>1. qSaveTimer \in Edited /\ Put(qSaveTimer) /\ qSaveTimer # None
      BY <2>2 DEF SaveTimer, EditorTypeOK
    <3>2. \A j \in DOMAIN puts' : \/ puts'[j].id = qSaveTimer.id
                                  \/ \E k \in DOMAIN puts : puts'[j] = puts[k]
      BY <3>1, PutFacts
    <3> QED
      BY <1>3, <3>1, <3>2
  <2>3. CASE Leave
    <3>1. puts' = [i \in DOMAIN puts |-> [puts[i] EXCEPT !.mine = FALSE]]
      BY <2>3 DEF Leave
    <3>2. DOMAIN puts' = DOMAIN puts /\ \A j \in DOMAIN puts : puts'[j].id = puts[j].id
      BY <1>0, <3>1, SavesLeft
    <3> QED
      BY <1>3, <3>2
  <2>4. ASSUME NEW i \in DOMAIN puts, Serving(i) \/ PutLost(i) \/ Skipping(i)
        PROVE  \A j \in DOMAIN puts' : puts'[j].id # q
    <3>1. Stepped(puts, puts', i)
      BY <2>4, ServingFacts, StoreFacts, LostFacts, SkippingFacts
    <3>2. DOMAIN puts' = DOMAIN puts /\ \A j \in DOMAIN puts : puts'[j].id = puts[j].id
      BY <3>1 DEF Stepped
    <3> QED
      BY <1>3, <3>2
  <2>5. ASSUME NEW i \in DOMAIN puts, PutAnswered(i)
        PROVE  \A j \in DOMAIN puts' : puts'[j].id # q
    <3>1. puts' = SubSeq(puts, 1, i - 1) \o SubSeq(puts, i + 1, Len(puts))
      BY <2>5 DEF PutAnswered
    <3>2. \A j \in DOMAIN puts' : \E k \in DOMAIN puts : puts'[j] = puts[k]
      BY <1>0, <3>1, SaveGone
    <3> QED
      BY <1>3, <3>2
  <2> QED
    BY <1>3, <2>1, <2>2, <2>3, <2>4, <2>5, EditorFrame
<1> QED
  BY <1>4, <1>5, <1>6, <1>7, <1>8, <1>9, <1>10, <1>11

\* A question that the user has not deleted is there.
LEMMA WantedIsThereKept ==
  ASSUME EditorTypeOK, PostHasId, Unborn, WantedIsThere, EditorNext
  PROVE  WantedIsThere'
<1> USE DEF serverVars, queryVars, pageVars, callVars, historyVars
<1>0. /\ rows \in Rows /\ wanted \in Rows /\ puts \in Seq(PutCalls)
      /\ created \in 0..Cardinality(Questions)
      /\ DOMAIN rows = Questions /\ DOMAIN wanted = Questions
      /\ deletes \in [Questions -> {"none", "sent", "ok", "failed"}]
  BY DEF EditorTypeOK, Rows, PutCalls
<1> SUFFICES ASSUME NEW q \in Questions, wanted'[q] # None
             PROVE  rows'[q] # None /\ deletes'[q] # "sent"
  BY DEF WantedIsThere
<1>1. CASE AddServed
  <2>1. /\ rows' = [rows EXCEPT ![created + 1] = NewRow]
        /\ wanted' = [wanted EXCEPT ![created + 1] = NewRow] /\ UNCHANGED deletes
    BY <1>1 DEF AddServed
  <2>2. CASE q = created + 1
    <3>1. deletes[q] = "none"
      <4>1. q > created
        BY <1>0, <2>2, QuestionIds
      <4> QED
        BY <4>1 DEF Unborn
    <3> QED
      BY <1>0, <2>1, <2>2, <3>1, QuestionIds
  <2>3. CASE q # created + 1
    <3>1. wanted[q] # None /\ rows'[q] = rows[q]
      BY <1>0, <2>1, <2>3
    <3> QED
      BY <2>1, <3>1 DEF WantedIsThere
  <2> QED
    BY <2>2, <2>3
<1>2. CASE ~AddServed
  <2>1. wanted[q] # None /\ \A r \in Questions : DeleteQuestion(r) => r # q
    <3>1. CASE EditText
      <4>1. PICK e \in Edited : /\ e.id = editingQ.id
                                /\ \A p \in Questions \ {e.id} : wanted'[p] = wanted[p]
                                /\ wanted[e.id] = None <=> wanted'[e.id] = None
        BY <3>1, EditFacts
      <4>2. wanted[q] # None
        BY <4>1
      <4>3. UNCHANGED deletes
        BY <3>1 DEF EditText
      <4> QED
        BY <1>0, <4>2, <4>3 DEF DeleteQuestion
    <3>2. CASE ToggleRequired
      <4>1. PICK e \in Edited : /\ e.id = editingQ.id
                                /\ \A p \in Questions \ {e.id} : wanted'[p] = wanted[p]
                                /\ wanted[e.id] = None <=> wanted'[e.id] = None
        BY <3>2, ToggleFacts
      <4>2. wanted[q] # None
        BY <4>1
      <4>3. UNCHANGED deletes
        BY <3>2 DEF ToggleRequired
      <4> QED
        BY <1>0, <4>2, <4>3 DEF DeleteQuestion
    <3>3. ASSUME NEW r \in Questions, DeleteQuestion(r)
          PROVE  wanted[q] # None /\ r # q
      BY <1>0, <3>3 DEF DeleteQuestion
    <3>4. CASE UNCHANGED wanted /\ ~EditText /\ ~ToggleRequired
      BY <1>0, <3>3, <3>4
    <3> QED
      BY <1>2, <3>1, <3>2, <3>3, <3>4, EditorFrame
  <2>2. rows[q] # None /\ deletes[q] # "sent"
    BY <2>1 DEF WantedIsThere
  <2>3. rows'[q] # None
    <3>1. ASSUME NEW i \in DOMAIN puts, Serving(i) PROVE rows'[q] # None
      <4>1. PICK parts \in SUBSET puts[i].rest : Store(i, parts)
        BY <3>1, ServingFacts
      <4> QED
        BY <2>2, <4>1, StoreFacts
    <3>2. ASSUME NEW r \in Questions, DeleteServed(r) PROVE rows'[q] # None
      BY <1>0, <2>2, <3>2 DEF DeleteServed
    <3> QED
      BY <1>2, <2>2, <3>1, <3>2, EditorFrame
  <2>4. deletes'[q] # "sent"
    <3>1. ASSUME NEW r \in Questions,
                 \/ DeleteQuestion(r) \/ DeleteServed(r) \/ DeleteLost(r)
               \/ DeleteSkips(r) \/ DeleteAnswered(r)
          PROVE  deletes'[q] # "sent"
      <4>1. CASE DeleteQuestion(r)
        BY <1>0, <2>1, <2>2, <4>1 DEF DeleteQuestion
      <4>2. CASE DeleteServed(r) \/ DeleteLost(r) \/ DeleteSkips(r) \/ DeleteAnswered(r)
        BY <1>0, <2>2, <4>2 DEF DeleteServed, DeleteLost, DeleteSkips, DeleteAnswered
      <4> QED
        BY <3>1, <4>1, <4>2
    <3> QED
      BY <2>2, <3>1, EditorFrame
  <2> QED
    BY <2>3, <2>4
<1> QED
  BY <1>1, <1>2

\* A question whose edits, row and saves are as they were.
LEMMA StillDue ==
  ASSUME NEW q, QuestionDue(q), wanted'[q] = wanted[q],
         wanted[q] = None => rows'[q] = None \/ (rows'[q] = rows[q] /\ deletes'[q] = deletes[q]),
         wanted[q] # None =>
            \/ OnTimer(q) /\ qSaveTimer' = qSaveTimer
            \/ /\ ~OnTimer(q) /\ ~OnTimer(q)'
               /\ DueRow(puts, q, wanted[q], rows[q]) => DueRow(puts', q, wanted[q], rows'[q])
  PROVE  QuestionDue(q)'
<1>1. wanted'[q] = None => rows'[q] = None \/ deletes'[q] = "sent"
  BY DEF QuestionDue
<1>2. ASSUME wanted[q] # None
      PROVE  IF OnTimer(q)' THEN qSaveTimer'.row = wanted'[q]
             ELSE DueRow(puts', q, wanted'[q], rows'[q])
  <2>1. CASE OnTimer(q) /\ qSaveTimer' = qSaveTimer
    BY <1>2, <2>1 DEF QuestionDue, OnTimer
  <2>2. CASE /\ ~OnTimer(q) /\ ~OnTimer(q)'
             /\ DueRow(puts, q, wanted[q], rows[q]) => DueRow(puts', q, wanted[q], rows'[q])
    BY <1>2, <2>2 DEF QuestionDue
  <2> QED
    BY <1>2, <2>1, <2>2
<1> QED
  BY <1>1, <1>2 DEF QuestionDue

\* What the user has made of a question stays due, or something comes between.
LEMMA WantedIsDueKept ==
  ASSUME EditorTypeOK, PostHasId, Unborn, WantedIsThere, WantedIsDue, EditorNext
  PROVE  WantedIsDue'
<1> USE DEF serverVars, queryVars, pageVars, callVars, historyVars
<1>0. /\ rows \in Rows /\ wanted \in Rows /\ puts \in Seq(PutCalls)
      /\ created \in 0..Cardinality(Questions)
      /\ DOMAIN rows = Questions /\ DOMAIN wanted = Questions
      /\ deletes \in [Questions -> {"none", "sent", "ok", "failed"}]
      /\ excuse \in [Questions -> SUBSET Causes] /\ DOMAIN excuse = Questions
  BY DEF EditorTypeOK, Rows, PutCalls
<1> SUFFICES ASSUME NEW q \in Questions, excuse'[q] = {}
             PROVE  QuestionDue(q)'
  BY DEF WantedIsDue
<1>1. excuse[q] = {} => QuestionDue(q)
  BY DEF WantedIsDue
<1>2. CASE AddServed
  <2>1. /\ rows' = [rows EXCEPT ![created + 1] = NewRow]
        /\ wanted' = [wanted EXCEPT ![created + 1] = NewRow]
        /\ UNCHANGED <<deletes, qSaveTimer, puts, excuse>>
    BY <1>2 DEF AddServed
  <2>2. CASE q = created + 1
    <3>1. q > created
      BY <1>0, <2>2, QuestionIds
    <3>2. ~OnTimer(q) /\ \A f \in Fields : SentFor(puts, q, f) = {}
      BY <3>1 DEF Unborn, OnTimer, SentFor
    <3>3. rows'[q] = NewRow /\ wanted'[q] = NewRow /\ NewRow # None
      BY <1>0, <2>1, <2>2, QuestionIds
    <3> QED
      BY <2>1, <3>2, <3>3 DEF QuestionDue, DueRow, DueField, OnTimer
  <2>3. CASE q # created + 1
    <3>1. wanted'[q] = wanted[q] /\ rows'[q] = rows[q]
      BY <1>0, <2>1, <2>3
    <3> QED
      BY <1>1, <2>1, <3>1 DEF QuestionDue, OnTimer
  <2> QED
    BY <2>2, <2>3
<1>3. CASE EditText
  <2>1. PICK e \in Edited :
            /\ qSaveTimer' = e
            /\ \A p \in Questions \ {e.id} : wanted'[p] = wanted[p]
            /\ \A p \in Questions : excuse'[p] = {} =>
                  IF p = e.id THEN e.row = wanted'[p] ELSE excuse[p] = {} /\ ~OnTimer(p)
            /\ UNCHANGED <<serverVars, callVars>>
    BY <1>3, EditFacts
  <2>2. CASE q = e.id
    <3>1. e.row = wanted'[q] /\ e.row # None /\ e # None
      BY <2>1, <2>2, QuestionIds DEF Edited
    <3>2. OnTimer(q)'
      BY <2>1, <2>2, <3>1 DEF OnTimer
    <3> QED
      BY <2>1, <3>1, <3>2 DEF QuestionDue
  <2>3. CASE q # e.id
    <3>1. excuse[q] = {} /\ ~OnTimer(q) /\ wanted'[q] = wanted[q]
      BY <2>1, <2>3
    <3>2. ~OnTimer(q)'
      BY <2>1, <2>3 DEF OnTimer
    <3> QED
      BY <1>1, <2>1, <3>1, <3>2 DEF QuestionDue
  <2> QED
    BY <2>2, <2>3
<1>4. CASE ToggleRequired
  <2>1. PICK e \in Edited :
            /\ Put(e)
            /\ \A p \in Questions \ {e.id} : wanted'[p] = wanted[p]
            /\ \A p \in Questions : excuse'[p] = {} =>
                  IF p = e.id THEN e.row = wanted'[p] /\ ~OnTimer(p) ELSE excuse[p] = {}
            /\ UNCHANGED <<serverVars, qSaveTimer, deletes>>
    BY <1>4, ToggleFacts
  <2>2. /\ \A base : DueRow(puts', e.id, e.row, base)
        /\ \A r \in Questions \ {e.id} :
              \A row, base : DueRow(puts, r, row, base) => DueRow(puts', r, row, base)
    BY <2>1, PutFacts
  <2>3. CASE q = e.id
    <3>1. e.row = wanted'[q] /\ e.row # None /\ ~OnTimer(q)
      BY <2>1, <2>3, QuestionIds DEF Edited
    <3>2. ~OnTimer(q)' /\ DueRow(puts', q, wanted'[q], rows'[q])
      BY <2>1, <2>2, <2>3, <3>1 DEF OnTimer
    <3> QED
      BY <3>1, <3>2 DEF QuestionDue
  <2>4. CASE q # e.id
    <3>1. excuse[q] = {} /\ wanted'[q] = wanted[q] /\ (OnTimer(q)' <=> OnTimer(q))
      BY <2>1, <2>4 DEF OnTimer
    <3>2. DueRow(puts, q, wanted[q], rows[q]) => DueRow(puts', q, wanted[q], rows[q])
      BY <2>2, <2>4
    <3> QED
      BY <1>1, <2>1, <3>1, <3>2, StillDue
  <2> QED
    BY <2>3, <2>4
<1>5. CASE SaveTimer
  <2>1. /\ qSaveTimer \in Edited /\ qSaveTimer # None /\ Put(qSaveTimer) /\ qSaveTimer' = None
        /\ UNCHANGED <<serverVars, deletes, wanted, excuse>>
    BY <1>5 DEF SaveTimer, EditorTypeOK
  <2>2. /\ \A base : DueRow(puts', qSaveTimer.id, qSaveTimer.row, base)
        /\ \A r \in Questions \ {qSaveTimer.id} :
              \A row, base : DueRow(puts, r, row, base) => DueRow(puts', r, row, base)
    BY <2>1, PutFacts
  <2>3. QuestionDue(q) /\ ~OnTimer(q)'
    BY <1>1, <2>1 DEF OnTimer
  <2>4. CASE q = qSaveTimer.id
    <3>1. wanted[q] # None => qSaveTimer.row = wanted[q]
      BY <2>1, <2>3, <2>4 DEF QuestionDue, OnTimer
    <3>2. wanted[q] # None => DueRow(puts', q, wanted[q], rows[q])
      BY <2>2, <2>4, <3>1
    <3> QED
      BY <2>1, <2>3, <3>2 DEF QuestionDue
  <2>5. CASE q # qSaveTimer.id
    <3>1. ~OnTimer(q)
      BY <2>5 DEF OnTimer
    <3>2. DueRow(puts, q, wanted[q], rows[q]) => DueRow(puts', q, wanted[q], rows[q])
      BY <2>2, <2>5
    <3> QED
      BY <2>1, <2>3, <3>1, <3>2, StillDue
  <2> QED
    BY <2>4, <2>5
<1>6. ASSUME NEW i \in DOMAIN puts, Serving(i)
      PROVE  QuestionDue(q)'
  <2>1. /\ puts[i].at = "sent" /\ UNCHANGED <<qSaveTimer, deletes, wanted>>
        /\ \E parts \in SUBSET puts[i].rest : Store(i, parts)
    BY <1>6, ServingFacts
  <2>2. PICK parts \in SUBSET puts[i].rest : Store(i, parts)
    BY <2>1
  <2>3. /\ Stepped(puts, puts', i) /\ puts'[i].rest = puts[i].rest \ parts
        /\ puts'[i].rest # {} => puts'[i].at = "sent"
        /\ \A p \in Questions \ {puts[i].id} : rows'[p] = rows[p]
        /\ rows[puts[i].id] = None => rows' = rows
        /\ rows[puts[i].id] # None =>
              rows'[puts[i].id] = Changed(rows[puts[i].id], puts[i].row, parts)
        /\ excuse[q] = {} /\ (q = puts[i].id => \A f \in parts : ~Overtaken(i, f))
    BY <2>2, StoreFacts
  <2>4. QuestionDue(q) /\ (OnTimer(q)' <=> OnTimer(q))
    BY <1>1, <2>1, <2>3 DEF OnTimer
  <2>5. rows[q] = None => rows'[q] = None
    BY <2>3
  <2>6. wanted[q] # None => rows[q] # None
    BY DEF WantedIsThere
  <2>7. CASE q = puts[i].id
    <3>1. \A f \in parts : \A j \in 1 .. (i - 1) :
             ~(puts[j].id = puts[i].id /\ puts[j].at = "sent" /\ f \in puts[j].rest)
      BY <2>3, <2>7 DEF Overtaken
    <3>2. ASSUME wanted[q] # None, DueRow(puts, q, wanted[q], rows[q])
          PROVE  DueRow(puts', q, wanted[q], rows'[q])
      <4>1. rows'[q] = Changed(rows[q], puts[i].row, parts)
        BY <2>3, <2>6, <2>7, <3>2
      <4> HIDE DEF DueRow
      <4>2. PICK row, base : row = wanted[q] /\ base = rows[q]
        OBVIOUS
      <4>3. DueRow(puts, puts[i].id, row, base)
        BY <2>7, <3>2, <4>2
      <4>4. DueRow(puts', puts[i].id, row, Changed(base, puts[i].row, parts))
        BY <1>0, <2>1, <2>3, <3>1, <4>3, DueRowServed
      <4> QED
        BY <2>7, <4>1, <4>2, <4>4
    <3>4. wanted[q] = None => rows'[q] = None \/ deletes'[q] = "sent"
      BY <2>1, <2>4, <2>5 DEF QuestionDue
    <3> QED
      BY <2>1, <2>4, <3>2, <3>4 DEF QuestionDue
  <2>8. CASE q # puts[i].id
    <3>1. rows'[q] = rows[q]
      BY <2>3, <2>8
    <3>2. DueRow(puts, q, wanted[q], rows[q]) => DueRow(puts', q, wanted[q], rows[q])
      BY <1>0, <2>3, <2>8, DueElsewhere
    <3> QED
      BY <2>1, <2>4, <3>1, <3>2, StillDue
  <2> QED
    BY <2>7, <2>8
<1>7. ASSUME NEW i \in DOMAIN puts, PutLost(i) \/ Skipping(i)
      PROVE  QuestionDue(q)'
  <2>1. Stepped(puts, puts', i) /\ (PutLost(i) => puts'[i].at = "error")
    BY <1>7, LostFacts, SkippingFacts
  <2>2. /\ \/ PutLost(i) /\ puts[i].at = "ok" /\ UNCHANGED excuse
           \/ \E why \in {"failed", "unstored"} :
                 excuse' = [excuse EXCEPT ![puts[i].id] = @ \cup {why}]
        /\ UNCHANGED <<serverVars, qSaveTimer, deletes, wanted>>
    BY <1>7, SkippingFacts DEF PutLost
  <2>3. excuse[q] = {} /\ (q # puts[i].id \/ (puts[i].at # "sent" /\ puts'[i].at # "sent"))
    BY <1>0, <2>1, <2>2
  <2>4. DueRow(puts, q, wanted[q], rows[q]) => DueRow(puts', q, wanted[q], rows[q])
    BY <1>0, <2>1, <2>3, DueElsewhere
  <2>5. QuestionDue(q) /\ (OnTimer(q)' <=> OnTimer(q))
    BY <1>1, <2>2, <2>3 DEF OnTimer
  <2> QED
    BY <2>2, <2>4, <2>5, StillDue
<1>8. ASSUME NEW i \in DOMAIN puts, PutAnswered(i)
      PROVE  QuestionDue(q)'
  <2>1. /\ puts[i].at # "sent"
        /\ puts' = SubSeq(puts, 1, i - 1) \o SubSeq(puts, i + 1, Len(puts))
        /\ UNCHANGED <<serverVars, qSaveTimer, deletes, wanted, excuse>>
    BY <1>8 DEF PutAnswered
  <2>2. PICK rest : rest = SubSeq(puts, 1, i - 1) \o SubSeq(puts, i + 1, Len(puts))
    OBVIOUS
  <2>3. \A r, row, base : DueRow(puts, r, row, base) => DueRow(rest, r, row, base)
    BY <1>0, <2>1, <2>2, SaveGone
  <2>4. QuestionDue(q) /\ (OnTimer(q)' <=> OnTimer(q))
    BY <1>1, <2>1 DEF OnTimer
  <2> QED
    BY <2>1, <2>2, <2>3, <2>4, StillDue
<1>9. ASSUME NEW r \in Questions, DeleteQuestion(r)
      PROVE  QuestionDue(q)'
  <2>1. /\ deletes' = [deletes EXCEPT ![r] = "sent"] /\ wanted' = [wanted EXCEPT ![r] = None]
        /\ UNCHANGED <<serverVars, qSaveTimer, puts, excuse>>
    BY <1>9 DEF DeleteQuestion
  <2>2. CASE q = r
    BY <1>0, <2>1, <2>2 DEF QuestionDue
  <2>3. CASE q # r
    <3>1. wanted'[q] = wanted[q] /\ deletes'[q] = deletes[q]
      BY <1>0, <2>1, <2>3
    <3> QED
      BY <1>1, <2>1, <3>1 DEF QuestionDue, OnTimer
  <2> QED
    BY <2>2, <2>3
<1>10. ASSUME NEW r \in Questions, DeleteServed(r)
       PROVE  QuestionDue(q)'
  <2>1. /\ deletes[r] = "sent" /\ rows' = [rows EXCEPT ![r] = None]
        /\ \A p \in Questions \ {r} : deletes'[p] = deletes[p]
        /\ UNCHANGED <<qSaveTimer, puts, wanted, excuse>>
    BY <1>0, <1>10 DEF DeleteServed
  <2>2. CASE q = r
    <3>1. rows'[q] = None /\ wanted[q] = None
      BY <1>0, <2>1, <2>2 DEF WantedIsThere
    <3> QED
      BY <2>1, <3>1 DEF QuestionDue
  <2>3. CASE q # r
    <3>1. rows'[q] = rows[q] /\ deletes'[q] = deletes[q]
      BY <1>0, <2>1, <2>3
    <3> QED
      BY <1>1, <2>1, <3>1 DEF QuestionDue, OnTimer
  <2> QED
    BY <2>2, <2>3
<1>11. ASSUME NEW r \in Questions, DeleteLost(r) \/ DeleteSkips(r)
       PROVE  QuestionDue(q)'
  <2>1. /\ \E at \in {"ok", "failed"} : deletes' = [deletes EXCEPT ![r] = at]
        /\ \E why \in {"failed", "unstored"} :
              excuse' = [excuse EXCEPT ![r] = @ \cup {why}]
        /\ UNCHANGED <<serverVars, qSaveTimer, puts, wanted>>
    BY <1>11 DEF DeleteLost, DeleteSkips
  <2>2. q # r /\ excuse[q] = {} /\ deletes'[q] = deletes[q]
    BY <1>0, <2>1
  <2> QED
    BY <1>1, <2>1, <2>2 DEF QuestionDue, OnTimer
<1>12. ASSUME NEW r \in Questions, DeleteAnswered(r)
       PROVE  QuestionDue(q)'
  <2>1. /\ deletes[r] \in {"ok", "failed"} /\ deletes' = [deletes EXCEPT ![r] = "none"]
        /\ UNCHANGED <<serverVars, qSaveTimer, puts, wanted, excuse>>
    BY <1>12 DEF DeleteAnswered
  <2>2. deletes[q] = "sent" => deletes'[q] = "sent"
    BY <1>0, <2>1
  <2> QED
    BY <1>1, <2>1, <2>2 DEF QuestionDue, OnTimer
<1>13. CASE Leave
  <2>1. /\ puts' = [i \in DOMAIN puts |-> [puts[i] EXCEPT !.mine = FALSE]]
        /\ UNCHANGED <<serverVars, qSaveTimer, deletes, wanted, excuse>>
    BY <1>13 DEF Leave
  <2>2. PICK now : now = [i \in DOMAIN puts |-> [puts[i] EXCEPT !.mine = FALSE]]
    OBVIOUS
  <2>3. \A r, row, base : DueRow(puts, r, row, base) => DueRow(now, r, row, base)
    BY <1>0, <2>2, SavesLeft
  <2>4. QuestionDue(q) /\ (OnTimer(q)' <=> OnTimer(q))
    BY <1>1, <2>1 DEF OnTimer
  <2> QED
    BY <2>1, <2>2, <2>3, <2>4, StillDue
<1>14. CASE Close
  <2>1. /\ qSaveTimer' = None
        /\ excuse' = IF qSaveTimer = None THEN excuse
                     ELSE [excuse EXCEPT ![qSaveTimer.id] = @ \cup {"closed"}]
        /\ UNCHANGED <<serverVars, deletes, wanted, puts>>
    BY <1>14 DEF Close
  <2>2. excuse[q] = {} /\ ~OnTimer(q) /\ ~OnTimer(q)'
    <3>1. excuse[q] = {}
      BY <1>0, <2>1
    <3>2. ~OnTimer(q)
      BY <1>0, <2>1 DEF OnTimer
    <3> QED
      BY <2>1, <3>1, <3>2 DEF OnTimer
  <2> QED
    BY <1>1, <2>1, <2>2 DEF QuestionDue
<1>15. CASE UNCHANGED <<rows, wanted, deletes, qSaveTimer, puts, excuse>>
  BY <1>1, <1>15 DEF QuestionDue, OnTimer
<1> QED
  BY <1>2, <1>3, <1>4, <1>5, <1>6, <1>7, <1>8, <1>9, <1>10, <1>11, <1>12, <1>13, <1>14, <1>15,
     EditorFrame

\* The list, and the answer that brings it, stay current, or news is on its way:
\* every change that is stored is answered, and every answer asks for the list.
LEMMA ListCurrentKept ==
  ASSUME EditorTypeOK, PostHasId, AwayIsBlank, ListCurrent, EditorNext
  PROVE  ListCurrent'
<1> USE DEF serverVars, queryVars, pageVars, callVars, historyVars
<1>0. /\ rows \in Rows /\ cache \in Rows /\ puts \in Seq(PutCalls)
      /\ deletes \in [Questions -> {"none", "sent", "ok", "failed"}]
      /\ DOMAIN rows = Questions /\ DOMAIN deletes = Questions
  BY DEF EditorTypeOK, Rows, PutCalls
<1> SUFFICES ASSUME faults' = 0, ~outrun', visit' # "closed", NoNews'
             PROVE  /\ fetching' = "served" => fetched' = rows'
                    /\ fetching' = "none" /\ loaded' =>
                          cache' = rows' \/ (visit' = "left" /\ stale')
  BY DEF ListCurrent
<1> DEFINE Goal == /\ fetching' = "served" => fetched' = rows'
                   /\ fetching' = "none" /\ loaded' =>
                         cache' = rows' \/ (visit' = "left" /\ stale')
           ListSame == UNCHANGED <<rows, visit, loaded, stale, cache, fetching, fetched,
                                   faults, outrun>>
<1>1. ~Fault
  BY CountFacts
<1>2. ASSUME ListSame, NoNews PROVE Goal
  BY <1>2 DEF ListCurrent
<1>3. ASSUME Invalidate, UNCHANGED visit PROVE Goal
  <2>1. fetching' = "sent" \/ (fetching' = "none" /\ visit' # "open" /\ stale')
    BY <1>3, InvalidateFacts
  <2>2. visit' \in {"open", "left"}
    BY <1>3 DEF EditorTypeOK
  <2> QED
    BY <2>1, <2>2
<1>4. ASSUME UNCHANGED <<rows, post, deletes>>,
             \A k \in DOMAIN puts : Unheard(puts[k]) =>
                \E j \in DOMAIN puts' : /\ puts'[j].id = puts[k].id /\ puts'[j].at = puts[k].at
                                       /\ puts'[j].rest = puts[k].rest
      PROVE  NoNews
  BY <1>4 DEF NoNews, Unheard
<1>5. ASSUME UNCHANGED <<rows, puts>>, post = "ok" => post' = "ok",
             \A q \in Questions : deletes[q] = "ok" => deletes'[q] = "ok"
      PROVE  NoNews
  BY <1>5 DEF NoNews, Unheard
<1>6. CASE FetchServed
  BY <1>6 DEF FetchServed
<1>7. CASE FetchAnswered
  <2>1. /\ fetching = "served" /\ visit # "closed" /\ fetching' = "none"
        /\ UNCHANGED <<rows, visit, faults, outrun, puts, post, deletes>>
    BY <1>7 DEF FetchAnswered
  <2>2. cache' = fetched
    BY <1>7 DEF FetchAnswered, Render
  <2>3. fetched = rows
    BY <2>1, <1>5 DEF ListCurrent
  <2> QED
    BY <2>1, <2>2, <2>3
<1>8. CASE AddServed
  BY <1>1, <1>8 DEF AddServed, NoNews
<1>9. CASE AddAnswered
  <2>1. CASE post = "ok" /\ visit # "closed"
    BY <1>3, <1>9, <2>1 DEF AddAnswered
  <2>2. CASE ~(post = "ok" /\ visit # "closed")
    <3>1. ListSame /\ UNCHANGED <<puts, deletes>>
      BY <1>9, <2>2 DEF AddAnswered
    <3>2. post # "ok"
      BY <2>2, <3>1
    <3> QED
      BY <1>2, <1>5, <3>1, <3>2
  <2> QED
    BY <2>1, <2>2
<1>10. ASSUME NEW i \in DOMAIN puts, Serving(i) PROVE Goal
  <2>1. /\ puts[i].at = "sent"
        /\ UNCHANGED <<visit, loaded, stale, cache, fetching, fetched, faults, outrun,
                       post, deletes>>
        /\ \E parts \in SUBSET puts[i].rest :
              Store(i, parts) /\ puts[i].rest \ parts # Fields
    BY <1>10, ServingFacts
  <2>2. PICK parts \in SUBSET puts[i].rest :
           Store(i, parts) /\ puts[i].rest \ parts # Fields
    BY <2>1
  <2>3. /\ Stepped(puts, puts', i) /\ puts'[i].rest = puts[i].rest \ parts
        /\ puts'[i].rest # {} => puts'[i].at = "sent"
        /\ puts'[i].at = "error" => rows[puts[i].id] = None
        /\ rows[puts[i].id] = None => rows' = rows
        /\ rows[puts[i].id] # None => rows'[puts[i].id] # None
    BY <2>2, StoreFacts
  <2>4. PICK q \in Questions : q = puts[i].id
    BY <2>3 DEF Stepped
  <2>5. puts' \in Seq(PutCalls) /\ i \in DOMAIN puts' /\ puts'[i].id = q
    BY <2>3, <2>4 DEF Stepped
  <2>6. rows[q] = None
    <3> SUFFICES ASSUME rows[q] # None PROVE FALSE
      OBVIOUS
    <3>1. rows'[q] # None /\ puts'[i].at # "error"
      BY <2>3, <2>4
    <3>2. puts'[i] \in PutCalls
      BY <2>5
    <3>3. puts'[i].at \in {"sent", "ok", "error"}
      BY <3>2 DEF PutCalls
    <3>4. puts'[i].at # "ok" /\ ~(puts'[i].at = "sent" /\ puts'[i].rest # Fields)
      BY <2>5, <3>1 DEF NoNews, Unheard
    <3>5. puts'[i].rest = Fields
      BY <3>1, <3>3, <3>4
    <3> QED
      BY <2>2, <2>3, <3>5
  <2>7. rows' = rows
    BY <2>3, <2>4, <2>6
  <2>8. \A k \in DOMAIN puts : Unheard(puts[k]) =>
           \E j \in DOMAIN puts' : /\ puts'[j].id = puts[k].id /\ puts'[j].at = puts[k].at
                                  /\ puts'[j].rest = puts[k].rest
    <3>1. ~Unheard(puts[i])
      BY <2>1, <2>4, <2>6 DEF Unheard
    <3>2. \A k \in DOMAIN puts \ {i} : k \in DOMAIN puts' /\ puts'[k] = puts[k]
      BY <2>3 DEF Stepped
    <3> QED
      BY <3>1, <3>2
  <2>9. NoNews
    BY <1>4, <2>1, <2>7, <2>8
  <2> QED
    BY <1>2, <2>1, <2>7, <2>9
<1>11. ASSUME NEW i \in DOMAIN puts, PutAnswered(i) PROVE Goal
  <2>1. CASE puts[i].at = "ok" /\ visit # "closed"
    BY <1>3, <1>11, <2>1 DEF PutAnswered
  <2>2. CASE ~(puts[i].at = "ok" /\ visit # "closed")
    <3>1. /\ ListSame /\ UNCHANGED <<post, deletes>>
          /\ puts' = SubSeq(puts, 1, i - 1) \o SubSeq(puts, i + 1, Len(puts))
      <4>1. UNCHANGED outrun
        BY <1>11, <2>2 DEF PutAnswered
      <4> QED
        BY <1>11, <2>2, <4>1 DEF PutAnswered
    <3>2. \A k \in DOMAIN puts \ {i} : \E j \in DOMAIN puts' : puts'[j] = puts[k]
      BY <1>0, <3>1, SaveGone
    <3>3. ~Unheard(puts[i])
      BY <1>11, <2>2, <3>1 DEF PutAnswered, Unheard
    <3> QED
      BY <1>2, <1>4, <3>1, <3>2, <3>3
  <2> QED
    BY <2>1, <2>2
<1>12. ASSUME NEW i \in DOMAIN puts, PutLost(i) \/ Skipping(i) PROVE Goal
  BY <1>1, <1>12, SkippingFacts DEF PutLost
<1>13. ASSUME NEW q \in Questions, DeleteServed(q) PROVE Goal
  <2>1. deletes' # [deletes EXCEPT ![q] = "ok"]
    BY <1>0 DEF NoNews
  <2> QED
    BY <1>1, <1>13, <2>1 DEF DeleteServed
<1>14. ASSUME NEW q \in Questions, DeleteAnswered(q) PROVE Goal
  <2>1. CASE deletes[q] = "ok" /\ visit # "closed"
    BY <1>3, <1>14, <2>1 DEF DeleteAnswered
  <2>2. CASE ~(deletes[q] = "ok" /\ visit # "closed")
    <3>1. /\ ListSame /\ UNCHANGED <<puts, post>>
          /\ deletes' = [deletes EXCEPT ![q] = "none"]
      BY <1>14, <2>2 DEF DeleteAnswered
    <3>2. deletes[q] # "ok"
      BY <2>2, <3>1
    <3>3. \A r \in Questions : deletes[r] = "ok" => deletes'[r] = "ok"
      BY <1>0, <3>1, <3>2
    <3> QED
      BY <1>2, <1>5, <3>1, <3>3
  <2> QED
    BY <2>1, <2>2
<1>15. ASSUME NEW q \in Questions, DeleteLost(q) \/ DeleteSkips(q) PROVE Goal
  BY <1>1, <1>15 DEF DeleteLost, DeleteSkips
<1>16. ASSUME NEW q \in Questions, DeleteQuestion(q) PROVE Goal
  <2>1. ListSame /\ UNCHANGED <<puts, post>> /\ deletes' = [deletes EXCEPT ![q] = "sent"]
        /\ deletes[q] = "none"
    BY <1>16 DEF DeleteQuestion
  <2>2. \A r \in Questions : deletes[r] = "ok" => deletes'[r] = "ok"
    BY <1>0, <2>1
  <2> QED
    BY <1>2, <1>5, <2>1, <2>2
<1>17. ASSUME NEW e \in Edited, Put(e), ListSame, UNCHANGED <<post, deletes>>
       PROVE  Goal
  <2>1. \A k \in DOMAIN puts : \E j \in DOMAIN puts' : puts'[j] = puts[k]
    BY <1>17, PutFacts
  <2> QED
    BY <1>2, <1>4, <1>17, <2>1
<1>18. CASE ToggleRequired
  <2>1. PICK e \in Edited : Put(e)
    BY <1>18, ToggleFacts
  <2> QED
    BY <1>17, <1>18, <2>1 DEF ToggleRequired
<1>19. CASE SaveTimer
  <2>1. qSaveTimer \in Edited /\ Put(qSaveTimer)
    BY <1>19 DEF SaveTimer, EditorTypeOK
  <2> QED
    BY <1>17, <1>19, <2>1 DEF SaveTimer
<1>20. CASE Refocus
  BY <1>20 DEF Refocus
<1>21. CASE Leave
  <2>1. /\ visit' = "left"
        /\ UNCHANGED <<rows, loaded, stale, cache, fetching, fetched, faults, outrun, post,
                       deletes>>
        /\ puts' = [i \in DOMAIN puts |-> [puts[i] EXCEPT !.mine = FALSE]]
        /\ visit = "open"
    BY <1>21 DEF Leave
  <2>2. DOMAIN puts' = DOMAIN puts
        /\ \A k \in DOMAIN puts : /\ puts'[k].id = puts[k].id /\ puts'[k].at = puts[k].at
                                 /\ puts'[k].rest = puts[k].rest
    BY <1>0, <2>1, SavesLeft
  <2>3. NoNews
    BY <1>4, <2>1, <2>2
  <2> QED
    BY <2>1, <2>3 DEF ListCurrent
<1>22. CASE Return
  <2>1. /\ visit = "left" /\ visit' = "open"
        /\ UNCHANGED <<rows, loaded, stale, cache, fetched, faults, puts, post, deletes>>
    BY <1>22 DEF Return
  <2>2. CASE fetching # "none"
    <3>1. UNCHANGED <<fetching, outrun>>
      BY <1>22, <2>2 DEF Return
    <3> QED
      BY <1>5, <2>1, <2>2, <3>1 DEF ListCurrent
  <2>3. CASE fetching = "none"
    <3>1. /\ fetching' = "sent" \/ (fetching' = "none" /\ ~stale /\ loaded)
          /\ fetching' = "none" => ~outrun
      BY <1>22, <2>3 DEF Return
    <3> QED
      BY <1>5, <2>1, <2>3, <3>1 DEF ListCurrent
  <2> QED
    BY <2>2, <2>3
<1>23. CASE Close
  BY <1>23 DEF Close
<1>24. CASE FetchFails \/ AddLost
  BY <1>1, <1>24 DEF FetchFails, AddLost
<1>25. ASSUME NEW q \in Questions, Select(q) PROVE Goal
  <2>1. ListSame /\ UNCHANGED <<puts, post, deletes>>
    BY <1>25 DEF Select, Render
  <2> QED
    BY <1>2, <1>5, <2>1
<1>26. CASE PickType \/ PickBack
  <2>1. ListSame /\ UNCHANGED <<puts, post, deletes>>
    BY <1>26 DEF PickType, PickBack, Render
  <2> QED
    BY <1>2, <1>5, <2>1
<1>27. CASE EditText \/ IdleTimer
  <2>1. ListSame /\ UNCHANGED <<puts, post, deletes>>
    BY <1>27 DEF EditText, IdleTimer
  <2> QED
    BY <1>2, <1>5, <2>1
<1>28. CASE AddQuestion
  <2>1. ListSame /\ UNCHANGED <<puts, deletes>> /\ post = "none"
    BY <1>28 DEF AddQuestion
  <2> QED
    BY <1>2, <1>5, <2>1
<1> HIDE DEF ListSame
<1> QED
  BY <1>6, <1>7, <1>8, <1>9, <1>10, <1>11, <1>12, <1>13, <1>14, <1>15, <1>16, <1>18, <1>19,
     <1>20, <1>21, <1>22, <1>23, <1>24, <1>25, <1>26, <1>27, <1>28
     DEF EditorNext, Calls, User, Faults, Serving, Skipping
-----------------------------------------------------------------------------
(* The editor and the page: the invariant and the theorems.                *)

\* The page when it opens: every question is stored as it is wanted.
LEMMA EditorInitInv == EditorInit => EditorInv
<1> SUFFICES ASSUME EditorInit
             PROVE  EditorInv
  OBVIOUS
<1>1. /\ rows = [q \in Questions |-> IF q <= Existing THEN NewRow ELSE None]
      /\ created = Existing /\ wanted = rows
      /\ cache = [q \in Questions |-> None] /\ fetched = cache /\ fetching = "sent"
      /\ selectedId = None /\ editingQ = None /\ qSaveTimer = None
      /\ puts = <<>> /\ post = "none" /\ deletes = [q \in Questions |-> "none"]
      /\ excuse = [q \in Questions |-> {}] /\ visit = "open"
  BY DEF EditorInit
<1>2. \A q \in Questions : rows[q] = IF q <= Existing THEN NewRow ELSE None
  BY <1>1
<1>3. rows \in Rows /\ cache \in Rows
  BY <1>1, QuestionIds DEF Rows
<1>4. EditorTypeOK
  <2>1. puts \in Seq([id : Questions, row : Row, mine : BOOLEAN,
                      rest : SUBSET Fields, at : {"sent", "ok", "error"}]) /\ Len(puts) <= MaxPuts
    BY <1>1, QuestionIds
  <2>2. acts \in 0..MaxActs /\ faults \in 0..MaxFaults /\ idleTimers \in Nat
    BY QuestionIds DEF EditorInit
  <2>3. /\ loaded \in BOOLEAN /\ stale \in BOOLEAN /\ pickingType \in BOOLEAN
        /\ refused \in BOOLEAN /\ outrun \in BOOLEAN
    BY DEF EditorInit
  <2>4. /\ deletes \in [Questions -> {"none", "sent", "ok", "failed"}]
        /\ excuse \in [Questions -> SUBSET Causes]
        /\ saveState \in {"idle", "saving", "saved"}
    BY <1>1 DEF EditorInit
  <2> QED
    BY <1>1, <1>3, <2>1, <2>2, <2>3, <2>4, QuestionIds DEF EditorTypeOK
<1>5. AwayIsBlank /\ EditorFollows /\ PostHasId
  BY <1>1 DEF AwayIsBlank, EditorFollows, PostHasId
<1>6. Unborn
  <2>1. \A q \in Questions : q > Existing => ~(q <= Existing)
    BY QuestionIds
  <2> QED
    BY <1>1, <1>2, <2>1 DEF Unborn
<1>7. WantedIsThere /\ WantedIsDue
  BY <1>1 DEF WantedIsThere, WantedIsDue, QuestionDue, OnTimer, DueRow, DueField, SentFor
<1>8. ListCurrent
  BY <1>1 DEF ListCurrent
<1> QED
  BY <1>4, <1>5, <1>6, <1>7, <1>8 DEF EditorInv

\* EditorInv holds in every reachable state.
LEMMA EditorInvHolds == Spec => []EditorInv
<1>1. Init => EditorInv
  BY EditorInitInv DEF Init
<1>2. EditorInv /\ [Next]_builderVars => EditorInv'
  <2> SUFFICES ASSUME EditorInv, [Next]_builderVars
               PROVE  EditorInv'
    OBVIOUS
  <2>1. CASE EditorNext
    <3>1. /\ EditorTypeOK /\ AwayIsBlank /\ EditorFollows
          /\ PostHasId /\ Unborn /\ WantedIsThere /\ WantedIsDue /\ ListCurrent
      BY DEF EditorInv
    <3>2. EditorTypeOK' /\ PostHasId'
      BY <2>1, <3>1, EditorTypesKept, PostKept
    <3>3. AwayIsBlank' /\ EditorFollows'
      BY <2>1, <3>1, PageKept
    <3>4. Unborn' /\ WantedIsThere'
      BY <2>1, <3>1, UnbornKept, WantedIsThereKept
    <3>5. WantedIsDue' /\ ListCurrent'
      BY <2>1, <3>1, WantedIsDueKept, ListCurrentKept
    <3> QED
      BY <3>2, <3>3, <3>4, <3>5 DEF EditorInv
  <2>2. CASE UNCHANGED editorVars
    <3> USE <2>2 DEF editorVars, serverVars, queryVars, pageVars, callVars, historyVars
    <3>1. EditorTypeOK'
      BY DEF EditorInv, EditorTypeOK
    <3>2. AwayIsBlank' /\ EditorFollows' /\ PostHasId'
      BY DEF EditorInv, AwayIsBlank, EditorFollows, PostHasId
    <3>3. Unborn' /\ WantedIsThere'
      BY DEF EditorInv, Unborn, WantedIsThere
    <3>4. WantedIsDue'
      BY DEF EditorInv, WantedIsDue, QuestionDue, OnTimer
    <3>5. ListCurrent'
      BY DEF EditorInv, ListCurrent, NoNews, Unheard
    <3> QED
      BY <3>1, <3>2, <3>3, <3>4, <3>5 DEF EditorInv
  <2> QED
    BY <2>1, <2>2 DEF Next, builderVars
<1> QED
  BY <1>1, <1>2, PTL DEF Spec

\* TypeOK: every variable of the page keeps its type, the saves under way their
\* bound, and what the editor holds is a question with one of the ids given out.
THEOREM TypeCorrect == Spec => []TypeOK
<1>1. EditorInv /\ HeaderInv => TypeOK
  BY DEF EditorInv, HeaderInv, TypeOK
<1> QED
  BY <1>1, EditorInvHolds, HeaderInvHolds, PTL

\* EditsKept: with nothing under way every question is stored as the user has made
\* it, or one of the named causes has come between, and the list is what is stored,
\* unless a call was lost or an older answer let pass: the one timer of
\* scheduleQSave(), the saves that pass each other, additions, deletions and the
\* query of SurveyBuilderPage.tsx, in whatever order they are served, whole or, by
\* Go, an UPDATE at a time of which some may fail unseen.
THEOREM EditsAreKept == Spec => []EditsKept
<1>1. EditorInv => EditsKept
  <2> SUFFICES ASSUME EditorInv
               PROVE  LostEditsExplained /\ ListIsCurrent
    BY DEF EditsKept
  <2>1. EditorTypeOK /\ WantedIsDue /\ WantedIsThere /\ ListCurrent
    BY DEF EditorInv
  <2>2. LostEditsExplained
    <3> SUFFICES ASSUME Quiet, NEW q \in Questions, excuse[q] = {}
                 PROVE  rows[q] = wanted[q]
      BY DEF LostEditsExplained
    <3>1. /\ ~OnTimer(q) /\ deletes[q] = "none"
          /\ \A f \in Fields : SentFor(puts, q, f) = {}
      BY DEF Quiet, OnTimer, SentFor
    <3>2. QuestionDue(q)
      BY <2>1 DEF WantedIsDue
    <3>3. CASE wanted[q] = None
      BY <3>1, <3>2, <3>3 DEF QuestionDue
    <3>4. CASE wanted[q] # None
      <4>1. \A f \in Fields : rows[q][f] = wanted[q][f]
        BY <3>1, <3>2, <3>4 DEF QuestionDue, DueRow, DueField
      <4>2. PICK stays \in Row, asks \in Row : stays = rows[q] /\ asks = wanted[q]
        BY <2>1, <3>4 DEF WantedIsThere, EditorTypeOK, Rows
      <4>3. stays.text = asks.text /\ stays.required = asks.required
        BY <4>1, <4>2 DEF Fields
      <4> QED
        BY <4>2, <4>3 DEF Row
    <3> QED
      BY <3>3, <3>4
  <2>3. ListIsCurrent
    <3> SUFFICES ASSUME Quiet, visit = "open", fetching = "none", loaded, faults = 0, ~outrun
                 PROVE  cache = rows
      BY DEF ListIsCurrent
    <3>1. NoNews
      BY DEF Quiet, NoNews
    <3> QED
      BY <2>1, <3>1 DEF ListCurrent
  <2> QED
    BY <2>2, <2>3
<1> QED
  BY <1>1, EditorInvHolds, PTL

\* EditorFollowsSelection: the editor in the middle edits the question that is
\* selected, through additions, deletions, lists that arrive late, and returns: the
\* effects on the list and on [selected?.id] of SurveyBuilderPage.tsx.
THEOREM EditorIsSelected == Spec => []EditorFollowsSelection
<1>1. EditorInv => EditorFollowsSelection
  BY DEF EditorInv, EditorFollows, EditorFollowsSelection, Canvas
<1> QED
  BY <1>1, EditorInvHolds, PTL

\* TypedTextStays: no answer, no list and no timer changes the question that stays
\* in the editor: setEditingQ() runs for the user's edits, or with another question.
THEOREM TypedIsKept == Spec => TypedTextStays
<1> DEFINE Stays == Canvas /\ Canvas' /\ selectedId' = selectedId /\ acts' = acts
                    => editingQ' = editingQ
<1>1. EditorInv /\ [Next]_builderVars => [Stays]_editorVars
  <2> SUFFICES ASSUME EditorInv, EditorNext, Canvas, Canvas',
                      selectedId' = selectedId, acts' = acts
               PROVE  editingQ' = editingQ
    BY DEF Next, builderVars
  <2>1. EditorTypeOK /\ PostHasId /\ AwayIsBlank /\ EditorFollows
    BY DEF EditorInv
  <2>2. /\ Selected(cache, selectedId) # None /\ editingQ # None /\ editingQ' # None
        /\ selectedId # None
    BY QuestionIds DEF Canvas, Selected, Listed
  <2>3. ASSUME Renders(fetched, selectedId, pickingType, editingQ)
        PROVE  editingQ' = editingQ
    BY <2>2, <2>3, RenderFacts DEF Renders
  <2>4. ASSUME NEW q \in Questions \cup {None}, NEW p \in BOOLEAN,
               Renders(cache, q, p, editingQ)
        PROVE  editingQ' = editingQ
    BY <2>2, <2>4, RenderFacts DEF Renders
  <2>5. ~Renders(cache, None, pickingType, None)
    <3> SUFFICES ASSUME Renders(cache, None, pickingType, None)
                 PROVE  FALSE
      OBVIOUS
    <3>1. cache = cache => selectedId' = None
      BY RenderFacts DEF Renders
    <3> QED
      BY <2>2, <3>1
  <2> QED
    BY <2>1, <2>2, <2>3, <2>4, <2>5, PageSteps
<1> QED
  BY <1>1, EditorInvHolds, PTL DEF Spec, TypedTextStays
=============================================================================
