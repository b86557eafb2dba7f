------------------------- MODULE SurveyStoreProofs -------------------------
(***************************************************************************)
(* The limit of a plan is passed only by surveys whose count was read      *)
(* before another INSERT or, in Go, not read at all, and by copies, for    *)
(* every limit, any number of requests between whose statements those of   *)
(* others come, and any number of statements that fail.  Under the same    *)
(* conditions the questions keep places of their own, and the last version *)
(* is the survey as it is stored, but for what a request that came         *)
(* between, or a statement Go went on without, explains.                   *)
(***************************************************************************)
EXTENDS SurveyStore, FiniteSetTheorems, SequenceTheorems, WellFoundedInduction, TLAPS

Counted == {s \in DOMAIN surveyRows : surveyRows[s] = {}}

\* What a request has, whatever its job.
Shaped(q) == DOMAIN q = {"job", "at", "id", "list", "n", "doubts"}

RequestsShaped ==
    /\ DOMAIN requests = Requests
    /\ \A r \in Requests : requests[r] # NoRequest => Shaped(requests[r])

\* A request that has counted, and that no INSERT or DELETE has come after, has room.
CountTrusted ==
    \A r \in Requests :
        Is(r, "create", "checked") /\ requests[r].doubts = {}
            => Cardinality(DOMAIN surveyRows) < PlanMax

\* LimitExplained is about the rows alone; a step keeps it because of the counts that
\* are under way.
LimitInv ==
    /\ IsFiniteSet(DOMAIN surveyRows)
    /\ Cardinality(Counted) <= PlanMax
    /\ RequestsShaped
    /\ CountTrusted

-----------------------------------------------------------------------------

\* A subset of a finite set has no more members.
LEMMA Fewer ==
  ASSUME NEW S, NEW T, IsFiniteSet(T), S \subseteq T
  PROVE  /\ IsFiniteSet(S) /\ Cardinality(S) \in Nat /\ Cardinality(T) \in Nat
         /\ Cardinality(S) <= Cardinality(T)
BY FS_Subset, FS_CardinalityType

\* The rows that were not counted make up the difference.
LEMMA LimitFollows ==
  ASSUME LimitInv
  PROVE  LimitExplained
<1> DEFINE All == DOMAIN surveyRows
           Others == {s \in All : surveyRows[s] # {}}
<1>1. IsFiniteSet(All) /\ Cardinality(Counted) <= PlanMax
  BY DEF LimitInv
<1>2. IsFiniteSet(Counted) /\ IsFiniteSet(Others)
  BY <1>1, Fewer DEF Counted
<1>3. /\ Counted \cup Others = All
      /\ Counted \cap Others = {}
  BY DEF Counted
<1>4. Cardinality(All) = Cardinality(Counted) + Cardinality(Others) - Cardinality(Counted \cap Others)
  BY <1>2, <1>3, FS_Union
<1>5. Cardinality(Counted \cap Others) = 0
  BY <1>3, FS_EmptySet
<1>6. Cardinality(Counted) \in Nat /\ Cardinality(Others) \in Nat
  BY <1>2, FS_CardinalityType
<1> QED
  BY <1>1, <1>4, <1>5, <1>6, StoreAssumption DEF LimitExplained

\* A request with another job, or elsewhere in its own, trusts no count.
LEMMA TrustKept ==
  ASSUME RequestsShaped, CountTrusted, UNCHANGED surveyRows,
         NEW r \in Requests, NEW q, NEW jobs,
         Reads(r, q) \/ Writes(r, q, jobs),
         q # NoRequest => /\ Shaped(q)
                          /\ q.job = "create" /\ q.at = "checked" /\ q.doubts = {}
                                => Cardinality(DOMAIN surveyRows) < PlanMax
  PROVE  RequestsShaped' /\ CountTrusted'
<1>1. CASE Reads(r, q)
  BY <1>1 DEF RequestsShaped, CountTrusted, Reads, Is
<1>2. CASE Writes(r, q, jobs)
  <2>1. RequestsShaped'
    BY <1>2 DEF RequestsShaped, Writes, Shaped, Doubting
  <2>2. ASSUME NEW o \in Requests, o # r, requests'[o] # NoRequest, requests'[o].doubts = {}
        PROVE  requests'[o] = requests[o]
    BY <1>2, <2>2 DEF RequestsShaped, Writes, Shaped, Doubting
  <2>3. requests'[r] = q
    BY <1>2 DEF Writes
  <2> QED
    BY <2>1, <2>2, <2>3 DEF CountTrusted, Is
<1> QED
  BY <1>1, <1>2

\* When a row comes or goes, the others' counts are trusted no more.
LEMMA TrustLost ==
  ASSUME RequestsShaped, NEW r \in Requests, NEW q, NEW jobs,
         "create" \in jobs, Writes(r, q, jobs),
         q # NoRequest => Shaped(q) /\ q.job # "create"
  PROVE  RequestsShaped' /\ CountTrusted'
<1>1. RequestsShaped'
  BY DEF RequestsShaped, Writes, Shaped, Doubting
<1>2. ASSUME NEW o \in Requests, o # r, requests'[o] # NoRequest, requests'[o].job = "create"
      PROVE  requests'[o].doubts # {}
  BY <1>2 DEF RequestsShaped, Writes, Shaped, Doubting
<1>3. requests'[r] = q
  BY DEF Writes
<1> QED
  BY <1>1, <1>2, <1>3 DEF CountTrusted, Is

-----------------------------------------------------------------------------

LEMMA LimitInit == StoreInit => LimitInv
<1> SUFFICES ASSUME StoreInit PROVE LimitInv
  OBVIOUS
<1>1. DOMAIN surveyRows = {1}
  BY DEF StoreInit
<1>2. IsFiniteSet({1}) /\ Cardinality({1}) = 1
  BY FS_Singleton
<1>3. Cardinality(Counted) <= 1
  BY <1>1, <1>2, Fewer DEF Counted
<1>4. Cardinality(Counted) \in Nat
  BY <1>1, <1>2, Fewer DEF Counted
<1> QED
  BY <1>1, <1>2, <1>3, <1>4, StoreAssumption
     DEF StoreInit, LimitInv, RequestsShaped, CountTrusted, Is

\* A step that leaves the surveys alone, and gives its request no count to trust.
LEMMA LimitReads ==
  ASSUME LimitInv, UNCHANGED surveyRows,
         NEW r \in Requests, NEW q, NEW jobs,
         Reads(r, q) \/ Writes(r, q, jobs),
         q # NoRequest => /\ Shaped(q)
                          /\ q.job = "create" /\ q.at = "checked" /\ q.doubts = {}
                                => Cardinality(DOMAIN surveyRows) < PlanMax
  PROVE  LimitInv'
<1>1. RequestsShaped' /\ CountTrusted'
  BY TrustKept DEF LimitInv
<1> QED
  BY <1>1 DEF LimitInv, Counted

LEMMA LimitInsertSurvey ==
  ASSUME LimitInv, NEW r \in Requests, InsertSurvey(r)
  PROVE  LimitInv'
<1> DEFINE How == requests[r].doubts
<1>1. /\ IsFiniteSet(DOMAIN surveyRows) /\ Cardinality(Counted) <= PlanMax
      /\ RequestsShaped /\ CountTrusted
  BY DEF LimitInv
<1>2. surveyRows' = [i \in DOMAIN surveyRows \cup {ids'} |->
                        IF i = ids' THEN How ELSE surveyRows[i]]
  BY DEF InsertSurvey, With
<1>3. IsFiniteSet(DOMAIN surveyRows')
  BY <1>1, <1>2, FS_AddElement
<1>4. RequestsShaped' /\ CountTrusted'
  <2>1. Writes(r, NoRequest, AboutSurveys) /\ "create" \in AboutSurveys
    BY DEF InsertSurvey, AboutSurveys
  <2> QED
    BY <1>1, <2>1, TrustLost
<1>5. IsFiniteSet(Counted) /\ Cardinality(Counted) \in Nat
      /\ Cardinality(Counted) <= Cardinality(DOMAIN surveyRows)
      /\ Cardinality(DOMAIN surveyRows) \in Nat
  BY <1>1, Fewer DEF Counted
<1>6. Cardinality(Counted') <= PlanMax
  <2>1. CASE requests[r].doubts = {}
    <3>1. Cardinality(DOMAIN surveyRows) < PlanMax
      BY <1>1, <2>1 DEF CountTrusted, InsertSurvey
    <3>2. Counted' \subseteq Counted \cup {ids'}
      BY <1>2 DEF Counted
    <3>3. IsFiniteSet(Counted \cup {ids'})
          /\ Cardinality(Counted \cup {ids'}) <= Cardinality(Counted) + 1
      <4>1. /\ IsFiniteSet(Counted \cup {ids'})
            /\ \/ Cardinality(Counted \cup {ids'}) = Cardinality(Counted)
               \/ Cardinality(Counted \cup {ids'}) = Cardinality(Counted) + 1
        BY <1>5, FS_AddElement
      <4> QED
        BY <1>5, <4>1
    <3>4. Cardinality(Counted') <= Cardinality(Counted \cup {ids'})
          /\ Cardinality(Counted') \in Nat /\ Cardinality(Counted \cup {ids'}) \in Nat
      BY <3>2, <3>3, Fewer
    <3> QED
      BY <1>5, <3>1, <3>3, <3>4, StoreAssumption
  <2>2. CASE requests[r].doubts # {}
    <3>1. Counted' \subseteq Counted
      BY <1>2, <2>2 DEF Counted
    <3>2. Cardinality(Counted') <= Cardinality(Counted) /\ Cardinality(Counted') \in Nat
      BY <1>5, <3>1, Fewer
    <3> QED
      BY <1>1, <1>5, <3>2, StoreAssumption
  <2> QED
    BY <2>1, <2>2
<1> QED
  BY <1>3, <1>4, <1>6 DEF LimitInv

LEMMA LimitInsertCopy ==
  ASSUME LimitInv, NEW r \in Requests, InsertCopy(r)
  PROVE  LimitInv'
<1>1. /\ IsFiniteSet(DOMAIN surveyRows) /\ Cardinality(Counted) <= PlanMax
      /\ RequestsShaped
  BY DEF LimitInv
<1>2. surveyRows' = [i \in DOMAIN surveyRows \cup {ids'} |->
                        IF i = ids' THEN {"copy"} ELSE surveyRows[i]]
  BY DEF InsertCopy, With
<1>3. IsFiniteSet(DOMAIN surveyRows')
  BY <1>1, <1>2, FS_AddElement
<1>4. RequestsShaped' /\ CountTrusted'
  <2> DEFINE q == [requests[r] EXCEPT !.at = "read", !.id = ids']
  <2>1. Writes(r, q, AboutSurveys) /\ "create" \in AboutSurveys
    BY DEF InsertCopy, AboutSurveys
  <2>2. Shaped(q) /\ q.job # "create"
    BY <1>1 DEF InsertCopy, Is, RequestsShaped, Shaped
  <2> HIDE DEF q
  <2> QED
    BY <1>1, <2>1, <2>2, TrustLost
<1>5. Counted' \subseteq Counted
  BY <1>2 DEF Counted
<1>6. IsFiniteSet(Counted)
  BY <1>1, Fewer DEF Counted
<1>7. Cardinality(Counted') <= Cardinality(Counted)
      /\ Cardinality(Counted') \in Nat /\ Cardinality(Counted) \in Nat
  BY <1>5, <1>6, Fewer
<1> QED
  BY <1>1, <1>3, <1>4, <1>7, StoreAssumption DEF LimitInv

LEMMA LimitDropSurvey ==
  ASSUME LimitInv, NEW r \in Requests, DropSurvey(r)
  PROVE  LimitInv'
<1>1. /\ IsFiniteSet(DOMAIN surveyRows) /\ Cardinality(Counted) <= PlanMax
      /\ RequestsShaped
  BY DEF LimitInv
<1>2. PICK s \in DOMAIN surveyRows :
         surveyRows' = [i \in DOMAIN surveyRows \ {s} |-> surveyRows[i]]
  BY DEF DropSurvey, Less
<1>3. DOMAIN surveyRows' \subseteq DOMAIN surveyRows /\ Counted' \subseteq Counted
  BY <1>2 DEF Counted
<1>4. RequestsShaped' /\ CountTrusted'
  <2>1. Writes(r, NoRequest, Jobs) /\ "create" \in Jobs
    BY DEF DropSurvey, Jobs
  <2> QED
    BY <1>1, <2>1, TrustLost
<1>5. IsFiniteSet(Counted) /\ IsFiniteSet(DOMAIN surveyRows')
  BY <1>1, <1>3, Fewer DEF Counted
<1>6. Cardinality(Counted') <= Cardinality(Counted)
      /\ Cardinality(Counted') \in Nat /\ Cardinality(Counted) \in Nat
  BY <1>3, <1>5, Fewer
<1> QED
  BY <1>1, <1>4, <1>5, <1>6, StoreAssumption DEF LimitInv

\* The other steps leave the surveys alone, and a count they leave is of now.
LEMMA LimitOthers ==
  ASSUME LimitInv, NEW r \in Requests,
         \/ \E job \in Jobs : Ask(r, job)
         \/ CheckLimit(r) \/ ReadOriginal(r) \/ ReadQuestions(r) \/ InsertQuestionCopy(r)
         \/ NextPlace(r) \/ InsertQuestion(r) \/ BeginReorder(r) \/ PlaceQuestion(r)
         \/ RemoveQuestion(r) \/ UpdateTitle(r) \/ ReadSurvey(r) \/ ReadVersion(r)
         \/ InsertVersion(r) \/ FailEnds(r) \/ FailSkips(r)
  PROVE  LimitInv'
<1> DEFINE Harmless(q) ==
              q # NoRequest => /\ Shaped(q)
                               /\ q.job = "create" /\ q.at = "checked" /\ q.doubts = {}
                                     => Cardinality(DOMAIN surveyRows) < PlanMax
           Gives(q) == Harmless(q) /\ (Reads(r, q) \/ \E jobs : Writes(r, q, jobs))
           Quiet == surveyRows' = surveyRows /\ \E q : Gives(q)
<1>q. requests[r] # NoRequest => Shaped(requests[r])
  BY DEF LimitInv, RequestsShaped
<1>n. Cardinality(DOMAIN surveyRows) \in Nat
  BY FS_CardinalityType DEF LimitInv
<1>h. Harmless(NoRequest)
  OBVIOUS
<1> SUFFICES Quiet
  BY LimitReads
<1>1. ASSUME NEW job \in Jobs, Ask(r, job)
      PROVE  Quiet
  <2>1. PICK list : Reads(r, [job |-> job, at |-> "begin", list |-> list, n |-> 0,
                              doubts |-> {}, id |-> IF job = "update" THEN asked' ELSE 0])
    BY <1>1 DEF Ask
  <2> DEFINE q == [job |-> job, at |-> "begin", list |-> list, n |-> 0, doubts |-> {},
                   id |-> IF job = "update" THEN asked' ELSE 0]
  <2>2. Shaped(q) /\ q.at # "checked"
    BY DEF Shaped
  <2>3. Gives(q)
    BY <2>1, <2>2
  <2> QED
    BY <1>1, <2>3 DEF Ask, tableVars
<1>2. CASE CheckLimit(r)
  <2> DEFINE q == [requests[r] EXCEPT !.at = "checked"]
  <2>1. surveyRows' = surveyRows /\ Reads(r, IF Cardinality(DOMAIN surveyRows) >= PlanMax
                                             THEN NoRequest ELSE q)
    BY <1>2 DEF CheckLimit, tableVars
  <2>2. Shaped(q)
    BY <1>2, <1>q DEF CheckLimit, Is, Shaped
  <2>3. CASE Cardinality(DOMAIN surveyRows) >= PlanMax
    BY <2>1, <2>3, <1>h
  <2>4. CASE ~(Cardinality(DOMAIN surveyRows) >= PlanMax)
    <3>1. Cardinality(DOMAIN surveyRows) < PlanMax
      BY <2>4, <1>n, StoreAssumption
    <3>2. Harmless(q) /\ Reads(r, q)
      BY <2>1, <2>2, <2>4, <3>1
    <3> QED
      BY <2>1, <3>2
  <2> QED
    BY <2>3, <2>4
<1>3. CASE ReadOriginal(r)
  <2>1. surveyRows' = surveyRows
    BY <1>3 DEF ReadOriginal, tableVars
  <2>2. PICK q : /\ q # NoRequest => Shaped(q) /\ q.job = "copy"
                 /\ Reads(r, q) \/ \E jobs : Writes(r, q, jobs)
    BY <1>3, <1>q DEF ReadOriginal, Is, Shaped
  <2>3. Gives(q)
    BY <2>2
  <2> QED
    BY <2>1, <2>3
<1>4. CASE ReadQuestions(r)
  <2>1. surveyRows' = surveyRows
    BY <1>4 DEF ReadQuestions, tableVars
  <2>2. PICK q : /\ q # NoRequest => Shaped(q) /\ q.job = "copy"
                 /\ Reads(r, q) \/ \E jobs : Writes(r, q, jobs)
    BY <1>4, <1>q DEF ReadQuestions, Is, Shaped
  <2>3. Gives(q)
    BY <2>2
  <2> QED
    BY <2>1, <2>3
<1>5. CASE InsertQuestionCopy(r)
  <2>1. surveyRows' = surveyRows
    BY <1>5 DEF InsertQuestionCopy, tableVars
  <2>2. PICK q : /\ q # NoRequest => Shaped(q) /\ q.job = "copy"
                 /\ Reads(r, q) \/ \E jobs : Writes(r, q, jobs)
    BY <1>5, <1>q DEF InsertQuestionCopy, Is, Shaped
  <2>3. Gives(q)
    BY <2>2
  <2> QED
    BY <2>1, <2>3
<1>6. CASE NextPlace(r)
  <2>1. surveyRows' = surveyRows
    BY <1>6 DEF NextPlace, tableVars
  <2>2. PICK q : /\ q # NoRequest => Shaped(q) /\ q.job = "question"
                 /\ Reads(r, q) \/ \E jobs : Writes(r, q, jobs)
    BY <1>6, <1>q DEF NextPlace, Is, Shaped
  <2>3. Gives(q)
    BY <2>2
  <2> QED
    BY <2>1, <2>3
<1>7. CASE InsertQuestion(r)
  <2>1. surveyRows' = surveyRows
    BY <1>7 DEF InsertQuestion, tableVars
  <2>2. PICK q : /\ q # NoRequest => Shaped(q) /\ q.job = "question"
                 /\ Reads(r, q) \/ \E jobs : Writes(r, q, jobs)
    BY <1>7, <1>q DEF InsertQuestion, Is, Shaped
  <2>3. Gives(q)
    BY <2>2
  <2> QED
    BY <2>1, <2>3
<1>8. CASE BeginReorder(r)
  <2>1. surveyRows' = surveyRows
    BY <1>8 DEF BeginReorder, tableVars
  <2>2. PICK q : /\ q # NoRequest => Shaped(q) /\ q.job = "reorder"
                 /\ Reads(r, q) \/ \E jobs : Writes(r, q, jobs)
    BY <1>8, <1>q DEF BeginReorder, Is, Shaped
  <2>3. Gives(q)
    BY <2>2
  <2> QED
    BY <2>1, <2>3
<1>9. CASE PlaceQuestion(r)
  <2>1. surveyRows' = surveyRows
    BY <1>9 DEF PlaceQuestion, tableVars
  <2>2. PICK q : /\ q # NoRequest => Shaped(q) /\ q.job = "reorder"
                 /\ Reads(r, q) \/ \E jobs : Writes(r, q, jobs)
    BY <1>9, <1>q DEF PlaceQuestion, Is, Shaped
  <2>3. Gives(q)
    BY <2>2
  <2> QED
    BY <2>1, <2>3
<1>10. CASE RemoveQuestion(r)
  <2>1. surveyRows' = surveyRows
    BY <1>10 DEF RemoveQuestion, tableVars
  <2>2. PICK q : /\ q # NoRequest => Shaped(q) /\ q.job = "remove"
                 /\ Reads(r, q) \/ \E jobs : Writes(r, q, jobs)
    BY <1>10, <1>q DEF RemoveQuestion, Is, Shaped
  <2>3. Gives(q)
    BY <2>2
  <2> QED
    BY <2>1, <2>3
<1>11. CASE UpdateTitle(r)
  <2>1. surveyRows' = surveyRows
    BY <1>11 DEF UpdateTitle, tableVars
  <2>2. PICK q : /\ q # NoRequest => Shaped(q) /\ q.job = "update"
                 /\ Reads(r, q) \/ \E jobs : Writes(r, q, jobs)
    BY <1>11, <1>q DEF UpdateTitle, Is, Shaped
  <2>3. Gives(q)
    BY <2>2
  <2> QED
    BY <2>1, <2>3
<1>12. CASE ReadSurvey(r)
  <2>1. surveyRows' = surveyRows
    BY <1>12 DEF ReadSurvey, tableVars
  <2>2. PICK q : /\ q # NoRequest => Shaped(q) /\ q.job = "update"
                 /\ Reads(r, q) \/ \E jobs : Writes(r, q, jobs)
    BY <1>12, <1>q DEF ReadSurvey, Is, Shaped
  <2>3. Gives(q)
    BY <2>2
  <2> QED
    BY <2>1, <2>3
<1>13. CASE ReadVersion(r)
  <2>1. surveyRows' = surveyRows
    BY <1>13 DEF ReadVersion, tableVars
  <2>2. PICK q : /\ q # NoRequest => Shaped(q) /\ q.job = "update"
                 /\ Reads(r, q) \/ \E jobs : Writes(r, q, jobs)
    BY <1>13, <1>q DEF ReadVersion, Is, Shaped
  <2>3. Gives(q)
    BY <2>2
  <2> QED
    BY <2>1, <2>3
<1>14. CASE InsertVersion(r)
  <2>1. surveyRows' = surveyRows
    BY <1>14 DEF InsertVersion, tableVars
  <2>2. PICK q : /\ q # NoRequest => Shaped(q) /\ q.job = "update"
                 /\ Reads(r, q) \/ \E jobs : Writes(r, q, jobs)
    BY <1>14, <1>q DEF InsertVersion, Is, Shaped
  <2>3. Gives(q)
    BY <2>2
  <2> QED
    BY <2>1, <2>3
<1>15. CASE FailEnds(r)
  <2>1. surveyRows' = surveyRows /\ Reads(r, NoRequest)
    BY <1>15 DEF FailEnds, tableVars
  <2> QED
    BY <2>1, <1>h
<1>16. CASE FailSkips(r)
  <2> DEFINE p == Doubting(requests[r], "failed")
  <2>1. surveyRows' = surveyRows
    BY <1>16 DEF FailSkips, tableVars
  <2>2. requests[r] # NoRequest /\ Shaped(p) /\ p.doubts # {}
    BY <1>16, <1>q DEF FailSkips, Is, Shaped, Doubting
  <2>3. PICK q : /\ q # NoRequest => Shaped(q) /\ (q.doubts # {} \/ q.job # "create")
                 /\ Reads(r, q)
    BY <1>16, <1>q, <2>2 DEF FailSkips, Shaped, Is
  <2>4. Gives(q)
    BY <2>3
  <2> QED
    BY <2>1, <2>4
<1> QED
  BY <1>1, <1>2, <1>3, <1>4, <1>5, <1>6, <1>7, <1>8, <1>9, <1>10, <1>11, <1>12, <1>13,
     <1>14, <1>15, <1>16

LEMMA LimitStep == LimitInv /\ [StoreNext]_storeVars => LimitInv'
<1> SUFFICES ASSUME LimitInv, [StoreNext]_storeVars
             PROVE  LimitInv'
  OBVIOUS
<1>1. CASE UNCHANGED storeVars
  BY <1>1 DEF storeVars, tableVars, LimitInv, Counted, RequestsShaped, CountTrusted, Is
<1>2. ASSUME NEW r \in Requests, Handler(r)
      PROVE  LimitInv'
  BY <1>2, LimitInsertSurvey, LimitInsertCopy, LimitDropSurvey, LimitOthers DEF Handler
<1> QED
  BY <1>1, <1>2 DEF StoreNext

-----------------------------------------------------------------------------
(* Whose failure: what is doubted because a statement failed.              *)

\* Only Go goes on without a statement, and only when one has failed.
Named(doubts) == "failed" \in doubts => Unseen

FailuresNamed ==
    /\ failures \in Nat
    /\ Named(tied) /\ Named(outdated)
    /\ \A s \in DOMAIN surveyRows : Named(surveyRows[s])
    /\ \A r \in Requests : requests[r] # NoRequest => Named(requests[r].doubts)

\* A step of request r that leaves nothing out: what is doubted after it because of a
\* failure was doubted before, of the same request, of the same row, or of r.
Had(o) == requests[o] # NoRequest /\ "failed" \in requests[o].doubts

Inherits(r) ==
    /\ server' = server /\ failures' \in Nat /\ failures' >= failures
    /\ "failed" \in tied' => "failed" \in tied \/ Had(r)
    /\ "failed" \in outdated' => "failed" \in outdated \/ Had(r)
    /\ \A s \in DOMAIN surveyRows' : "failed" \in surveyRows'[s] =>
          (s \in DOMAIN surveyRows /\ "failed" \in surveyRows[s]) \/ Had(r)
    /\ \A o \in Requests :
          requests'[o] # NoRequest /\ "failed" \in requests'[o].doubts => Had(o)

LEMMA NamedInit == StoreInit => FailuresNamed
BY DEF StoreInit, FailuresNamed, Named

LEMMA NamedKept ==
  ASSUME FailuresNamed, NEW r \in Requests, Inherits(r)
  PROVE  FailuresNamed'
<1>1. Unseen => Unseen'
  BY DEF Unseen, Inherits, FailuresNamed
<1>2. \A o \in Requests : Had(o) => Unseen
  BY DEF Had, FailuresNamed, Named
<1>3. /\ Named(tied)' /\ Named(outdated)'
      /\ \A s \in DOMAIN surveyRows' : Named(surveyRows[s])'
  BY <1>1, <1>2 DEF FailuresNamed, Named, Inherits
<1>4. \A o \in Requests : requests'[o] # NoRequest => Named(requests[o].doubts)'
  BY <1>1, <1>2 DEF Named, Inherits
<1> QED
  BY <1>3, <1>4 DEF FailuresNamed, Inherits

\* Go's request that goes on without a statement: from now on one has failed.
LEMMA NamedSkips ==
  ASSUME FailuresNamed, NEW r \in Requests, FailSkips(r)
  PROVE  FailuresNamed'
<1>1. server' = "go" /\ failures' \in Nat /\ failures' > 0
  BY DEF FailSkips, Failing, FailuresNamed
<1>2. Unseen'
  BY <1>1 DEF Unseen
<1> QED
  BY <1>1, <1>2 DEF FailuresNamed, Named

\* A step that reads, whose request has the doubts it had.
LEMMA DoubtsHanded ==
  ASSUME RequestsShaped, FailuresNamed, NEW r \in Requests,
         UNCHANGED <<server, failures, tied, outdated, surveyRows>>,
         NEW q, Reads(r, q),
         q # NoRequest => \/ q.doubts = {}
                          \/ requests[r] # NoRequest /\ q.doubts = requests[r].doubts
  PROVE  Inherits(r)
<1>1. \A o \in Requests : o # r => requests'[o] = requests[o]
  BY DEF Reads, RequestsShaped
<1>2. requests'[r] = q
  BY DEF Reads, RequestsShaped
<1>3. \A o \in Requests :
         requests'[o] # NoRequest /\ "failed" \in requests'[o].doubts => Had(o)
  BY <1>1, <1>2 DEF Had
<1> QED
  BY <1>3 DEF Inherits, FailuresNamed

\* Every other step leaves nothing out.
LEMMA Inheriting ==
  ASSUME RequestsShaped, FailuresNamed, NEW r \in Requests, Handler(r), ~FailSkips(r)
  PROVE  Inherits(r)
<1>f. failures \in Nat
  BY DEF FailuresNamed
<1>q. \A o \in Requests : requests[o] # NoRequest => Shaped(requests[o])
  BY DEF RequestsShaped
<1>1. ASSUME NEW job \in Jobs, Ask(r, job)
      PROVE  Inherits(r)
  <2>1. PICK q : Reads(r, q) /\ (q # NoRequest => q.doubts = {})
    BY <1>1 DEF Ask
  <2>2. UNCHANGED <<server, failures, tied, outdated, surveyRows>>
    BY <1>1 DEF Ask, tableVars
  <2> QED
    BY <2>1, <2>2, DoubtsHanded
<1>6. CASE ReadQuestions(r)
  <2>1. requests[r] # NoRequest
    BY <1>6 DEF ReadQuestions, Is
  <2>0. PICK q, k : Reads(r, q) /\ (q = NoRequest \/ q = [requests[r] EXCEPT !.at = "placing", !.list = k])
    BY <1>6 DEF ReadQuestions
  <2>2. q # NoRequest => q.doubts = requests[r].doubts
    BY <1>q, <2>0, <2>1 DEF Shaped
  <2>3. UNCHANGED <<server, failures, tied, outdated, surveyRows>>
    BY <1>6 DEF ReadQuestions, tableVars
  <2> QED
    BY <2>0, <2>1, <2>2, <2>3, DoubtsHanded
<1>7. CASE InsertQuestionCopy(r)
  <2>1. requests[r] # NoRequest
    BY <1>7 DEF InsertQuestionCopy, Is
  <2>2. PICK q : Reads(r, q) /\ (q # NoRequest => q.doubts = requests[r].doubts)
    BY <1>7, <1>q, <2>1 DEF InsertQuestionCopy, Shaped
  <2>3. UNCHANGED <<server, failures, tied, outdated, surveyRows>>
    BY <1>7 DEF InsertQuestionCopy, tableVars
  <2> QED
    BY <2>1, <2>2, <2>3, DoubtsHanded
<1>8. CASE NextPlace(r)
  <2>1. requests[r] # NoRequest
    BY <1>8 DEF NextPlace, Is
  <2>0. PICK q, k : Reads(r, q) /\ (q = NoRequest \/ q = [requests[r] EXCEPT !.at = "checked", !.n = k])
    BY <1>8 DEF NextPlace
  <2>2. q # NoRequest => q.doubts = requests[r].doubts
    BY <1>q, <2>0, <2>1 DEF Shaped
  <2>3. UNCHANGED <<server, failures, tied, outdated, surveyRows>>
    BY <1>8 DEF NextPlace, tableVars
  <2> QED
    BY <2>0, <2>1, <2>2, <2>3, DoubtsHanded
<1> USE DEF Is, Inherits, Had, Reads, Writes, Doubting, Shaped, RequestsShaped, tableVars
<1>2. CASE CheckLimit(r)
  BY <1>2, <1>f, <1>q DEF CheckLimit
<1>3. CASE InsertSurvey(r)
  BY <1>3, <1>f, <1>q DEF InsertSurvey, With
<1>4. CASE ReadOriginal(r)
  BY <1>4, <1>f, <1>q DEF ReadOriginal
<1>5. CASE InsertCopy(r)
  BY <1>5, <1>f, <1>q DEF InsertCopy, With
<1>9. CASE InsertQuestion(r)
  BY <1>9, <1>f, <1>q DEF InsertQuestion
<1>10. CASE BeginReorder(r)
  BY <1>10, <1>f, <1>q DEF BeginReorder
<1>11. CASE PlaceQuestion(r)
  BY <1>11, <1>f, <1>q DEF PlaceQuestion
<1>12. CASE RemoveQuestion(r)
  BY <1>12, <1>f, <1>q DEF RemoveQuestion
<1>13. CASE DropSurvey(r)
  BY <1>13, <1>f, <1>q DEF DropSurvey, Less
<1>14. CASE UpdateTitle(r)
  BY <1>14, <1>f, <1>q DEF UpdateTitle
<1>15. CASE ReadSurvey(r)
  BY <1>15, <1>f, <1>q DEF ReadSurvey
<1>16. CASE ReadVersion(r)
  BY <1>16, <1>f, <1>q DEF ReadVersion
<1>17. CASE InsertVersion(r)
  BY <1>17, <1>f, <1>q DEF InsertVersion
<1>18. CASE FailEnds(r)
  BY <1>18, <1>f, <1>q DEF FailEnds, Failing
<1> QED
  BY <1>1, <1>2, <1>3, <1>4, <1>5, <1>6, <1>7, <1>8, <1>9, <1>10, <1>11, <1>12, <1>13,
     <1>14, <1>15, <1>16, <1>17, <1>18 DEF Handler

LEMMA NamedStep == RequestsShaped /\ FailuresNamed /\ [StoreNext]_storeVars => FailuresNamed'
<1> SUFFICES ASSUME RequestsShaped, FailuresNamed, [StoreNext]_storeVars
             PROVE  FailuresNamed'
  OBVIOUS
<1>1. CASE UNCHANGED storeVars
  BY <1>1 DEF storeVars, tableVars, FailuresNamed, Named, Unseen
<1>2. ASSUME NEW r \in Requests, Handler(r)
      PROVE  FailuresNamed'
  BY <1>2, NamedSkips, Inheriting, NamedKept
<1> QED
  BY <1>1, <1>2 DEF StoreNext

-----------------------------------------------------------------------------

\* The limit of the plan is passed only by copies, by surveys of which another was
\* inserted after the count, and, in Go once a statement has failed, by those whose
\* COUNT was taken for 0: what the handlers of survey.go and surveys.py do of
\* "Enforce plan limit".
THEOREM LimitKept == StoreSpec => []LimitHolds
<1>1. LimitInv /\ FailuresNamed => LimitHolds
  BY LimitFollows DEF LimitHolds, FailuresNamed, Named
<1>2. LimitInv => RequestsShaped
  BY DEF LimitInv
<1> QED
  BY <1>1, <1>2, LimitInit, LimitStep, NamedInit, NamedStep, PTL DEF StoreSpec
-----------------------------------------------------------------------------

\* A bounded set of numbers that is not empty has a greatest one.
LEMMA GreatestNatural ==
  ASSUME NEW S, S \subseteq Nat, S # {}, NEW b \in Nat, \A x \in S : x <= b
  PROVE  \E m \in S : \A x \in S : x <= m
<1> DEFINE R == OpToRel(<, Nat)
           Bounds == {m \in Nat : \A x \in S : x <= m}
<1>1. IsWellFoundedOn(R, Nat)
  BY NatLessThanWellFounded
<1>2. Bounds \subseteq Nat /\ Bounds # {}
  BY <1>1
<1>3. PICK m \in Bounds : \A y \in Bounds : ~(<<y, m>> \in R)
  <2> HIDE DEF R, Bounds
  <2> QED
    BY <1>1, <1>2, WFMin
<1>4. \A y \in Bounds : ~(y < m)
  BY <1>2, <1>3 DEF OpToRel
<1>5. m \in S
  <2> SUFFICES ASSUME m \notin S PROVE FALSE
    OBVIOUS
  <2>1. PICK x \in S : TRUE
    OBVIOUS
  <2>2. m \in Nat /\ m # 0
    BY <2>1
  <2>3. m - 1 \in Bounds
    BY <2>2
  <2> QED
    BY <1>4, <2>2, <2>3
<1> QED
  BY <1>5

-----------------------------------------------------------------------------
(* The rows of the questions and of the versions.                          *)

\* The tables, and a bound on the places, so that there is a greatest one.
TablesTyped ==
    /\ ids \in Nat \ {0} /\ asked \in Nat /\ title \in Nat /\ versions \in Seq(Nat)
    /\ DOMAIN questionRows \subseteq Nat /\ IsFiniteSet(DOMAIN questionRows)
    /\ \A q \in DOMAIN questionRows : questionRows[q] \in [survey : Nat, place : Nat]
    /\ \E b \in Nat : \A q \in DOMAIN questionRows : questionRows[q].place <= b

RequestsTyped == requests \in [Requests -> Request \cup {NoRequest}]

Members(list) == {list[i] : i \in DOMAIN list}

\* The version an undisturbed update is about to insert is the survey, and the next.
VersionDue(q) ==
    q.job = "update" /\ q.at \in {"read", "checked"} /\ q.doubts = {} =>
        /\ Exists => q.id = title
        /\ q.at = "checked" => q.n = Len(versions) + 1

\* The place an undisturbed request has read is behind every question.
PlaceDue(q) ==
    q.job = "question" /\ q.at = "checked" /\ q.doubts = {} =>
        \A p \in QuestionsOf(1) : questionRows[p].place < q.n

\* An undisturbed reorder has placed what it no longer lists, each before the next.
OrderDue(q) ==
    q.job = "reorder" /\ q.doubts = {} =>
        /\ IsInjective(q.list)
        /\ q.at = "begin" => QuestionsOf(1) \subseteq Members(q.list)
        /\ q.at = "placing" =>
              /\ \A p \in QuestionsOf(1) \ Members(q.list) : questionRows[p].place < q.n
              /\ \A p, o \in QuestionsOf(1) \ Members(q.list) :
                    p # o => questionRows[p].place # questionRows[o].place

\* Who places has something to place, and a copy is another survey.
WellFormed(q) ==
    /\ q.at = "placing" => q.list # <<>> /\ q.job \in {"copy", "reorder"}
    /\ q.job = "copy" /\ q.at \in {"read", "placing"} => q.id # 1

Trusted(q) == VersionDue(q) /\ PlaceDue(q) /\ OrderDue(q) /\ WellFormed(q)

TablesAgree == PlacesDiffer /\ VersionIsCurrent

RowsInv ==
    /\ TablesTyped /\ RequestsTyped
    /\ \A r \in Requests : requests[r] # NoRequest => Trusted(requests[r])
    /\ TablesAgree

-----------------------------------------------------------------------------

New(r, q) == Reads(r, q) \/ \E jobs : Writes(r, q, jobs)

\* A doubt changes nothing else of a request.
LEMMA DoubtingIs ==
  ASSUME NEW q \in Request, NEW cause \in {"raced", "failed"}
  PROVE  /\ Doubting(q, cause) \in Request /\ cause \in Doubting(q, cause).doubts
         /\ Doubting(q, cause).job = q.job /\ Doubting(q, cause).at = q.at
         /\ Doubting(q, cause).list = q.list /\ Doubting(q, cause).id = q.id
         /\ Doubting(q, cause).n = q.n
<1>1. PICK d \in SUBSET {"raced", "failed"} : d = q.doubts \cup {cause}
  BY DEF Request
<1>2. Doubting(q, cause) = [q EXCEPT !.doubts = d]
  BY <1>1 DEF Doubting
<1>3. cause \in d
  BY <1>1
<1> QED
  BY <1>2, <1>3 DEF Request

\* What a step leaves of the other requests.
LEMMA OthersOf ==
  ASSUME RequestsTyped, NEW r \in Requests, NEW q \in Request \cup {NoRequest}, New(r, q)
  PROVE  /\ RequestsTyped' /\ requests'[r] = q
         /\ \A o \in Requests \ {r} :
               \/ requests'[o] = requests[o]
               \/ /\ requests[o] # NoRequest /\ requests[o] \in Request
                  /\ requests'[o] = Doubting(requests[o], "raced")
<1>1. \A o \in Requests : requests[o] # NoRequest => requests[o] \in Request
  BY DEF RequestsTyped
<1>2. \A p \in Request : Doubting(p, "raced") \in Request
  BY DoubtingIs
<1>3. CASE Reads(r, q)
  BY <1>3 DEF Reads, RequestsTyped
<1>4. ASSUME NEW jobs, Writes(r, q, jobs)
      PROVE  /\ RequestsTyped' /\ requests'[r] = q
             /\ \A o \in Requests \ {r} :
                   \/ requests'[o] = requests[o]
                   \/ /\ requests[o] # NoRequest /\ requests[o] \in Request
                      /\ requests'[o] = Doubting(requests[o], "raced")
  <2>1. requests' = [o \in Requests |->
            IF o = r THEN q
            ELSE IF requests[o] # NoRequest /\ requests[o].job \in jobs
            THEN Doubting(requests[o], "raced") ELSE requests[o]]
    BY <1>4 DEF Writes
  <2>2. requests'[r] = q /\ \A o \in Requests \ {r} :
                   \/ requests'[o] = requests[o]
                   \/ /\ requests[o] # NoRequest /\ requests[o] \in Request
                      /\ requests'[o] = Doubting(requests[o], "raced")
    BY <1>1, <2>1
  <2>3. \A o \in Requests : requests'[o] \in Request \cup {NoRequest}
    <3> TAKE o \in Requests
    <3>1. CASE o = r
      BY <2>2, <3>1
    <3>2. CASE o # r /\ requests'[o] = requests[o]
      BY <3>2 DEF RequestsTyped
    <3>3. CASE o # r /\ requests[o] \in Request
               /\ requests'[o] = Doubting(requests[o], "raced")
      BY <1>2, <3>3
    <3> QED
      BY <2>2, <3>1, <3>2, <3>3
  <2>4. RequestsTyped'
    BY <2>1, <2>3 DEF RequestsTyped
  <2> QED
    BY <2>2, <2>4
<1> QED
  BY <1>3, <1>4 DEF New

\* A disturbed request is trusted whatever the tables are.
LEMMA DisturbedTrusted ==
  ASSUME NEW q \in Request, Trusted(q)
  PROVE  Trusted(Doubting(q, "raced")) /\ Trusted(Doubting(q, "raced"))'
<1> PICK p : p = Doubting(q, "raced")
  OBVIOUS
<1>1. p.doubts # {} /\ p.at = q.at /\ p.job = q.job /\ p.list = q.list /\ p.id = q.id
  BY DoubtingIs
<1>2. WellFormed(p) /\ WellFormed(p)'
  BY <1>1 DEF Trusted, WellFormed
<1>3. Trusted(p) /\ Trusted(p)'
  BY <1>1, <1>2 DEF Trusted, VersionDue, PlaceDue, OrderDue
<1> QED
  BY <1>3

\* With the rows as they were, or some of them gone, what was trusted still is.
RowsRemain ==
    /\ title' = title /\ versions' = versions
    /\ Exists' => Exists
    /\ QuestionsOf(1)' \subseteq QuestionsOf(1)
    /\ \A p \in QuestionsOf(1)' : questionRows'[p].place = questionRows[p].place

\* Rows that remain leave what was due as it was.
LEMMA RemainTrusted ==
  ASSUME RowsRemain, NEW q, Trusted(q)
  PROVE  Trusted(q)'
<1>1. VersionDue(q)'
  BY DEF RowsRemain, Trusted, VersionDue
<1>2. PlaceDue(q)'
  BY DEF RowsRemain, Trusted, PlaceDue
<1>3. OrderDue(q)'
  BY DEF RowsRemain, Trusted, OrderDue
<1> QED
  BY <1>1, <1>2, <1>3 DEF Trusted, WellFormed

\* A step that takes no place and no title, and gives its request what is due.
LEMMA RemainKeeps ==
  ASSUME RowsInv, RowsRemain, TablesTyped', tied # {} => tied' # {}, outdated' = outdated,
         NEW r \in Requests, NEW q \in Request \cup {NoRequest}, New(r, q),
         q # NoRequest => Trusted(q)
  PROVE  RowsInv'
<1>1. /\ RequestsTyped' /\ requests'[r] = q
      /\ \A o \in Requests \ {r} :
            \/ requests'[o] = requests[o]
            \/ /\ requests[o] # NoRequest /\ requests[o] \in Request
               /\ requests'[o] = Doubting(requests[o], "raced")
  BY OthersOf DEF RowsInv
<1>2. ASSUME NEW o \in Requests, requests'[o] # NoRequest
      PROVE  Trusted(requests[o])'
  <2>1. PICK p : p = requests'[o]
    OBVIOUS
  <2>2. Trusted(p)
    <3>1. CASE o = r
      BY <1>1, <1>2, <2>1, <3>1
    <3>2. CASE o # r /\ requests'[o] = requests[o]
      BY <1>2, <2>1, <3>2 DEF RowsInv
    <3>3. CASE /\ o # r /\ requests[o] # NoRequest /\ requests[o] \in Request
               /\ requests'[o] = Doubting(requests[o], "raced")
      <4>1. PICK x : x = requests[o]
        OBVIOUS
      <4>2. Trusted(x) /\ x \in Request
        BY <3>3, <4>1 DEF RowsInv
      <4>3. Trusted(Doubting(x, "raced"))
        BY <4>2, DisturbedTrusted
      <4> QED
        BY <2>1, <3>3, <4>1, <4>3
    <3> QED
      BY <1>1, <3>1, <3>2, <3>3
  <2>3. Trusted(p)'
    BY <2>2, RemainTrusted
  <2> QED
    BY <2>1, <2>3
<1>3. PlacesDiffer'
  BY DEF RowsInv, TablesAgree, PlacesDiffer, RowsRemain
<1>4. VersionIsCurrent'
  BY DEF RowsInv, TablesAgree, VersionIsCurrent, RowsRemain
<1> QED
  BY <1>1, <1>2, <1>3, <1>4 DEF RowsInv, TablesAgree

\* The same where no question is touched either.
LEMMA QuestionsKept ==
  ASSUME RowsInv, questionRows' = questionRows, title' = title, versions' = versions,
         Exists' => Exists, ids' \in Nat \ {0}, asked' \in Nat,
         tied # {} => tied' # {}, outdated' = outdated,
         NEW r \in Requests, NEW q \in Request \cup {NoRequest}, New(r, q),
         q # NoRequest => Trusted(q)
  PROVE  RowsInv'
<1>1. RowsRemain
  BY DEF RowsRemain, QuestionsOf
<1>2. TablesTyped'
  BY DEF RowsInv, TablesTyped
<1> QED
  BY <1>1, <1>2, RemainKeeps

\* A request under way is one, and what it has is trusted.
LEMMA RequestOf ==
  ASSUME RowsInv, NEW r \in Requests, requests[r] # NoRequest
  PROVE  requests[r] \in Request /\ Trusted(requests[r])
BY DEF RowsInv, RequestsTyped

\* A request that is not disturbed stays trusted when it asks for nothing it has not.
LEMMA Untrusting ==
  ASSUME NEW q, WellFormed(q),
         \/ q.doubts # {}
         \/ q.job \notin {"update", "question", "reorder"}
         \/ q.job = "update" /\ q.at \notin {"read", "checked"}
  PROVE  Trusted(q)
BY DEF Trusted, VersionDue, PlaceDue, OrderDue

\* Members of a list of as many as there are are all there are.
LEMMA AllListed ==
  ASSUME NEW S, IsFiniteSet(S), NEW f \in [1..Cardinality(S) -> S], IsInjective(f)
  PROVE  S \subseteq Members(f)
<1> DEFINE n == Cardinality(S)
<1>1. n \in Nat
  BY FS_CardinalityType
<1>2. IsFiniteSet(1..n) /\ Cardinality(1..n) = n
  <2>1. Cardinality(1..n) = IF 1 > n THEN 0 ELSE n - 1 + 1
    BY <1>1, FS_Interval
  <2> QED
    BY <1>1, <2>1, FS_Interval
<1>3. f \in Injection(1..n, S)
  BY DEF Injection
<1>4. f \in Surjection(1..n, S)
  <2> HIDE DEF n
  <2> QED
    BY <1>2, <1>3, FS_Injection DEF n
<1> QED
  BY <1>4 DEF Surjection, Members

\* A reorder that begins lists all the questions there are.
LEMMA AskRows ==
  ASSUME RowsInv, NEW r \in Requests, NEW job \in Jobs, Ask(r, job)
  PROVE  RowsInv'
<1> DEFINE Q == QuestionsOf(1)
<1>1. TablesTyped /\ IsFiniteSet(Q) /\ Q \subseteq Nat
  BY FS_Subset DEF RowsInv, TablesTyped, QuestionsOf
<1>2. Cardinality(Q) \in Nat
  BY <1>1, FS_CardinalityType
<1>3. PICK list \in IF job = "reorder"
                       THEN {f \in [1..Cardinality(Q) -> Q] : IsInjective(f)} ELSE {<<>>} :
        Reads(r, [job |-> job, at |-> "begin", list |-> list, n |-> 0, doubts |-> {},
                  id |-> IF job = "update" THEN asked' ELSE 0])
  BY DEF Ask
<1>4. asked' = asked + 1 /\ UNCHANGED <<server, tableVars, ids, failures, tied, outdated>>
  BY DEF Ask
<1>5. asked' \in Nat
  BY <1>1, <1>4 DEF TablesTyped
<1>6. PICK i \in Nat : i = IF job = "update" THEN asked' ELSE 0
  BY <1>5
<1>7. PICK q : q = [job |-> job, at |-> "begin", list |-> list, n |-> 0, doubts |-> {}, id |-> i]
  OBVIOUS
<1>8. list \in Seq(Nat)
  <2> HIDE DEF Q
  <2>1. CASE job = "reorder"
    <3>1. PICK c \in Nat : c = Cardinality(Q)
      BY <1>2
    <3>2. list \in [1..c -> Nat]
      BY <1>1, <1>3, <2>1, <3>1
    <3>3. Seq(Nat) = UNION {[1..k -> Nat] : k \in Nat}
      BY SeqDef
    <3> QED
      BY <3>2, <3>3
  <2>2. CASE job # "reorder"
    BY <1>3, <2>2
  <2> QED
    BY <2>1, <2>2
<1>9. q \in Request
  BY <1>7, <1>8 DEF Request
<1>10. job = "reorder" => IsInjective(list) /\ Q \subseteq Members(list)
  <2> SUFFICES ASSUME job = "reorder" PROVE IsInjective(list) /\ Q \subseteq Members(list)
    OBVIOUS
  <2>1. list \in [1..Cardinality(Q) -> Q] /\ IsInjective(list)
    BY <1>3
  <2> HIDE DEF Q
  <2> QED
    BY <1>1, <2>1, AllListed
<1>11. Trusted(q)
  BY <1>7, <1>10 DEF Trusted, VersionDue, PlaceDue, OrderDue, WellFormed
<1>12. New(r, q)
  BY <1>3, <1>6, <1>7 DEF New
<1> QED
  BY <1>1, <1>4, <1>5, <1>9, <1>11, <1>12, QuestionsKept DEF tableVars, TablesTyped, Exists

\* The steps of the surveys and of their copies, which leave the questions of survey 1.
LEMMA SurveyRows ==
  ASSUME RowsInv, NEW r \in Requests,
         CheckLimit(r) \/ InsertSurvey(r) \/ ReadOriginal(r) \/ InsertCopy(r)
            \/ DropSurvey(r) \/ FailEnds(r)
  PROVE  RowsInv'
<1>1. TablesTyped
  BY DEF RowsInv
<1>2. /\ questionRows' = questionRows /\ title' = title /\ versions' = versions
      /\ asked' \in Nat /\ tied' = tied /\ outdated' = outdated
  BY <1>1 DEF CheckLimit, InsertSurvey, ReadOriginal, InsertCopy, DropSurvey, FailEnds,
              tableVars, TablesTyped
<1>3. ids' \in Nat \ {0}
  BY <1>1 DEF CheckLimit, InsertSurvey, ReadOriginal, InsertCopy, DropSurvey, FailEnds,
              TablesTyped
<1>4. Exists' => Exists
  <2>1. CASE InsertSurvey(r) \/ InsertCopy(r)
    <3>1. ids' # 1
      BY <1>1, <2>1 DEF InsertSurvey, InsertCopy, TablesTyped
    <3> QED
      BY <2>1, <3>1 DEF InsertSurvey, InsertCopy, With, Exists
  <2>2. CASE DropSurvey(r)
    BY <2>2 DEF DropSurvey, Less, Exists
  <2>3. CASE CheckLimit(r) \/ ReadOriginal(r) \/ FailEnds(r)
    BY <2>3 DEF CheckLimit, ReadOriginal, FailEnds, tableVars, Exists
  <2> QED
    BY <2>1, <2>2, <2>3
<1>5. PICK q \in Request \cup {NoRequest} : New(r, q) /\ (q # NoRequest => Trusted(q))
  <2>1. CASE CheckLimit(r) \/ ReadOriginal(r)
    <3>1. PICK q : q = [requests[r] EXCEPT !.at = "checked"]
      OBVIOUS
    <3>2. requests[r] \in Request /\ requests[r].job \in {"create", "copy"}
      BY <2>1, RequestOf DEF CheckLimit, ReadOriginal, Is
    <3>3. q \in Request /\ q.job = requests[r].job /\ q.at = "checked"
      BY <3>1, <3>2 DEF Request
    <3>4. Trusted(q)
      BY <3>2, <3>3, Untrusting DEF WellFormed
    <3>5. New(r, q) \/ New(r, NoRequest)
      BY <2>1, <3>1 DEF CheckLimit, ReadOriginal, New
    <3> QED
      BY <3>3, <3>4, <3>5
  <2>2. CASE InsertCopy(r)
    <3>1. PICK q : q = [requests[r] EXCEPT !.at = "read", !.id = ids']
      OBVIOUS
    <3>2. requests[r] \in Request /\ requests[r].job = "copy"
      BY <2>2, RequestOf DEF InsertCopy, Is
    <3>3. q \in Request /\ q.job = "copy" /\ q.at = "read" /\ q.id = ids'
      BY <1>3, <3>1, <3>2 DEF Request
    <3>4. ids' # 1
      BY <1>1, <2>2 DEF InsertCopy, TablesTyped
    <3>5. Trusted(q)
      BY <3>3, <3>4, Untrusting DEF WellFormed
    <3>6. New(r, q)
      BY <2>2, <3>1 DEF InsertCopy, New
    <3> QED
      BY <3>3, <3>5, <3>6
  <2>3. CASE InsertSurvey(r) \/ DropSurvey(r) \/ FailEnds(r)
    BY <2>3 DEF InsertSurvey, DropSurvey, FailEnds, New
  <2> QED
    BY <2>1, <2>2, <2>3
<1> QED
  BY <1>2, <1>3, <1>4, <1>5, QuestionsKept

\* What is left of a list when its first member is taken.
LEMMA TailOf ==
  ASSUME NEW l \in Seq(Nat), l # <<>>
  PROVE  /\ Tail(l) \in Seq(Nat) /\ Len(Tail(l)) = Len(l) - 1
         /\ Len(l) # 1 => Tail(l) # <<>>
         /\ Head(l) = l[1] /\ Head(l) \in Nat /\ 1 \in DOMAIN l
         /\ \A i \in DOMAIN Tail(l) : i + 1 \in DOMAIN l /\ Tail(l)[i] = l[i + 1]
         /\ \A i \in DOMAIN l : i # 1 => i - 1 \in DOMAIN Tail(l)
<1>1. Len(l) \in Nat /\ Len(l) # 0
  BY EmptySeq
<1>2. Tail(l) \in Seq(Nat) /\ Len(Tail(l)) = Len(l) - 1
  BY <1>1
<1>3. Len(l) # 1 => Tail(l) # <<>>
  <2>1. Len(<<>>) = 0
    BY EmptySeq
  <2>2. Tail(l) = <<>> => Len(Tail(l)) = 0
    BY <2>1
  <2> QED
    BY <1>1, <1>2, <2>2
<1>4. Head(l) = l[1] /\ Head(l) \in Nat /\ 1 \in DOMAIN l
  BY <1>1
<1>5. \A i \in DOMAIN Tail(l) : i + 1 \in DOMAIN l /\ Tail(l)[i] = l[i + 1]
  BY <1>1, <1>2
<1>6. \A i \in DOMAIN l : i # 1 => i - 1 \in DOMAIN Tail(l)
  BY <1>1, <1>2
<1> QED
  BY <1>2, <1>3, <1>4, <1>5, <1>6

\* A copy reads the places and writes them for its own survey.
LEMMA CopyRows ==
  ASSUME RowsInv, NEW r \in Requests, ReadQuestions(r) \/ InsertQuestionCopy(r)
  PROVE  RowsInv'
<1> DEFINE Q == QuestionsOf(1)
           old == requests[r]
<1>1. TablesTyped /\ IsFiniteSet(Q) /\ Q \subseteq DOMAIN questionRows
  BY FS_Subset DEF RowsInv, TablesTyped, QuestionsOf
<1>2. old \in Request /\ old.job = "copy" /\ Trusted(old)
  BY RequestOf DEF ReadQuestions, InsertQuestionCopy, Is
<1>3. CASE ReadQuestions(r)
  <2> DEFINE places == [q \in Q |-> questionRows[q].place]
  <2>1. PICK c \in Nat : c = Cardinality(Q)
    BY <1>1, FS_CardinalityType
  <2>2. PICK list \in [1..c -> Q] :
          Reads(r, IF list = <<>> THEN NoRequest
                   ELSE [old EXCEPT !.at = "placing",
                            !.list = [i \in DOMAIN list |-> places[list[i]]]])
    BY <1>3, <2>1 DEF ReadQuestions
  <2>3. PICK l : l = [i \in 1..c |-> places[list[i]]]
    OBVIOUS
  <2>4. l \in [1..c -> Nat]
    BY <1>1, <2>3 DEF TablesTyped
  <2>5. l \in Seq(Nat)
    BY <2>4, SeqDef
  <2>6. list # <<>> => l # <<>>
    <3>1. l = <<>> => c = 0
      BY <2>4
    <3>2. c = 0 => list = <<>>
      BY <2>2
    <3> QED
      BY <3>1, <3>2
  <2>7. PICK q : q = [old EXCEPT !.at = "placing", !.list = l]
    OBVIOUS
  <2>8. q \in Request /\ q.job = "copy" /\ q.at = "placing" /\ q.list = l /\ q.id = old.id
    BY <1>2, <2>5, <2>7 DEF Request
  <2>9. old.id # 1
    BY <1>2, <1>3 DEF Trusted, WellFormed, ReadQuestions, Is
  <2>10. list # <<>> => Trusted(q)
    BY <2>6, <2>8, <2>9, Untrusting DEF WellFormed
  <2>11. \/ list = <<>> /\ New(r, NoRequest)
         \/ list # <<>> /\ New(r, q)
    BY <2>2, <2>3, <2>7 DEF New
  <2>12. UNCHANGED <<server, tableVars, ids, asked, failures, tied, outdated>>
    BY <1>3 DEF ReadQuestions
  <2> QED
    BY <1>1, <2>8, <2>10, <2>11, <2>12, QuestionsKept DEF tableVars, TablesTyped, Exists
<1>4. CASE InsertQuestionCopy(r)
  <2>1. old.at = "placing" /\ old.list \in Seq(Nat) /\ old.list # <<>> /\ old.id \in Nat \ {1}
    BY <1>2, <1>4 DEF Trusted, WellFormed, InsertQuestionCopy, Is, Request
  <2>2. PICK new : new = [survey |-> old.id, place |-> Head(old.list)]
    OBVIOUS
  <2>3. new.survey # 1 /\ new.place \in Nat /\ new \in [survey : Nat, place : Nat]
    BY <2>1, <2>2
  <2>4. questionRows' = [i \in DOMAIN questionRows \cup {ids'} |->
                            IF i = ids' THEN new ELSE questionRows[i]]
        /\ ids' = ids + 1
    BY <1>4, <2>2 DEF InsertQuestionCopy, With
  <2>5. UNCHANGED <<server, surveyRows, title, versions, asked, failures, tied, outdated>>
    BY <1>4 DEF InsertQuestionCopy
  <2>6. RowsRemain
    BY <2>3, <2>4, <2>5 DEF RowsRemain, QuestionsOf, Exists
  <2>7. TablesTyped'
    <3>1. IsFiniteSet(DOMAIN questionRows \cup {ids'})
      BY <1>1, FS_AddElement DEF TablesTyped
    <3>2. PICK b \in Nat : \A q \in DOMAIN questionRows : questionRows[q].place <= b
      BY <1>1 DEF TablesTyped
    <3>3. PICK d \in Nat : d >= b /\ d >= new.place
      BY <2>3
    <3>4. \A q \in DOMAIN questionRows' : questionRows'[q].place <= d
      BY <1>1, <2>3, <2>4, <3>2, <3>3 DEF TablesTyped
    <3>5. ids' \in Nat \ {0} /\ asked' \in Nat /\ title' \in Nat /\ versions' \in Seq(Nat)
      BY <1>1, <2>4, <2>5 DEF TablesTyped
    <3>6. DOMAIN questionRows' = DOMAIN questionRows \cup {ids'}
          /\ DOMAIN questionRows' \subseteq Nat
      BY <1>1, <2>4, <3>5 DEF TablesTyped
    <3>7. \A q \in DOMAIN questionRows' : questionRows'[q] \in [survey : Nat, place : Nat]
      BY <1>1, <2>3, <2>4 DEF TablesTyped
    <3> QED
      BY <3>1, <3>4, <3>5, <3>6, <3>7 DEF TablesTyped
  <2>8. PICK q : q = [old EXCEPT !.list = Tail(@)]
    OBVIOUS
  <2>9. Len(old.list) # 1 => Tail(old.list) \in Seq(Nat) /\ Tail(old.list) # <<>>
    BY <2>1, TailOf
  <2>10. Len(old.list) # 1 => /\ q \in Request /\ q.job = "copy" /\ q.id = old.id
                              /\ q.list = Tail(old.list) /\ q.at = "placing"
    BY <1>2, <2>1, <2>8, <2>9 DEF Request
  <2>11. Len(old.list) # 1 => Trusted(q)
    BY <2>1, <2>9, <2>10, Untrusting DEF WellFormed
  <2>12. \/ Len(old.list) = 1 /\ New(r, NoRequest)
         \/ Len(old.list) # 1 /\ New(r, q)
    BY <1>4, <2>8 DEF InsertQuestionCopy, New
  <2> QED
    BY <2>5, <2>6, <2>7, <2>10, <2>11, <2>12, RemainKeeps
<1> QED
  BY <1>3, <1>4

\* The place that is read is behind all there are.
LEMMA PlaceRows ==
  ASSUME RowsInv, NEW r \in Requests, NextPlace(r)
  PROVE  RowsInv'
<1> DEFINE places == {questionRows[p].place : p \in QuestionsOf(1)}
           next == IF places = {} THEN 0
                   ELSE 1 + CHOOSE p \in places : \A o \in places : o <= p
           old == requests[r]
<1>1. TablesTyped
  BY DEF RowsInv
<1>2. old \in Request /\ old.job = "question"
  BY RequestOf DEF NextPlace, Is
<1>3. places \subseteq Nat
  BY <1>1 DEF TablesTyped, QuestionsOf
<1>4. next \in Nat /\ \A p \in places : p < next
  <2>1. CASE places = {}
    BY <2>1
  <2>2. CASE places # {}
    <3>1. PICK b \in Nat : \A p \in places : p <= b
      BY <1>1 DEF TablesTyped, QuestionsOf
    <3>2. \E m \in places : \A o \in places : o <= m
      <4> HIDE DEF places
      <4> QED
        BY <1>3, <2>2, <3>1, GreatestNatural
    <3>3. PICK m : m = CHOOSE p \in places : \A o \in places : o <= p
      OBVIOUS
    <3>4. m \in places /\ \A o \in places : o <= m
      BY <3>2, <3>3
    <3>5. next = 1 + m
      BY <2>2, <3>3
    <3> HIDE DEF places, next
    <3> QED
      BY <1>3, <3>4, <3>5
  <2> QED
    BY <2>1, <2>2
<1>5. PICK n \in Nat : n = next
  <2> HIDE DEF next
  <2> QED
    BY <1>4
<1>6. \A p \in QuestionsOf(1) : questionRows[p].place < n
  BY <1>4, <1>5
<1>7. PICK q : q = [old EXCEPT !.at = "checked", !.n = n]
  OBVIOUS
<1>8. q \in Request /\ q.job = "question" /\ q.at = "checked" /\ q.n = n
  BY <1>2, <1>7 DEF Request
<1>9. Trusted(q)
  BY <1>6, <1>8 DEF Trusted, VersionDue, PlaceDue, OrderDue, WellFormed
<1>10. New(r, q) \/ New(r, NoRequest)
  BY <1>5, <1>7 DEF NextPlace, New
<1>11. UNCHANGED <<server, tableVars, ids, asked, failures, tied, outdated>>
  BY DEF NextPlace
<1> QED
  BY <1>1, <1>8, <1>9, <1>10, <1>11, QuestionsKept DEF tableVars, TablesTyped, Exists

\* A reorder begins with all the questions to place; a question is removed.
LEMMA BeginRows ==
  ASSUME RowsInv, NEW r \in Requests, BeginReorder(r) \/ RemoveQuestion(r)
  PROVE  RowsInv'
<1> DEFINE old == requests[r]
<1>1. TablesTyped
  BY DEF RowsInv
<1>2. CASE BeginReorder(r)
  <2>1. old \in Request /\ old.job = "reorder" /\ old.at = "begin" /\ Trusted(old)
    BY <1>2, RequestOf DEF BeginReorder, Is
  <2>2. PICK q : q = [old EXCEPT !.at = "placing", !.n = 0]
    OBVIOUS
  <2>3. q \in Request /\ q.job = "reorder" /\ q.at = "placing" /\ q.list = old.list
        /\ q.doubts = old.doubts
    BY <2>1, <2>2 DEF Request
  <2>4. old.list # <<>> => Trusted(q)
    BY <2>1, <2>3 DEF Trusted, VersionDue, PlaceDue, OrderDue, WellFormed
  <2>5. (New(r, q) /\ old.list # <<>>) \/ New(r, NoRequest)
    BY <1>2, <2>2 DEF BeginReorder, New
  <2>6. UNCHANGED <<server, tableVars, ids, asked, failures, tied, outdated>>
    BY <1>2 DEF BeginReorder
  <2> QED
    BY <1>1, <2>3, <2>4, <2>5, <2>6, QuestionsKept DEF tableVars, TablesTyped, Exists
<1>3. CASE RemoveQuestion(r)
  <2>1. New(r, NoRequest)
    BY <1>3 DEF RemoveQuestion, New
  <2>2. UNCHANGED <<server, surveyRows, title, versions, ids, asked, failures, tied, outdated>>
    BY <1>3 DEF RemoveQuestion
  <2>3. \/ questionRows' = questionRows
        \/ \E p \in QuestionsOf(1) :
              questionRows' = [i \in DOMAIN questionRows \ {p} |-> questionRows[i]]
    BY <1>3 DEF RemoveQuestion, Less
  <2>4. DOMAIN questionRows' \subseteq DOMAIN questionRows
        /\ \A p \in DOMAIN questionRows' : questionRows'[p] = questionRows[p]
    BY <2>3
  <2>5. RowsRemain
    BY <2>2, <2>4 DEF RowsRemain, QuestionsOf, Exists
  <2>6. IsFiniteSet(DOMAIN questionRows')
    BY <1>1, <2>4, FS_Subset DEF TablesTyped
  <2>7. TablesTyped'
    BY <1>1, <2>2, <2>4, <2>6 DEF TablesTyped
  <2> QED
    BY <2>1, <2>2, <2>5, <2>7, RemainKeeps
<1> QED
  BY <1>2, <1>3

\* An update reads what it has written, and the versions there are.
LEMMA ReadRows ==
  ASSUME RowsInv, NEW r \in Requests, ReadSurvey(r) \/ ReadVersion(r)
  PROVE  RowsInv'
<1> DEFINE old == requests[r]
<1>1. TablesTyped
  BY DEF RowsInv
<1>2. old \in Request /\ old.job = "update" /\ Trusted(old)
  BY RequestOf DEF ReadSurvey, ReadVersion, Is
<1>3. UNCHANGED <<server, tableVars, ids, asked, failures, tied, outdated>>
  BY DEF ReadSurvey, ReadVersion
<1>4. PICK q \in Request \cup {NoRequest} : New(r, q) /\ (q # NoRequest => Trusted(q))
  <2>1. CASE ReadSurvey(r)
    <3>1. PICK i \in Nat : i = IF Exists THEN title ELSE 0
      BY <1>1 DEF TablesTyped
    <3>2. PICK q : q = [old EXCEPT !.at = "read", !.id = i]
      OBVIOUS
    <3>3. q \in Request /\ q.job = "update" /\ q.at = "read" /\ q.id = i
      BY <1>2, <3>1, <3>2 DEF Request
    <3>4. Trusted(q)
      BY <3>1, <3>3 DEF Trusted, VersionDue, PlaceDue, OrderDue, WellFormed
    <3>5. New(r, q) \/ New(r, NoRequest)
      BY <2>1, <3>1, <3>2 DEF ReadSurvey, New
    <3> QED
      BY <3>3, <3>4, <3>5
  <2>2. CASE ReadVersion(r)
    <3>1. PICK k \in Nat : k = Len(versions) + 1
      BY <1>1 DEF TablesTyped
    <3>2. PICK q : q = [old EXCEPT !.at = "checked", !.n = k]
      OBVIOUS
    <3>3. q \in Request /\ q.job = "update" /\ q.at = "checked" /\ q.n = k
          /\ q.id = old.id /\ q.doubts = old.doubts
      BY <1>2, <3>1, <3>2 DEF Request
    <3>4. old.at = "read"
      BY <2>2 DEF ReadVersion, Is
    <3>5. Trusted(q)
      BY <1>2, <3>1, <3>3, <3>4 DEF Trusted, VersionDue, PlaceDue, OrderDue, WellFormed
    <3>6. New(r, q)
      BY <2>2, <3>1, <3>2 DEF ReadVersion, New
    <3> QED
      BY <3>3, <3>5, <3>6
  <2> QED
    BY <2>1, <2>2
<1> QED
  BY <1>1, <1>3, <1>4, QuestionsKept DEF tableVars, TablesTyped, Exists

\* Go goes on without a statement: nothing the request then has is trusted.
LEMMA SkipRows ==
  ASSUME RowsInv, NEW r \in Requests, FailSkips(r)
  PROVE  RowsInv'
<1> DEFINE old == requests[r]
           off == Doubting(old, "failed")
<1>1. TablesTyped
  BY DEF RowsInv
<1>2. old # NoRequest
  BY DEF FailSkips
<1>3. old \in Request /\ Trusted(old)
  BY <1>2, RequestOf
<1>4. off \in Request /\ off.doubts # {} /\ off.job = old.job /\ off.at = old.at
      /\ off.list = old.list /\ off.id = old.id /\ off.n = old.n
  BY <1>3, DoubtingIs
<1>5. PICK q \in Request \cup {NoRequest} : New(r, q) /\ (q # NoRequest => Trusted(q))
  <2> HIDE DEF off
  <2> USE <1>4
  <2>1. CASE Is(r, "create", "begin") /\ Reads(r, [off EXCEPT !.at = "checked"])
    <3>1. PICK q : q = [off EXCEPT !.at = "checked"]
      OBVIOUS
    <3>2. q \in Request /\ q.doubts # {} /\ q.at = "checked"
      BY <3>1 DEF Request
    <3> QED
      BY <2>1, <3>1, <3>2, Untrusting DEF WellFormed, New
  <2>2. CASE Is(r, "copy", "checked") /\ Reads(r, [off EXCEPT !.at = "read", !.id = ids + 1])
    <3>1. PICK i \in Nat : i = ids + 1 /\ i # 1
      BY <1>1 DEF TablesTyped
    <3>2. PICK q : q = [off EXCEPT !.at = "read", !.id = i]
      OBVIOUS
    <3>3. q \in Request /\ q.doubts # {} /\ q.at = "read" /\ q.id = i
      BY <3>2 DEF Request
    <3> QED
      BY <2>2, <3>1, <3>2, <3>3, Untrusting DEF WellFormed, New
  <2>3. CASE Reads(r, NoRequest)
    BY <2>3 DEF New
  <2>4. CASE Reads(r, [off EXCEPT !.at = "checked", !.n = 0])
    <3>1. PICK q : q = [off EXCEPT !.at = "checked", !.n = 0]
      OBVIOUS
    <3>2. q \in Request /\ q.doubts # {} /\ q.at = "checked"
      BY <3>1 DEF Request
    <3> QED
      BY <2>4, <3>1, <3>2, Untrusting DEF WellFormed, New
  <2>5. CASE old.at = "placing"
             /\ Reads(r, IF Len(off.list) = 1 THEN NoRequest
                         ELSE [off EXCEPT !.list = Tail(@), !.n = @ + 1])
    <3>1. old.list \in Seq(Nat) /\ old.list # <<>> /\ old.job \in {"copy", "reorder"}
      BY <1>3, <2>5 DEF Trusted, WellFormed, Request
    <3>2. PICK l : l = Tail(off.list)
      OBVIOUS
    <3>3. Len(off.list) # 1 => l \in Seq(Nat) /\ l # <<>>
      BY <3>1, <3>2, TailOf
    <3>4. PICK n \in Nat : n = off.n + 1
      BY DEF Request
    <3>5. PICK q : q = [off EXCEPT !.list = l, !.n = n]
      OBVIOUS
    <3>6. Len(off.list) # 1 => /\ q \in Request /\ q.doubts # {} /\ q.at = "placing"
                               /\ q.list = l /\ q.job = old.job /\ q.id = old.id
      BY <2>5, <3>3, <3>5 DEF Request
    <3>7. Len(off.list) # 1 => Trusted(q)
      BY <1>3, <2>5, <3>1, <3>3, <3>6, Untrusting DEF Trusted, WellFormed
    <3>8. \/ Len(off.list) = 1 /\ Reads(r, NoRequest)
          \/ Len(off.list) # 1 /\ Reads(r, q)
      BY <2>5, <3>2, <3>4, <3>5
    <3> QED
      BY <3>6, <3>7, <3>8 DEF New
  <2>6. CASE Is(r, "update", "written") /\ Reads(r, [off EXCEPT !.at = "read", !.id = 0])
    <3>1. PICK q : q = [off EXCEPT !.at = "read", !.id = 0]
      OBVIOUS
    <3>2. q \in Request /\ q.doubts # {} /\ q.at = "read" /\ q.job = "update"
      BY <2>6, <3>1 DEF Request, Is
    <3> QED
      BY <2>6, <3>1, <3>2, Untrusting DEF WellFormed, New
  <2>7. CASE Is(r, "update", "read") /\ Reads(r, [off EXCEPT !.at = "checked", !.n = 1])
    <3>1. PICK q : q = [off EXCEPT !.at = "checked", !.n = 1]
      OBVIOUS
    <3>2. q \in Request /\ q.doubts # {} /\ q.at = "checked"
      BY <3>1 DEF Request
    <3> QED
      BY <2>7, <3>1, <3>2, Untrusting DEF WellFormed, New
  <2>8. CASE Is(r, "update", "begin") /\ Reads(r, [old EXCEPT !.at = "written"])
    <3>1. PICK q : q = [old EXCEPT !.at = "written"]
      OBVIOUS
    <3>2. q \in Request /\ q.at = "written" /\ q.job = "update"
      BY <1>3, <2>8, <3>1 DEF Request, Is
    <3> QED
      BY <2>8, <3>1, <3>2, Untrusting DEF WellFormed, New
  <2> QED
    BY <2>1, <2>2, <2>3, <2>4, <2>5, <2>6, <2>7, <2>8 DEF FailSkips, off
<1>6. /\ UNCHANGED <<server, tableVars, asked, outdated>>
      /\ tied' = IF Is(r, "reorder", "placing") THEN tied \cup {"failed"} ELSE tied
      /\ ids' = IF Is(r, "copy", "checked") THEN ids + 1 ELSE ids
  BY DEF FailSkips
<1>7. ids' \in Nat \ {0}
  BY <1>1, <1>6 DEF TablesTyped
<1>8. tied # {} => tied' # {}
  BY <1>6
<1> QED
  BY <1>1, <1>5, <1>6, <1>7, <1>8, QuestionsKept DEF tableVars, TablesTyped, Exists

\* A step that writes what requests of some jobs work on disturbs all of those.
LEMMA WritesDisturb ==
  ASSUME RowsInv, TablesTyped', TablesAgree',
         NEW r \in Requests, NEW q \in Request \cup {NoRequest}, NEW jobs,
         Writes(r, q, jobs), q # NoRequest => Trusted(q)',
         \A p \in Request : Trusted(p) /\ p.job \notin jobs => Trusted(p)'
  PROVE  RowsInv'
<1>1. RequestsTyped' /\ requests'[r] = q
  BY OthersOf DEF RowsInv, New
<1>2. ASSUME NEW o \in Requests, requests'[o] # NoRequest
      PROVE  Trusted(requests[o])'
  <2>1. CASE o = r
    <3>1. PICK p : p = requests'[o]
      OBVIOUS
    <3> QED
      BY <1>1, <1>2, <2>1, <3>1
  <2>2. CASE o # r
    <3>1. PICK x : x = requests[o]
      OBVIOUS
    <3>2. PICK y : y = requests'[o]
      OBVIOUS
    <3>3. y = IF x # NoRequest /\ x.job \in jobs THEN Doubting(x, "raced") ELSE x
      BY <2>2, <3>1, <3>2 DEF Writes
    <3>4. CASE x # NoRequest /\ x.job \in jobs
      <4>1. x \in Request /\ Trusted(x)
        BY <3>1, <3>4, RequestOf
      <4>2. Trusted(Doubting(x, "raced"))'
        BY <4>1, DisturbedTrusted
      <4>3. Trusted(y)'
        BY <3>3, <3>4, <4>2
      <4> QED
        BY <3>2, <4>3
    <3>5. CASE ~(x # NoRequest /\ x.job \in jobs)
      <4>1. y = x /\ x # NoRequest
        BY <1>2, <3>2, <3>3, <3>5
      <4>2. x \in Request /\ Trusted(x)
        BY <3>1, <4>1, RequestOf
      <4>3. Trusted(y)'
        BY <3>5, <4>1, <4>2
      <4> QED
        BY <3>2, <4>3
    <3> QED
      BY <3>4, <3>5
  <2> QED
    BY <2>1, <2>2
<1> QED
  BY <1>1, <1>2 DEF RowsInv

\* The question inserted has a place behind the others, unless one came between.
LEMMA InsertRows ==
  ASSUME RowsInv, NEW r \in Requests, InsertQuestion(r)
  PROVE  RowsInv'
<1> DEFINE old == requests[r]
<1>1. TablesTyped
  BY DEF RowsInv
<1>2. old \in Request /\ old.job = "question" /\ old.at = "checked" /\ Trusted(old)
  BY RequestOf DEF InsertQuestion, Is
<1>3. PICK n \in Nat : n = old.n
  BY <1>2 DEF Request
<1>4. PICK i \in Nat \ {0} : i = ids + 1
  BY <1>1 DEF TablesTyped
<1>5. /\ questionRows' = [q \in DOMAIN questionRows \cup {i} |->
                             IF q = i THEN [survey |-> 1, place |-> n] ELSE questionRows[q]]
      /\ ids' = i
  BY <1>3, <1>4 DEF InsertQuestion, With
<1>6. /\ UNCHANGED <<server, surveyRows, title, versions, asked, failures, outdated>>
      /\ tied' = tied \cup old.doubts /\ Writes(r, NoRequest, AboutQuestions)
  BY DEF InsertQuestion
<1>7. TablesTyped'
  <2>1. IsFiniteSet(DOMAIN questionRows \cup {i})
    BY <1>1, FS_AddElement DEF TablesTyped
  <2>2. DOMAIN questionRows' = DOMAIN questionRows \cup {i} /\ DOMAIN questionRows' \subseteq Nat
    BY <1>1, <1>5 DEF TablesTyped
  <2>3. \A q \in DOMAIN questionRows' : questionRows'[q] \in [survey : Nat, place : Nat]
    BY <1>1, <1>5 DEF TablesTyped
  <2>4. PICK b \in Nat : \A q \in DOMAIN questionRows : questionRows[q].place <= b
    BY <1>1 DEF TablesTyped
  <2>5. PICK d \in Nat : d >= b /\ d >= n
    OBVIOUS
  <2>6. \A q \in DOMAIN questionRows' : questionRows'[q].place <= d
    BY <1>1, <1>5, <2>4, <2>5 DEF TablesTyped
  <2> QED
    BY <1>1, <1>5, <1>6, <2>1, <2>2, <2>3, <2>6 DEF TablesTyped
<1>8. PlacesDiffer'
  <2> SUFFICES ASSUME old.doubts = {}, tied = {},
                      NEW p \in QuestionsOf(1)', NEW q \in QuestionsOf(1)', p # q
               PROVE  questionRows'[p].place # questionRows'[q].place
    BY <1>6 DEF PlacesDiffer
  <2>1. \A o \in QuestionsOf(1) : questionRows[o].place < n /\ questionRows[o].place \in Nat
    BY <1>1, <1>2, <1>3 DEF Trusted, PlaceDue, TablesTyped, QuestionsOf
  <2>2. \A o \in {p, q} : /\ o = i => questionRows'[o].place = n
                          /\ o # i => /\ o \in QuestionsOf(1)
                                      /\ questionRows'[o].place = questionRows[o].place
    BY <1>5 DEF QuestionsOf
  <2>3. \A x, y \in QuestionsOf(1) : x # y => questionRows[x].place # questionRows[y].place
    BY DEF RowsInv, TablesAgree, PlacesDiffer
  <2> QED
    BY <2>1, <2>2, <2>3
<1>9. VersionIsCurrent'
  BY <1>6 DEF RowsInv, TablesAgree, VersionIsCurrent, Exists
<1>10. \A p \in Request : Trusted(p) /\ p.job \notin AboutQuestions => Trusted(p)'
  BY <1>6 DEF Trusted, VersionDue, PlaceDue, OrderDue, WellFormed, AboutQuestions, Exists
<1> QED
  BY <1>6, <1>7, <1>8, <1>9, <1>10, WritesDisturb DEF TablesAgree

\* A reorder gives the question it is at the next place, behind those it has placed.
LEMMA ReorderRows ==
  ASSUME RowsInv, NEW r \in Requests, PlaceQuestion(r)
  PROVE  RowsInv'
<1> DEFINE old == requests[r]
<1>1. TablesTyped
  BY DEF RowsInv
<1>2. old \in Request /\ old.job = "reorder" /\ old.at = "placing" /\ Trusted(old)
  BY RequestOf DEF PlaceQuestion, Is
<1>3. PICK n \in Nat : n = old.n
  BY <1>2 DEF Request
<1>4. PICK l \in Seq(Nat) : l = old.list
  BY <1>2 DEF Request
<1>5. l # <<>>
  BY <1>2, <1>4 DEF Trusted, WellFormed
<1>6. PICK h \in Nat : h = Head(l) /\ h = l[1]
  BY <1>5, TailOf
<1>7. PICK q : q = [old EXCEPT !.list = Tail(@), !.n = @ + 1]
  OBVIOUS
<1>8. /\ UNCHANGED <<server, surveyRows, title, versions, ids, asked, failures, outdated>>
      /\ tied' = IF Len(l) = 1 /\ old.doubts = {} THEN {}
                ELSE tied \cup old.doubts \cup {"unfinished"}
      /\ Writes(r, IF Len(l) = 1 THEN NoRequest ELSE q, AboutQuestions)
  BY <1>4, <1>7 DEF PlaceQuestion
<1>9. questionRows' = IF h \in DOMAIN questionRows
                      THEN [questionRows EXCEPT ![h].place = n] ELSE questionRows
  BY <1>3, <1>4, <1>6 DEF PlaceQuestion, Placed
<1>10. /\ DOMAIN questionRows' = DOMAIN questionRows
       /\ \A p \in DOMAIN questionRows \ {h} : questionRows'[p] = questionRows[p]
  BY <1>9
<1>11. h \in DOMAIN questionRows => /\ questionRows'[h].place = n
                                   /\ questionRows'[h].survey = questionRows[h].survey
                                   /\ questionRows'[h] \in [survey : Nat, place : Nat]
  <2> SUFFICES ASSUME h \in DOMAIN questionRows
               PROVE  /\ questionRows'[h].place = n
                      /\ questionRows'[h].survey = questionRows[h].survey
                      /\ questionRows'[h] \in [survey : Nat, place : Nat]
    OBVIOUS
  <2>1. PICK x \in [survey : Nat, place : Nat] : x = questionRows[h]
    BY <1>1 DEF TablesTyped
  <2>2. questionRows'[h] = [x EXCEPT !.place = n]
    BY <1>9, <2>1
  <2> QED
    BY <2>1, <2>2
<1>12. TablesTyped'
  <2>1. \A p \in DOMAIN questionRows' : questionRows'[p] \in [survey : Nat, place : Nat]
    BY <1>1, <1>10, <1>11 DEF TablesTyped
  <2>2. PICK b \in Nat : \A p \in DOMAIN questionRows : questionRows[p].place <= b
    BY <1>1 DEF TablesTyped
  <2>3. PICK d \in Nat : d >= b /\ d >= n
    OBVIOUS
  <2>4. \A p \in DOMAIN questionRows' : questionRows'[p].place <= d
    <3> TAKE p \in DOMAIN questionRows'
    <3>1. CASE p = h
      BY <1>10, <1>11, <2>3, <3>1
    <3>2. CASE p # h
      <4>1. questionRows'[p] = questionRows[p] /\ questionRows[p].place <= b
        BY <1>10, <2>2, <3>2
      <4>2. questionRows[p].place \in Nat
        BY <1>1, <1>10 DEF TablesTyped
      <4> QED
        BY <2>3, <4>1, <4>2
    <3> QED
      BY <3>1, <3>2
  <2> QED
    BY <1>1, <1>8, <1>10, <2>1, <2>4 DEF TablesTyped
<1>13. QuestionsOf(1)' = QuestionsOf(1)
  BY <1>10, <1>11 DEF QuestionsOf
<1>14. PICK placed : placed = (QuestionsOf(1) \ Members(l)) \cup (QuestionsOf(1) \cap {h})
  OBVIOUS
\* What is no longer listed, with the question of this step: behind it are none.
<1>15. ASSUME old.doubts = {}
       PROVE  /\ \A p \in placed : questionRows'[p].place < n + 1
              /\ \A p, o \in placed :
                    p # o => questionRows'[p].place # questionRows'[o].place
  <2>1. /\ \A p \in QuestionsOf(1) \ Members(l) : questionRows[p].place < n
        /\ \A p, o \in QuestionsOf(1) \ Members(l) :
              p # o => questionRows[p].place # questionRows[o].place
    BY <1>2, <1>3, <1>4, <1>15 DEF Trusted, OrderDue
  <2>2. h \in Members(l)
    BY <1>5, <1>6, TailOf DEF Members
  <2>3. \A p \in placed : /\ p = h => questionRows'[p].place = n
                          /\ p # h => /\ p \in QuestionsOf(1) \ Members(l)
                                      /\ questionRows'[p].place = questionRows[p].place
                                      /\ questionRows[p].place \in Nat
    BY <1>1, <1>10, <1>11, <1>14, <2>2 DEF QuestionsOf, TablesTyped
  <2> QED
    BY <2>1, <2>3
<1>16. PlacesDiffer'
  <2> SUFFICES ASSUME Len(l) = 1, old.doubts = {} PROVE PlacesDiffer'
    BY <1>8 DEF PlacesDiffer
  <2>1. Members(l) = {h}
    BY <1>6 DEF Members
  <2>2. placed = QuestionsOf(1)
    BY <1>14, <2>1
  <2> QED
    BY <1>13, <1>15, <2>2 DEF PlacesDiffer
<1>17. VersionIsCurrent'
  BY <1>8 DEF RowsInv, TablesAgree, VersionIsCurrent, Exists
<1>18. \A p \in Request : Trusted(p) /\ p.job \notin AboutQuestions => Trusted(p)'
  BY <1>8 DEF Trusted, VersionDue, PlaceDue, OrderDue, WellFormed, AboutQuestions, Exists
<1>19. ASSUME Len(l) # 1
       PROVE  q \in Request /\ Trusted(q)'
  <2>1. PICK t \in Seq(Nat) : t = Tail(l) /\ t # <<>>
    BY <1>5, <1>19, TailOf
  <2>2. /\ q \in Request /\ q.job = "reorder" /\ q.at = "placing" /\ q.list = t
        /\ q.n = n + 1 /\ q.doubts = old.doubts
    <3>1. PICK k \in Nat : k = n + 1
      OBVIOUS
    <3>2. q = [old EXCEPT !.list = t, !.n = k]
      BY <1>3, <1>4, <1>7, <2>1, <3>1
    <3> QED
      BY <1>2, <2>1, <3>1, <3>2 DEF Request
  <2>3. ASSUME old.doubts = {}
        PROVE  IsInjective(t) /\ QuestionsOf(1)' \ Members(t) \subseteq placed
    <3>1. IsInjective(l)
      BY <1>2, <1>4, <2>3 DEF Trusted, OrderDue
    <3>2. /\ \A i \in DOMAIN t : i + 1 \in DOMAIN l /\ t[i] = l[i + 1]
          /\ \A i \in DOMAIN l : i # 1 => i - 1 \in DOMAIN t
          /\ DOMAIN l \subseteq Nat /\ DOMAIN t \subseteq Nat
      BY <1>5, <2>1, TailOf
    <3>3. IsInjective(t)
      <4> SUFFICES ASSUME NEW i \in DOMAIN t, NEW j \in DOMAIN t, t[i] = t[j]
                   PROVE  i = j
        BY DEF IsInjective
      <4>1. i + 1 = j + 1
        BY <3>1, <3>2 DEF IsInjective
      <4> QED
        BY <3>2, <4>1
    <3>4. \A x \in Members(l) : x # h => x \in Members(t)
      <4> SUFFICES ASSUME NEW i \in DOMAIN l, l[i] # h PROVE l[i] \in Members(t)
        BY DEF Members
      <4>1. i # 1
        BY <1>6
      <4>2. i - 1 \in DOMAIN t /\ t[i - 1] = l[i]
        BY <3>2, <4>1
      <4> QED
        BY <4>2 DEF Members
    <3> QED
      BY <1>13, <1>14, <3>3, <3>4
  <2>4. OrderDue(q)'
    BY <1>15, <2>2, <2>3 DEF OrderDue
  <2>5. Trusted(q)'
    BY <2>1, <2>2, <2>4 DEF Trusted, VersionDue, PlaceDue, WellFormed
  <2> QED
    BY <2>2, <2>5
<1> QED
  <2>1. CASE Len(l) = 1
    BY <1>8, <1>12, <1>16, <1>17, <1>18, <2>1, WritesDisturb DEF TablesAgree
  <2>2. CASE Len(l) # 1
    BY <1>8, <1>12, <1>16, <1>17, <1>18, <1>19, <2>2, WritesDisturb DEF TablesAgree
  <2> QED
    BY <2>1, <2>2

\* An update takes the title, and with it every snapshot another was about to make.
LEMMA TitleRows ==
  ASSUME RowsInv, NEW r \in Requests, UpdateTitle(r)
  PROVE  RowsInv'
<1> DEFINE old == requests[r]
<1>1. TablesTyped
  BY DEF RowsInv
<1>2. old \in Request /\ old.job = "update" /\ old.at = "begin"
  BY RequestOf DEF UpdateTitle, Is
<1>3. UNCHANGED <<server, surveyRows, questionRows, versions, ids, asked, failures, tied>>
  BY DEF UpdateTitle
<1>4. CASE /\ title' = old.id /\ outdated' = outdated \cup {"unfinished"}
           /\ Writes(r, [old EXCEPT !.at = "written"], {"update"})
  <2>1. PICK q : q = [old EXCEPT !.at = "written"]
    OBVIOUS
  <2>2. q \in Request /\ q.job = "update" /\ q.at = "written"
    BY <1>2, <2>1 DEF Request
  <2>3. Trusted(q)'
    BY <2>2 DEF Trusted, VersionDue, PlaceDue, OrderDue, WellFormed
  <2>4. title' \in Nat
    BY <1>2, <1>4 DEF Request
  <2>5. TablesTyped'
    BY <1>1, <1>3, <2>4 DEF TablesTyped
  <2>6. TablesAgree'
    BY <1>3, <1>4 DEF RowsInv, TablesAgree, PlacesDiffer, VersionIsCurrent, QuestionsOf
  <2>7. \A p \in Request : Trusted(p) /\ p.job \notin {"update"} => Trusted(p)'
    BY <1>3 DEF Trusted, VersionDue, PlaceDue, OrderDue, WellFormed, QuestionsOf
  <2> QED
    BY <1>4, <2>1, <2>2, <2>3, <2>5, <2>6, <2>7, WritesDisturb
<1>5. CASE Reads(r, NoRequest) /\ UNCHANGED <<title, outdated>>
  BY <1>1, <1>3, <1>5, QuestionsKept DEF New, TablesTyped, Exists
<1> QED
  BY <1>4, <1>5 DEF UpdateTitle

\* The version inserted is the survey, unless another update came between.
LEMMA VersionRows ==
  ASSUME RowsInv, NEW r \in Requests, InsertVersion(r)
  PROVE  RowsInv'
<1> DEFINE old == requests[r]
<1>1. TablesTyped
  BY DEF RowsInv
<1>2. old \in Request /\ old.job = "update" /\ old.at = "checked" /\ Trusted(old)
  BY RequestOf DEF InsertVersion, Is
<1>3. /\ UNCHANGED <<server, surveyRows, questionRows, title, ids, asked, failures, tied>>
      /\ versions' = IF old.n = Len(versions) + 1 THEN Append(versions, old.id) ELSE versions
      /\ outdated' = IF old.doubts = {} THEN {} ELSE outdated \cup old.doubts
      /\ Writes(r, NoRequest, {"update"})
  BY DEF InsertVersion
<1>4. PICK i \in Nat : i = old.id
  BY <1>2 DEF Request
<1>5. PICK v \in Seq(Nat) : v = versions
  BY <1>1 DEF TablesTyped
<1>6. /\ Append(v, i) \in Seq(Nat) /\ Len(Append(v, i)) = Len(v) + 1
      /\ Append(v, i)[Len(v) + 1] = i
  BY AppendProperties
<1>7. TablesTyped'
  BY <1>1, <1>3, <1>4, <1>5, <1>6 DEF TablesTyped
<1>8. VersionIsCurrent'
  <2> SUFFICES ASSUME old.doubts = {}, Exists PROVE versions'[Len(versions')] = title'
    BY <1>3 DEF VersionIsCurrent, Exists
  <2>1. i = title /\ old.n = Len(v) + 1
    BY <1>2, <1>4, <1>5 DEF Trusted, VersionDue
  <2>2. versions' = Append(v, i)
    BY <1>3, <1>4, <1>5, <2>1
  <2> QED
    BY <1>3, <1>6, <2>1, <2>2
<1>9. PlacesDiffer'
  BY <1>3 DEF RowsInv, TablesAgree, PlacesDiffer, QuestionsOf
<1>10. \A p \in Request : Trusted(p) /\ p.job \notin {"update"} => Trusted(p)'
  BY <1>3 DEF Trusted, VersionDue, PlaceDue, OrderDue, WellFormed, QuestionsOf
<1> QED
  BY <1>3, <1>7, <1>8, <1>9, <1>10, WritesDisturb DEF TablesAgree

-----------------------------------------------------------------------------

\* One survey, two questions in their places, no version.
LEMMA RowsInit == StoreInit => RowsInv
<1> SUFFICES ASSUME StoreInit PROVE RowsInv
  OBVIOUS
<1>1. IsFiniteSet({1, 2})
  <2>1. IsFiniteSet({1} \cup {2})
    BY FS_Singleton, FS_AddElement
  <2>2. {1} \cup {2} = {1, 2}
    OBVIOUS
  <2> QED
    BY <2>1, <2>2
<1>2. questionRows = [q \in {1, 2} |-> [survey |-> 1, place |-> q - 1]]
  BY DEF StoreInit
<1>3. \A q \in DOMAIN questionRows :
         questionRows[q] \in [survey : Nat, place : Nat] /\ questionRows[q].place <= 1
  BY <1>2
<1>4. <<>> \in Seq(Nat)
  BY EmptySeq
<1>5. TablesTyped
  BY <1>1, <1>2, <1>3, <1>4 DEF StoreInit, TablesTyped
<1>6. PlacesDiffer
  BY <1>2 DEF PlacesDiffer, QuestionsOf
<1>7. VersionIsCurrent
  BY DEF StoreInit, VersionIsCurrent
<1> QED
  BY <1>5, <1>6, <1>7 DEF StoreInit, RowsInv, RequestsTyped, TablesAgree

\* Every handler's step keeps the rows and what is trusted of them.
LEMMA RowsStep == RowsInv /\ [StoreNext]_storeVars => RowsInv'
<1> SUFFICES ASSUME RowsInv, [StoreNext]_storeVars
             PROVE  RowsInv'
  OBVIOUS
<1>1. CASE UNCHANGED storeVars
  <2>1. \A p : Trusted(p) => Trusted(p)'
    BY <1>1 DEF storeVars, tableVars, Trusted, VersionDue, PlaceDue, OrderDue, WellFormed,
                Exists, QuestionsOf
  <2>2. \A r \in Requests : requests'[r] # NoRequest => Trusted(requests[r])'
    <3> TAKE r \in Requests
    <3>1. PICK p : p = requests[r] /\ p = requests'[r]
      BY <1>1 DEF storeVars
    <3> QED
      BY <2>1, <3>1 DEF RowsInv
  <2> QED
    BY <1>1, <2>2 DEF storeVars, tableVars, RowsInv, TablesTyped, RequestsTyped,
                      TablesAgree, PlacesDiffer, VersionIsCurrent, Exists, QuestionsOf
<1>2. ASSUME NEW r \in Requests, Handler(r)
      PROVE  RowsInv'
  BY <1>2, AskRows, SurveyRows, CopyRows, PlaceRows, BeginRows, ReadRows, SkipRows,
     InsertRows, ReorderRows, TitleRows, VersionRows DEF Handler
<1> QED
  BY <1>1, <1>2 DEF StoreNext

\* The rows agree whatever requests come between the statements of others and whichever
\* statements fail.  No two questions share a place but for a create_question that read
\* the greatest place before another wrote, a Go one whose read of it failed, and a
\* reorder_questions disturbed, cut short or with a question left out; the last version
\* is the survey but for an update that another came into, one not carried to its
\* snapshot, and a Go one that read its number or its survey in vain -- "Snapshot
\* version" of update_survey; and a failed read is to blame only where Go has had one.
THEOREM RowsKept == StoreSpec => []RowsAgree
<1>1. RowsInv /\ FailuresNamed => RowsAgree
  BY DEF RowsInv, TablesAgree, FailuresNamed, Named, RowsAgree
<1>2. LimitInv => RequestsShaped
  BY DEF LimitInv
<1> QED
  BY <1>1, <1>2, RowsInit, RowsStep, LimitInit, LimitStep, NamedInit, NamedStep, PTL
     DEF StoreSpec
-----------------------------------------------------------------------------
(* The types.                                                              *)

\* The rows of the surveys, and what is counted.
Excuses == {"copy", "raced", "failed"}

SurveysTyped ==
    /\ DOMAIN surveyRows \subseteq Nat
    /\ \A s \in DOMAIN surveyRows : surveyRows[s] \subseteq Excuses

CountsTyped == asked \in 0..MaxRequests /\ failures \in 0..MaxFailures

HistoryTyped == tied \subseteq Causes /\ outdated \subseteq Causes

StoreTypeInv ==
    /\ RowsInv
    /\ server \in {"fastapi", "go"} /\ SurveysTyped /\ CountsTyped /\ HistoryTyped

\* A step keeps the types of what RowsInv does not speak of.
LEMMA StoreTypeStep ==
  StoreTypeInv /\ [StoreNext]_storeVars => StoreTypeInv'
<1> SUFFICES ASSUME StoreTypeInv, [StoreNext]_storeVars
             PROVE  StoreTypeInv'
  OBVIOUS
<1> USE DEF tableVars
<1>0. RowsInv /\ SurveysTyped /\ CountsTyped /\ HistoryTyped /\ ids \in Nat
  BY DEF StoreTypeInv, RowsInv, TablesTyped
<1>1. RowsInv'
  BY <1>0, RowsStep
<1>2. CASE UNCHANGED storeVars
  BY <1>1, <1>2 DEF storeVars, StoreTypeInv, SurveysTyped, CountsTyped, HistoryTyped
<1>3. ASSUME NEW r \in Requests, Handler(r)
      PROVE  StoreTypeInv'
  <2>1. server' = server
    BY <1>3 DEF Handler, Ask, CheckLimit, InsertSurvey, ReadOriginal, InsertCopy, ReadQuestions,
                InsertQuestionCopy, NextPlace, InsertQuestion, BeginReorder, PlaceQuestion,
                RemoveQuestion, DropSurvey, UpdateTitle, ReadSurvey, ReadVersion, InsertVersion,
                FailEnds, FailSkips
  <2>2. SurveysTyped'
    <3>1. CASE InsertSurvey(r) \/ InsertCopy(r)
      <4>0. requests[r] \in Request
        BY <1>0, <3>1, RequestOf DEF InsertSurvey, InsertCopy, Is
      <4>1. PICK k : k \subseteq Excuses /\ surveyRows' = With(surveyRows, ids + 1, k)
        BY <3>1, <4>0 DEF InsertSurvey, InsertCopy, Request, Excuses
      <4>2. DOMAIN surveyRows' = DOMAIN surveyRows \cup {ids + 1}
        BY <4>1 DEF With
      <4>3. \A s \in DOMAIN surveyRows' :
               \/ surveyRows'[s] = k
               \/ s \in DOMAIN surveyRows /\ surveyRows'[s] = surveyRows[s]
        BY <4>1 DEF With
      <4>4. DOMAIN surveyRows' \subseteq Nat
        BY <1>0, <4>2 DEF SurveysTyped
      <4> QED
        BY <1>0, <4>1, <4>3, <4>4 DEF SurveysTyped
    <3>2. CASE DropSurvey(r)
      BY <1>0, <3>2 DEF DropSurvey, SurveysTyped, Less
    <3>3. UNCHANGED surveyRows \/ InsertSurvey(r) \/ InsertCopy(r) \/ DropSurvey(r)
      BY <1>3 DEF Handler, Ask, CheckLimit, ReadOriginal, ReadQuestions,
                  InsertQuestionCopy, NextPlace, InsertQuestion, BeginReorder, PlaceQuestion,
                  RemoveQuestion, UpdateTitle, ReadSurvey, ReadVersion, InsertVersion,
                  FailEnds, FailSkips
    <3> QED
      BY <1>0, <3>1, <3>2, <3>3 DEF SurveysTyped
  <2>3. CountsTyped'
    <3>1. \/ UNCHANGED <<asked, failures>>
          \/ asked < MaxRequests /\ asked' = asked + 1 /\ UNCHANGED failures
          \/ Failing /\ UNCHANGED asked
      BY <1>3 DEF Handler, Ask, CheckLimit, InsertSurvey, ReadOriginal, InsertCopy, ReadQuestions,
                  InsertQuestionCopy, NextPlace, InsertQuestion, BeginReorder, PlaceQuestion,
                  RemoveQuestion, DropSurvey, UpdateTitle, ReadSurvey, ReadVersion,
                  InsertVersion, FailEnds, FailSkips
    <3> QED
      BY <1>0, <3>1, StoreAssumption DEF CountsTyped, Failing
  <2>4. HistoryTyped'
    <3>1. requests[r] # NoRequest => requests[r].doubts \subseteq Causes
      BY <1>0, RequestOf DEF Request, Causes
    <3>2. \/ UNCHANGED tied
          \/ /\ requests[r] # NoRequest
             /\ tied' \subseteq tied \cup requests[r].doubts \cup {"unfinished", "failed"}
      BY <1>3 DEF Handler, Ask, CheckLimit, InsertSurvey, ReadOriginal, InsertCopy, ReadQuestions,
                  InsertQuestionCopy, NextPlace, InsertQuestion, BeginReorder, PlaceQuestion,
                  RemoveQuestion, DropSurvey, UpdateTitle, ReadSurvey, ReadVersion,
                  InsertVersion, FailEnds, FailSkips, Is
    <3>3. \/ UNCHANGED outdated
          \/ /\ requests[r] # NoRequest
             /\ outdated' \subseteq outdated \cup requests[r].doubts \cup {"unfinished"}
      BY <1>3 DEF Handler, Ask, CheckLimit, InsertSurvey, ReadOriginal, InsertCopy, ReadQuestions,
                  InsertQuestionCopy, NextPlace, InsertQuestion, BeginReorder, PlaceQuestion,
                  RemoveQuestion, DropSurvey, UpdateTitle, ReadSurvey, ReadVersion,
                  InsertVersion, FailEnds, FailSkips, Is
    <3> QED
      BY <1>0, <3>1, <3>2, <3>3 DEF HistoryTyped, Causes
  <2> QED
    BY <1>1, <2>1, <2>2, <2>3, <2>4 DEF StoreTypeInv
<1> QED
  BY <1>2, <1>3 DEF StoreNext

\* Every variable of the store has its type: the tables of both backends and the
\* requests at work on them.
THEOREM StoreTypeCorrect == StoreSpec => []StoreTypeOK
<1>1. StoreInit => StoreTypeInv
  <2> SUFFICES ASSUME StoreInit PROVE StoreTypeInv
    OBVIOUS
  <2>1. SurveysTyped
    BY DEF StoreInit, SurveysTyped
  <2>2. CountsTyped
    BY StoreAssumption DEF StoreInit, CountsTyped
  <2>3. HistoryTyped
    BY DEF StoreInit, HistoryTyped
  <2> QED
    BY <2>1, <2>2, <2>3, RowsInit DEF StoreInit, StoreTypeInv
<1>2. StoreTypeInv => StoreTypeOK
  BY DEF StoreTypeInv, RowsInv, TablesTyped, RequestsTyped, SurveysTyped, Excuses, CountsTyped,
         HistoryTyped, StoreTypeOK
<1> QED
  BY <1>1, <1>2, StoreTypeStep, PTL DEF StoreSpec
=============================================================================
