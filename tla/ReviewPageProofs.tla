-------------------------- MODULE ReviewPageProofs --------------------------
(***************************************************************************)
(* Proofs about the verdicts, for any number of surveys, of verdicts under *)
(* way and of pages visited.  LastVerdictStands follows the one verdict    *)
(* that has been sent; ShownIsStored follows what each list holds, also    *)
(* while it is on its way or off the screen; OverturnedBlindly rests on    *)
(* both, and on the buttons being off while a list is awaited that a       *)
(* verdict of the page has asked for.  At the end what is proved of the    *)
(* collect page, of the store and of the verdicts is put together, for     *)
(* MCCollectStore.                                                         *)
(***************************************************************************)
EXTENDS MCCollectStore, CollectPageProofs, SurveyStoreProofs, TLAPS

\* What the argument needs of the types.
VerdictsTyped ==
    /\ status \in [SurveyIds -> Statuses]
    /\ view \in Keys \cup {Nowhere}
    /\ verdicts \in [Verdicts -> Mutation \cup {Nowhere}]
    /\ judged \in [SurveyIds -> Outcomes \cup {Nowhere}]

Sent(v) == verdicts[v] # Nowhere /\ verdicts[v].at = "sent"

SentAbout(s) == {v \in Verdicts : Sent(v) /\ verdicts[v].from.survey = s}

\* Nothing about a survey is on its way to the server, and its last verdict is
\* stored, or the only one that is on its way is the last.
OnlyLastSent(s) ==
    \/ SentAbout(s) = {} /\ status[s] = judged[s]
    \/ \E v \in Verdicts : SentAbout(s) = {v} /\ verdicts[v].outcome = judged[s]

\* LastVerdictStands says nothing while a verdict is under way; this does.
VerdictInv ==
    /\ VerdictsTyped
    /\ \A s \in SurveyIds : judged[s] # Nowhere => s \in muddled \/ OnlyLastSent(s)

-----------------------------------------------------------------------------

\* A step that sends nothing, takes nothing from what is sent and stores nothing.
SameSent ==
    \A v \in Verdicts :
        /\ Sent(v)' <=> Sent(v)
        /\ Sent(v) => /\ verdicts'[v].from = verdicts[v].from
                      /\ verdicts'[v].outcome = verdicts[v].outcome

LEMMA SameSentKeeps ==
  ASSUME VerdictInv, VerdictsTyped', SameSent,
         status' = status, judged' = judged, muddled \subseteq muddled'
  PROVE  VerdictInv'
<1> SUFFICES ASSUME NEW s \in SurveyIds, judged'[s] # Nowhere, s \notin muddled'
             PROVE  OnlyLastSent(s)'
  BY DEF VerdictInv
<1>1. OnlyLastSent(s)
  BY DEF VerdictInv
<1>2. SentAbout(s)' = SentAbout(s)
  BY DEF SentAbout, SameSent
<1>3. CASE SentAbout(s) = {} /\ status[s] = judged[s]
  BY <1>2, <1>3 DEF OnlyLastSent
<1>4. ASSUME NEW v \in Verdicts, SentAbout(s) = {v}, verdicts[v].outcome = judged[s]
      PROVE  OnlyLastSent(s)'
  <2>1. Sent(v)
    BY <1>4 DEF SentAbout
  <2>2. verdicts'[v].outcome = judged'[s]
    BY <1>4, <2>1 DEF SameSent
  <2> QED
    BY <1>2, <1>4, <2>2 DEF OnlyLastSent
<1> QED
  BY <1>1, <1>3, <1>4 DEF OnlyLastSent

\* A mutation that is replaced by one with another end, or is over, was not sent.
LEMMA Replaced ==
  ASSUME VerdictInv, view' \in Keys \cup {Nowhere},
         status' = status, judged' = judged, muddled \subseteq muddled',
         verdicts' \in [Verdicts -> Mutation \cup {Nowhere}],
         \A v \in Verdicts :
            \/ verdicts'[v] = verdicts[v]
            \/ /\ ~Sent(v)
               /\ verdicts'[v] # Nowhere => verdicts'[v].at # "sent"
            \/ /\ verdicts[v] # Nowhere /\ verdicts'[v] # Nowhere
               /\ verdicts'[v].at = verdicts[v].at
               /\ verdicts'[v].from = verdicts[v].from
               /\ verdicts'[v].outcome = verdicts[v].outcome
  PROVE  VerdictInv'
<1>1. VerdictsTyped'
  BY DEF VerdictInv, VerdictsTyped
<1>2. SameSent
  BY DEF SameSent, Sent
<1> QED
  BY <1>1, <1>2, SameSentKeeps

-----------------------------------------------------------------------------

LEMMA VerdictInit == ReviewInit => VerdictInv
BY NowhereAssumption DEF ReviewInit, VerdictInv, VerdictsTyped, Statuses

\* A verdict is given where none is under way, or the survey is muddled.
LEMMA JudgeKeeps ==
  ASSUME VerdictInv, NEW w \in Verdicts, NEW outcome \in Outcomes, Judge(w, outcome)
  PROVE  VerdictInv'
<1> DEFINE t == view.survey
           strangers == {o \in About(t) : ~verdicts[o].mine}
           new == verdicts'[w]
<1>1. VerdictsTyped /\ view \in Keys /\ t \in SurveyIds
  BY DEF VerdictInv, VerdictsTyped, Judge, Keys
<1>2. \A o \in Verdicts : verdicts[o] # Nowhere => verdicts[o] \in Mutation
  BY <1>1 DEF VerdictsTyped
<1>3. strangers = About(t)
  BY DEF Judge, Pending, About, Busy
<1>4. PICK b \in BOOLEAN :
        verdicts' = [o \in Verdicts |->
            IF o \in strangers THEN [verdicts[o] EXCEPT !.blind = TRUE]
            ELSE IF o # w THEN verdicts[o] ELSE
            [from |-> view, outcome |-> outcome, at |-> "sent", key |-> Invalidated(view),
             mine |-> TRUE, blind |-> b]]
  BY DEF Judge
<1>5. w \notin strangers
  BY DEF Judge, About, Busy
<1>6. new = [from |-> view, outcome |-> outcome, at |-> "sent", key |-> Invalidated(view),
             mine |-> TRUE, blind |-> b]
  BY <1>4, <1>5
<1>7. new \in Mutation /\ new # Nowhere
  <2>1. [from |-> view, outcome |-> outcome, at |-> "sent", key |-> view,
         mine |-> TRUE, blind |-> b] \in Mutation
    BY <1>1, Zenon DEF Mutation
  <2> QED
    BY <1>6, <2>1, NowhereAssumption DEF Invalidated
<1>8. \A o \in Verdicts \ {w} :
        \/ verdicts'[o] = verdicts[o]
        \/ /\ verdicts[o] \in Mutation /\ o \in strangers
           /\ verdicts'[o] = [verdicts[o] EXCEPT !.blind = TRUE]
  BY <1>2, <1>4 DEF About, Busy
<1>9. \A o \in Verdicts \ {w} :
        verdicts[o] \in Mutation =>
            /\ [verdicts[o] EXCEPT !.blind = TRUE] \in Mutation
            /\ [verdicts[o] EXCEPT !.blind = TRUE].from = verdicts[o].from
            /\ [verdicts[o] EXCEPT !.blind = TRUE].at = verdicts[o].at
            /\ [verdicts[o] EXCEPT !.blind = TRUE].outcome = verdicts[o].outcome
  BY DEF Mutation
<1>10. VerdictsTyped'
  <2>1. verdicts' \in [Verdicts -> Mutation \cup {Nowhere}]
    <3>1. \A o \in Verdicts : verdicts'[o] \in Mutation \cup {Nowhere}
      <4>1. verdicts'[w] \in Mutation
        BY <1>7
      <4>2. \A o \in Verdicts \ {w} : verdicts'[o] \in Mutation \cup {Nowhere}
        <5> HIDE DEF strangers
        <5> QED
          BY <1>1, <1>8, <1>9 DEF VerdictsTyped
      <4> QED
        BY <4>1, <4>2
    <3> QED
      BY <1>4, <3>1
  <2>2. judged' = [judged EXCEPT ![t] = outcome] /\ view' = view /\ status' = status
    BY DEF Judge
  <2> QED
    BY <1>1, <2>1, <2>2 DEF VerdictsTyped
<1>11. \A o \in Verdicts \ {w} :
        /\ Sent(o)' <=> Sent(o)
        /\ Sent(o) => /\ verdicts'[o].from = verdicts[o].from
                      /\ verdicts'[o].outcome = verdicts[o].outcome
  BY <1>8, <1>9, NowhereAssumption DEF Sent
<1>12. judged' = [judged EXCEPT ![t] = outcome] /\ status' = status
  BY DEF Judge
<1>13. SUFFICES ASSUME NEW s \in SurveyIds, judged'[s] # Nowhere, s \notin muddled'
                PROVE  OnlyLastSent(s)'
  BY <1>10 DEF VerdictInv
<1>14. CASE s = t
  <2>1. About(t) = {}
    BY <1>3, <1>13, <1>14 DEF Judge
  <2>2. \A o \in Verdicts \ {w} : o \notin SentAbout(s)'
    BY <1>11, <1>14, <2>1 DEF SentAbout, Sent, About, Busy
  <2>3. w \in SentAbout(s)'
    BY <1>6, <1>7, <1>14 DEF SentAbout, Sent
  <2>4. SentAbout(s)' = {w}
    BY <2>2, <2>3 DEF SentAbout
  <2>5. verdicts'[w].outcome = judged'[s]
    BY <1>1, <1>6, <1>12, <1>14 DEF VerdictsTyped
  <2> QED
    BY <2>4, <2>5 DEF OnlyLastSent
<1>15. CASE s # t
  <2>1. s \notin muddled /\ judged'[s] = judged[s]
    BY <1>1, <1>12, <1>13, <1>15 DEF Judge, VerdictsTyped
  <2>2. OnlyLastSent(s)
    BY <1>13, <2>1 DEF VerdictInv
  <2>3. w \notin SentAbout(s) /\ w \notin SentAbout(s)'
    BY <1>6, <1>15 DEF SentAbout, Sent, Judge
  <2>4. SentAbout(s)' = SentAbout(s)
    BY <1>11, <2>3 DEF SentAbout
  <2>5. CASE SentAbout(s) = {} /\ status[s] = judged[s]
    BY <1>12, <2>1, <2>4, <2>5 DEF OnlyLastSent
  <2>6. ASSUME NEW v \in Verdicts, SentAbout(s) = {v}, verdicts[v].outcome = judged[s]
        PROVE  OnlyLastSent(s)'
    <3>1. v \in Verdicts \ {w} /\ Sent(v)
      BY <2>3, <2>6 DEF SentAbout
    <3>2. verdicts'[v].outcome = judged'[s]
      BY <1>11, <2>1, <2>6, <3>1
    <3> QED
      BY <2>4, <2>6, <3>2 DEF OnlyLastSent
  <2> QED
    BY <2>2, <2>5, <2>6 DEF OnlyLastSent
<1> QED
  BY <1>14, <1>15

\* What was the last verdict is stored.
LEMMA ReviewKeeps ==
  ASSUME VerdictInv, NEW w \in Verdicts, Review(w)
  PROVE  VerdictInv'
<1> DEFINE t == verdicts[w].from.survey
<1>1. VerdictsTyped /\ verdicts[w] \in Mutation /\ verdicts[w].at = "sent"
  BY DEF VerdictInv, VerdictsTyped, Review, Busy
<1>2. t \in SurveyIds /\ verdicts[w].outcome \in Outcomes
  BY <1>1 DEF Mutation, Keys
<1>3. status' = [status EXCEPT ![t] = verdicts[w].outcome]
      /\ verdicts' = [verdicts EXCEPT ![w].at = "ok"]
      /\ judged' = judged /\ muddled' = muddled /\ view' = view
  BY DEF Review
<1>4. verdicts'[w] = [verdicts[w] EXCEPT !.at = "ok"]
      /\ verdicts'[w] \in Mutation /\ verdicts'[w].at = "ok"
  BY <1>1, <1>3 DEF VerdictsTyped, Mutation
<1>5. \A o \in Verdicts \ {w} : verdicts'[o] = verdicts[o]
  BY <1>1, <1>3 DEF VerdictsTyped
<1>6. VerdictsTyped'
  <2>1. verdicts' \in [Verdicts -> Mutation \cup {Nowhere}]
    BY <1>1, <1>3, <1>4 DEF VerdictsTyped
  <2>2. status' \in [SurveyIds -> Statuses]
    BY <1>1, <1>2, <1>3 DEF VerdictsTyped, Statuses
  <2> QED
    BY <1>1, <1>3, <2>1, <2>2 DEF VerdictsTyped
<1>7. \A s \in SurveyIds : SentAbout(s)' = SentAbout(s) \ {w}
  BY <1>4, <1>5 DEF SentAbout, Sent
<1> SUFFICES ASSUME NEW s \in SurveyIds, judged[s] # Nowhere, s \notin muddled
             PROVE  OnlyLastSent(s)'
  BY <1>3, <1>6 DEF VerdictInv
<1>8. OnlyLastSent(s)
  BY DEF VerdictInv
<1>9. CASE s = t
  <2>1. w \in SentAbout(s)
    BY <1>1, <1>9, NowhereAssumption DEF SentAbout, Sent
  <2>2. SentAbout(s) = {w} /\ verdicts[w].outcome = judged[s]
    BY <1>8, <2>1 DEF OnlyLastSent
  <2>3. SentAbout(s)' = {} /\ status'[s] = judged'[s]
    BY <1>1, <1>3, <1>7, <1>9, <2>2 DEF VerdictsTyped
  <2> QED
    BY <2>3 DEF OnlyLastSent
<1>10. CASE s # t
  <2>1. w \notin SentAbout(s)
    BY <1>10 DEF SentAbout
  <2>2. SentAbout(s)' = SentAbout(s) /\ status'[s] = status[s]
    BY <1>1, <1>2, <1>3, <1>7, <1>10, <2>1 DEF VerdictsTyped
  <2>3. \A v \in SentAbout(s) : verdicts'[v] = verdicts[v]
    BY <1>5, <2>1 DEF SentAbout
  <2> QED
    BY <1>3, <1>8, <2>2, <2>3 DEF OnlyLastSent
<1> QED
  BY <1>9, <1>10

\* The steps of the page and of its lists send nothing and store nothing.
LEMMA PageKeeps ==
  ASSUME VerdictInv,
         \/ \E s \in SurveyIds : SelectSurvey(s)
         \/ \E k \in Keys \cup {Nowhere} : Visit(k)
         \/ Focus
         \/ \E k \in Keys : ListServed(k) \/ ListAnswered(k) \/ ListFails(k)
  PROVE  VerdictInv'
<1>1. VerdictsTyped
  BY DEF VerdictInv
<1>2. \A v \in Verdicts : verdicts[v] # Nowhere => verdicts[v] \in Mutation
  BY <1>1 DEF VerdictsTyped
<1>3. ASSUME NEW k \in Keys
      PROVE  /\ Released(k) \in [Verdicts -> Mutation \cup {Nowhere}]
             /\ \A v \in Verdicts :
                   Released(k)[v] = verdicts[v] \/ (~Sent(v) /\ Released(k)[v] = Nowhere)
  BY <1>1 DEF Released, VerdictsTyped, Sent
<1>4. ASSUME NEW s \in SurveyIds, SelectSurvey(s)
      PROVE  VerdictInv'
  <2>1. view' = [view EXCEPT !.survey = s] /\ view \in Keys
    BY <1>1, <1>4 DEF SelectSurvey, VerdictsTyped
  <2>2. view' \in Keys
    BY <2>1 DEF Keys
  <2>3. ASSUME NEW v \in Verdicts, verdicts[v] \in Mutation
        PROVE  LET next == [verdicts[v] EXCEPT !.key = view'] IN
               /\ next \in Mutation /\ next.at = verdicts[v].at
               /\ next.from = verdicts[v].from /\ next.outcome = verdicts[v].outcome
    BY <2>2, <2>3 DEF Mutation
  <2>4. verdicts' = [v \in Verdicts |-> Followed(v, view')]
    BY <1>4 DEF SelectSurvey
  <2>5. \A v \in Verdicts :
          \/ verdicts'[v] = verdicts[v]
          \/ verdicts[v] # Nowhere /\ verdicts'[v] = [verdicts[v] EXCEPT !.key = view']
    BY <2>4 DEF Followed, Invalidated
  <2>6. verdicts' \in [Verdicts -> Mutation \cup {Nowhere}]
    <3>1. \A v \in Verdicts : verdicts'[v] \in Mutation \cup {Nowhere}
      BY <1>1, <1>2, <2>3, <2>5 DEF VerdictsTyped
    <3> QED
      BY <2>4, <3>1
  <2>7. \A v \in Verdicts :
          \/ verdicts'[v] = verdicts[v]
          \/ /\ verdicts[v] # Nowhere /\ verdicts'[v] # Nowhere
             /\ verdicts'[v].at = verdicts[v].at
             /\ verdicts'[v].from = verdicts[v].from
             /\ verdicts'[v].outcome = verdicts[v].outcome
    BY <1>2, <2>3, <2>5, NowhereAssumption
  <2> QED
    BY <1>4, <2>2, <2>6, <2>7, Replaced DEF SelectSurvey
<1>5. ASSUME NEW k \in Keys \cup {Nowhere}, Visit(k)
      PROVE  VerdictInv'
  <2>1. verdicts' = [v \in Verdicts |-> Left(v)] /\ view' = k
    BY <1>5 DEF Visit
  <2>2. ASSUME NEW v \in Verdicts, verdicts[v] \in Mutation
        PROVE  LET next == [verdicts[v] EXCEPT !.mine = FALSE] IN
               /\ next \in Mutation /\ next.at = verdicts[v].at
               /\ next.from = verdicts[v].from /\ next.outcome = verdicts[v].outcome
    BY <2>2 DEF Mutation
  <2>3. \A v \in Verdicts :
          \/ ~Sent(v) /\ verdicts'[v] = Nowhere
          \/ verdicts[v] # Nowhere /\ verdicts'[v] = [verdicts[v] EXCEPT !.mine = FALSE]
    BY <2>1 DEF Left, Sent
  <2>4. verdicts' \in [Verdicts -> Mutation \cup {Nowhere}]
    <3>1. \A v \in Verdicts : verdicts'[v] \in Mutation \cup {Nowhere}
      BY <1>2, <2>2, <2>3
    <3> QED
      BY <2>1, <3>1
  <2>5. \A v \in Verdicts :
          \/ /\ ~Sent(v)
             /\ verdicts'[v] # Nowhere => verdicts'[v].at # "sent"
          \/ /\ verdicts[v] # Nowhere /\ verdicts'[v] # Nowhere
             /\ verdicts'[v].at = verdicts[v].at
             /\ verdicts'[v].from = verdicts[v].from
             /\ verdicts'[v].outcome = verdicts[v].outcome
    BY <1>2, <2>2, <2>3, NowhereAssumption
  <2> QED
    BY <1>5, <2>1, <2>4, <2>5, Replaced DEF Visit
<1>6. CASE Focus
  BY <1>1, <1>6, Replaced DEF Focus, VerdictsTyped
<1>7. ASSUME NEW k \in Keys, ListServed(k)
      PROVE  VerdictInv'
  BY <1>1, <1>7, Replaced DEF ListServed, VerdictsTyped
<1>8. ASSUME NEW k \in Keys, ListAnswered(k) \/ ListFails(k)
      PROVE  VerdictInv'
  <2>1. /\ verdicts' = Released(k) /\ view' = view /\ status' = status
        /\ judged' = judged /\ muddled' = muddled
    BY <1>8 DEF ListAnswered, ListFails
  <2> QED
    BY <1>1, <1>3, <2>1, Replaced DEF VerdictsTyped
<1> QED
  BY <1>4, <1>5, <1>6, <1>7, <1>8

\* A verdict that goes wrong muddles its survey; the other ends are of no consequence.
LEMMA EndsKeep ==
  ASSUME VerdictInv, NEW w \in Verdicts,
         ReviewFails(w) \/ VerdictLost(w) \/ VerdictRefused(w) \/ VerdictAnswered(w)
  PROVE  VerdictInv'
<1>1. VerdictsTyped /\ verdicts[w] \in Mutation
  BY DEF VerdictInv, VerdictsTyped, ReviewFails, VerdictLost, VerdictRefused,
         VerdictAnswered, Busy
<1>2. ASSUME NEW end \in {"ok", "error", "listing"}
      PROVE  LET next == [verdicts[w] EXCEPT !.at = end] IN
             next \in Mutation /\ next.at = end
  BY <1>1 DEF Mutation
<1>3. ASSUME NEW end \in {"ok", "error"}, Sent(w),
             verdicts' = [verdicts EXCEPT ![w].at = end],
             view' = view, status' = status, judged' = judged,
             muddled' = muddled \cup {verdicts[w].from.survey}
      PROVE  VerdictInv'
  <2>1. verdicts'[w] = [verdicts[w] EXCEPT !.at = end]
        /\ \A o \in Verdicts \ {w} : verdicts'[o] = verdicts[o]
    BY <1>1, <1>3 DEF VerdictsTyped
  <2>2. VerdictsTyped'
    BY <1>1, <1>2, <1>3, <2>1 DEF VerdictsTyped
  <2> SUFFICES ASSUME NEW s \in SurveyIds, judged[s] # Nowhere, s \notin muddled'
               PROVE  OnlyLastSent(s)'
    BY <1>3, <2>2 DEF VerdictInv
  <2>3. OnlyLastSent(s) /\ s # verdicts[w].from.survey
    BY <1>3 DEF VerdictInv
  <2>4. w \notin SentAbout(s) /\ w \notin SentAbout(s)'
    BY <1>2, <2>1, <2>3 DEF SentAbout, Sent
  <2>5. SentAbout(s)' = SentAbout(s)
    BY <2>1, <2>4 DEF SentAbout, Sent
  <2>6. \A v \in SentAbout(s) : verdicts'[v] = verdicts[v]
    BY <2>1, <2>4 DEF SentAbout
  <2> QED
    BY <1>3, <2>3, <2>5, <2>6 DEF OnlyLastSent
<1>4. ASSUME ~Sent(w), NEW next \in [Verdicts -> Mutation \cup {Nowhere}],
             verdicts' = next, view' = view, status' = status, judged' = judged,
             muddled' = muddled,
             next[w] # Nowhere => next[w].at # "sent",
             \A o \in Verdicts \ {w} :
                next[o] = verdicts[o] \/ (~Sent(o) /\ next[o] = Nowhere)
      PROVE  VerdictInv'
  BY <1>1, <1>4, Replaced DEF VerdictsTyped
<1>5. CASE ReviewFails(w)
  BY <1>1, <1>3, <1>5, NowhereAssumption DEF ReviewFails, Sent
<1>6. CASE VerdictLost(w)
  <2>1. CASE verdicts[w].at = "sent"
    BY <1>1, <1>3, <1>6, <2>1, NowhereAssumption DEF VerdictLost, Sent
  <2>2. CASE verdicts[w].at # "sent"
    <3> DEFINE next == [verdicts EXCEPT ![w].at = "error"]
    <3>1. next \in [Verdicts -> Mutation \cup {Nowhere}] /\ next[w].at # "sent"
          /\ \A o \in Verdicts \ {w} : next[o] = verdicts[o]
      BY <1>1, <1>2 DEF VerdictsTyped
    <3>2. /\ verdicts' = next /\ view' = view /\ status' = status /\ judged' = judged
          /\ muddled' = muddled
      BY <1>6, <2>2 DEF VerdictLost
    <3> HIDE DEF next
    <3> QED
      BY <1>4, <2>2, <3>1, <3>2 DEF Sent
  <2> QED
    BY <2>1, <2>2
<1>7. CASE VerdictRefused(w)
  <2> DEFINE next == [verdicts EXCEPT ![w] = Nowhere]
  <2>1. next \in [Verdicts -> Mutation \cup {Nowhere}] /\ next[w] = Nowhere
        /\ \A o \in Verdicts \ {w} : next[o] = verdicts[o]
    BY <1>1 DEF VerdictsTyped
  <2>2. /\ verdicts' = next /\ view' = view /\ status' = status /\ judged' = judged
        /\ muddled' = muddled /\ verdicts[w].at = "error"
    BY <1>7 DEF VerdictRefused
  <2> HIDE DEF next
  <2> QED
    BY <1>4, <2>1, <2>2 DEF Sent
<1>8. CASE VerdictAnswered(w)
  <2> DEFINE k == verdicts[w].key
             table == IF Asks(k) THEN Released(k) ELSE verdicts
             end == IF view = k THEN [verdicts[w] EXCEPT !.at = "listing"] ELSE Nowhere
             next == [table EXCEPT ![w] = end]
  <2>1. table \in [Verdicts -> Mutation \cup {Nowhere}]
        /\ \A o \in Verdicts : table[o] = verdicts[o] \/ (~Sent(o) /\ table[o] = Nowhere)
    BY <1>1 DEF Released, VerdictsTyped, Sent
  <2>2. end \in Mutation \cup {Nowhere} /\ (end # Nowhere => end.at # "sent")
    BY <1>2
  <2>3. verdicts' = next
    BY <1>8 DEF VerdictAnswered, Awaited
  <2>4. /\ view' = view /\ status' = status /\ judged' = judged
        /\ muddled' = muddled /\ verdicts[w].at = "ok"
    BY <1>8 DEF VerdictAnswered
  <2> HIDE DEF table, end
  <2>5. next \in [Verdicts -> Mutation \cup {Nowhere}] /\ next[w] = end
        /\ \A o \in Verdicts \ {w} : next[o] = table[o]
    BY <2>1, <2>2
  <2> HIDE DEF next
  <2> QED
    BY <1>4, <2>1, <2>2, <2>3, <2>4, <2>5 DEF Sent
<1> QED
  BY <1>5, <1>6, <1>7, <1>8

LEMMA VerdictStep == VerdictInv /\ [ReviewNext]_reviewVars => VerdictInv'
<1> SUFFICES ASSUME VerdictInv, [ReviewNext]_reviewVars
             PROVE  VerdictInv'
  OBVIOUS
<1>1. CASE UNCHANGED reviewVars
  BY <1>1 DEF reviewVars, VerdictInv, VerdictsTyped, OnlyLastSent, SentAbout, Sent
<1>2. CASE ReviewNext
  BY <1>2, PageKeeps, JudgeKeeps, ReviewKeeps, EndsKeep DEF ReviewNext
<1> QED
  BY <1>1, <1>2

\* With nothing under way the invariant is the property.
LEMMA VerdictFollows ==
  ASSUME VerdictInv
  PROVE  LastVerdictStands
<1> SUFFICES ASSUME NEW s \in SurveyIds, About(s) = {}, judged[s] # Nowhere,
                    s \notin muddled
             PROVE  status[s] = judged[s]
  BY DEF LastVerdictStands
<1>1. SentAbout(s) = {}
  BY DEF SentAbout, Sent, About, Busy
<1>2. OnlyLastSent(s)
  BY DEF VerdictInv
<1> QED
  BY <1>1, <1>2 DEF OnlyLastSent

\* The verdict that was given last is the one the server has stored, unless a page was
\* left with one under way or a call went wrong: the buttons of ResponsesPage.tsx and
\* SurveyResponses keep a page from sending two.
THEOREM LastVerdictKept == ReviewSpec => []LastVerdictStands
<1> QED
  BY VerdictInit, VerdictStep, VerdictFollows, PTL DEF ReviewSpec

-----------------------------------------------------------------------------
(* The list on the screen.                                                 *)

Answering(v) == verdicts[v] # Nowhere /\ verdicts[v].at = "ok"
Waiting(v) == verdicts[v] # Nowhere /\ verdicts[v].at = "listing"

\* The server has a verdict on the survey of which the page does not know yet.
Unheard(s) == \E v \in Verdicts : Answering(v) /\ verdicts[v].from.survey = s

ListsTyped == lists \in [Keys -> List]

\* A mutation asks for a list of its own page, the one of the screen while it is there.
KeysFollow ==
    \A v \in Verdicts : verdicts[v] # Nowhere /\ verdicts[v].at # "listing" =>
        /\ verdicts[v].key.page = verdicts[v].from.page
        /\ verdicts[v].mine => view # Nowhere /\ view.page = verdicts[v].from.page

\* What a list holds is what is stored, or there is a reason, or it will be asked for.
DataKept ==
    \A k \in Keys : lists[k].data # Nowhere =>
        \/ lists[k].data = status[k.survey]
        \/ lists[k].why # {}
        \/ lists[k].invalid /\ view # k
        \/ lists[k].asking # "none"
        \/ Unheard(k.survey)

\* The same of an answer that is on its way.
ReplyKept ==
    \A k \in Keys : lists[k].asking = "served" =>
        \/ lists[k].reply = status[k.survey]
        \/ lists[k].late # {}
        \/ Unheard(k.survey)

ListInv == VerdictInv /\ ListsTyped /\ KeysFollow /\ DataKept /\ ReplyKept

-----------------------------------------------------------------------------

\* A list stays one when its fields are set.
LEMMA ListFields ==
  ASSUME NEW l \in List,
         NEW a \in {"none", "sent", "served"}, NEW d \in Statuses \cup {Nowhere},
         NEW r \in Statuses \cup {Nowhere}, NEW i \in BOOLEAN, NEW o \in BOOLEAN,
         NEW w \in SUBSET Reasons, NEW t \in SUBSET Reasons
  PROVE  [data |-> d, invalid |-> i, asking |-> a, reply |-> r, own |-> o,
          why |-> w, late |-> t] \in List
BY Zenon DEF List

LEMMA ShownTyped ==
  ASSUME ListsTyped, NEW k \in Keys, NEW table \in [Keys -> List], NEW next \in Shown(table, k)
  PROVE  /\ next \in [Keys -> List]
         /\ \A o \in Keys :
               /\ next[o].data = table[o].data /\ next[o].invalid = table[o].invalid
               /\ next[o].why = table[o].why /\ next[o].late = table[o].late
               /\ next[o].reply = table[o].reply /\ next[o].own = table[o].own
               /\ next[o].asking \in {table[o].asking, "sent"}
               /\ next[o].asking # table[o].asking => o = k /\ table[o].asking = "none"
         /\ next[k].asking = "none" =>
               table[k].data # Nowhere /\ ~table[k].invalid
<1>1. PICK old \in IF table[k].data = Nowhere \/ table[k].invalid THEN {TRUE} ELSE BOOLEAN :
        next = [table EXCEPT ![k].asking = IF @ = "none" /\ old THEN "sent" ELSE @]
  BY DEF Shown
<1> DEFINE a == IF table[k].asking = "none" /\ old THEN "sent" ELSE table[k].asking
<1>2. next = [table EXCEPT ![k].asking = a]
  BY <1>1
<1>3. \A o \in Keys : table[o] \in List
  OBVIOUS
<1>4. a \in {"none", "sent", "served"}
  BY <1>3 DEF List
<1>5. /\ [table[k] EXCEPT !.asking = a] \in List
      /\ [table[k] EXCEPT !.asking = a].data = table[k].data
      /\ [table[k] EXCEPT !.asking = a].invalid = table[k].invalid
      /\ [table[k] EXCEPT !.asking = a].why = table[k].why
      /\ [table[k] EXCEPT !.asking = a].late = table[k].late
      /\ [table[k] EXCEPT !.asking = a].reply = table[k].reply
      /\ [table[k] EXCEPT !.asking = a].own = table[k].own
      /\ [table[k] EXCEPT !.asking = a].asking = a
  <2> HIDE DEF a
  <2> QED
    BY <1>3, <1>4 DEF List
<1>6. next[k] = [table[k] EXCEPT !.asking = a] /\ \A o \in Keys \ {k} : next[o] = table[o]
  BY <1>2
<1>7. next \in [Keys -> List]
  <2> HIDE DEF a
  <2> QED
    BY <1>2, <1>5
<1>8. a \in {table[k].asking, "sent"} /\ (a # table[k].asking => table[k].asking = "none")
  OBVIOUS
<1>9. a = "none" => table[k].data # Nowhere /\ ~table[k].invalid
  BY <1>1
<1> HIDE DEF a
<1> QED
  BY <1>5, <1>6, <1>7, <1>8, <1>9

\* A verdict of which the page has not heard stays one.
HeardOfNone ==
    \A v \in Verdicts : Answering(v) =>
        /\ verdicts'[v] # Nowhere /\ verdicts'[v].at = "ok"
        /\ verdicts'[v].from = verdicts[v].from

LEMMA UnheardStays ==
  ASSUME HeardOfNone, NEW s \in SurveyIds, Unheard(s)
  PROVE  Unheard(s)'
BY DEF HeardOfNone, Unheard, Answering

\* Steps that store nothing, and after which a list holds what it held and still is
\* asked for if it has to be.
LEMMA ListsStay ==
  ASSUME ListInv, status' = status, HeardOfNone,
         \A k \in Keys :
            /\ lists'[k].data = lists[k].data
            /\ lists[k].why # {} => lists'[k].why # {}
            /\ \/ lists'[k].why # {}
               \/ lists[k].asking # "none" => lists'[k].asking # "none"
            /\ lists[k].invalid /\ view # k =>
                  lists'[k].asking # "none" \/ (lists'[k].invalid /\ view' # k)
            /\ lists'[k].asking = "served" =>
                  /\ lists[k].asking = "served" /\ lists'[k].reply = lists[k].reply
                  /\ lists[k].late # {} => lists'[k].late # {}
  PROVE  DataKept' /\ ReplyKept'
<1>1. \A k \in Keys : Unheard(k.survey) => Unheard(k.survey)'
  BY UnheardStays DEF Keys
<1>2. DataKept'
  <2> SUFFICES ASSUME NEW k \in Keys, lists'[k].data # Nowhere
               PROVE  \/ lists'[k].data = status'[k.survey]
                      \/ lists'[k].why # {}
                      \/ lists'[k].invalid /\ view' # k
                      \/ lists'[k].asking # "none"
                      \/ Unheard(k.survey)'
    BY DEF DataKept
  <2>1. lists[k].data = status[k.survey] \/ lists[k].why # {}
           \/ (lists[k].invalid /\ view # k) \/ lists[k].asking # "none" \/ Unheard(k.survey)
    BY DEF ListInv, DataKept
  <2> QED
    BY <1>1, <2>1
<1>3. ReplyKept'
  <2> SUFFICES ASSUME NEW k \in Keys, lists'[k].asking = "served"
               PROVE  \/ lists'[k].reply = status'[k.survey]
                      \/ lists'[k].late # {}
                      \/ Unheard(k.survey)'
    BY DEF ReplyKept
  <2>1. lists[k].reply = status[k.survey] \/ lists[k].late # {} \/ Unheard(k.survey)
    BY DEF ListInv, ReplyKept
  <2> QED
    BY <1>1, <2>1
<1> QED
  BY <1>2, <1>3

\* Selecting a survey: the mutations of the page will ask for the list of another.
LEMMA SelectKeepsLists ==
  ASSUME ListInv, VerdictInv', NEW s \in SurveyIds, SelectSurvey(s)
  PROVE  ListInv'
<1>1. VerdictsTyped /\ ListsTyped
  BY DEF ListInv, VerdictInv
<1>2. view' = [view EXCEPT !.survey = s] /\ view \in Keys /\ view.page = "responses" /\ view # Nowhere
  BY <1>1 DEF SelectSurvey, VerdictsTyped
<1>3. view' \in Keys /\ view'.page = view.page
  BY <1>2 DEF Keys
<1>4. lists' \in Shown(lists, view')
  BY DEF SelectSurvey
<1>5. ASSUME NEW v \in Verdicts, verdicts[v] \in Mutation
      PROVE  LET next == [verdicts[v] EXCEPT !.key = view'] IN
             /\ next \in Mutation /\ next.at = verdicts[v].at /\ next.key = view'
             /\ next.from = verdicts[v].from /\ next.mine = verdicts[v].mine
  BY <1>3, <1>5 DEF Mutation
<1>6. \A v \in Verdicts :
        \/ verdicts'[v] = verdicts[v]
        \/ /\ verdicts[v] # Nowhere /\ verdicts'[v] = [verdicts[v] EXCEPT !.key = view']
           /\ verdicts[v].mine
  BY DEF SelectSurvey, Followed, Invalidated
<1>7. \A v \in Verdicts : verdicts[v] # Nowhere => verdicts[v] \in Mutation
  BY <1>1 DEF VerdictsTyped
<1>8. \A v \in Verdicts :
        \/ verdicts'[v] = verdicts[v]
        \/ /\ verdicts[v] # Nowhere /\ verdicts'[v] # Nowhere
           /\ verdicts'[v].at = verdicts[v].at /\ verdicts'[v].key = view'
           /\ verdicts'[v].from = verdicts[v].from
           /\ verdicts'[v].mine = verdicts[v].mine /\ verdicts[v].mine
  <2> TAKE v \in Verdicts
  <2>1. CASE verdicts'[v] = verdicts[v]
    BY <2>1
  <2>2. CASE verdicts[v] # Nowhere /\ verdicts'[v] = [verdicts[v] EXCEPT !.key = view']
             /\ verdicts[v].mine
    BY <1>5, <1>7, <2>2, NowhereAssumption
  <2> QED
    BY <1>6, <2>1, <2>2
<1>9. KeysFollow'
  <2> SUFFICES ASSUME NEW v \in Verdicts, verdicts'[v] # Nowhere, verdicts'[v].at # "listing"
               PROVE  /\ verdicts'[v].key.page = verdicts'[v].from.page
                      /\ verdicts'[v].mine => view' # Nowhere /\ view'.page = verdicts'[v].from.page
    BY DEF KeysFollow
  <2>1. view' # Nowhere
    BY <1>3, NowhereAssumption
  <2>2. verdicts[v].key.page = verdicts[v].from.page
        /\ (verdicts[v].mine => view # Nowhere /\ view.page = verdicts[v].from.page)
    BY <1>8 DEF ListInv, KeysFollow
  <2> QED
    BY <1>3, <1>8, <2>1, <2>2
<1>10. HeardOfNone
  BY <1>8 DEF HeardOfNone, Answering
<1> HIDE DEF SelectSurvey
<1>11. lists \in [Keys -> List]
  BY <1>1 DEF ListsTyped
<1>12.   /\ lists' \in [Keys -> List]
         /\ \A o \in Keys :
               /\ lists'[o].data = lists[o].data /\ lists'[o].invalid = lists[o].invalid
               /\ lists'[o].why = lists[o].why /\ lists'[o].late = lists[o].late
               /\ lists'[o].reply = lists[o].reply
               /\ lists'[o].asking \in {lists[o].asking, "sent"}
               /\ lists'[o].asking # lists[o].asking => lists[o].asking = "none"
         /\ lists'[view'].asking = "none" => ~lists[view'].invalid
  <2>1. view' \in Keys
    BY <1>3
  <2> QED
    BY <1>1, <1>4, <1>11, <2>1, ShownTyped
<1>13. DataKept' /\ ReplyKept'
  <2>1. status' = status
    BY DEF SelectSurvey
  <2>2. ASSUME NEW k \in Keys
        PROVE  /\ lists'[k].data = lists[k].data
               /\ lists'[k].why = lists[k].why
               /\ lists[k].asking # "none" => lists'[k].asking # "none"
               /\ lists[k].invalid /\ view # k =>
                     lists'[k].asking # "none" \/ (lists'[k].invalid /\ view' # k)
               /\ lists'[k].asking = "served" =>
                     /\ lists[k].asking = "served" /\ lists'[k].reply = lists[k].reply
                     /\ lists'[k].late = lists[k].late
    <3>1. lists[k].invalid => lists'[k].invalid
      BY <1>12
    <3>2. view' = k /\ lists[k].invalid => lists'[k].asking # "none"
      BY <1>12
    <3>3. /\ lists[k].asking # "none" => lists'[k].asking # "none"
          /\ lists'[k].asking = "served" => lists[k].asking = "served"
      BY <1>12
    <3> QED
      BY <1>12, <3>1, <3>2, <3>3
  <2> QED
    BY <1>10, <2>1, <2>2, ListsStay
<1> QED
  BY <1>9, <1>12, <1>13 DEF ListInv, ListsTyped

\* Another page: nothing waits for a list any more.
LEMMA VisitKeepsLists ==
  ASSUME ListInv, VerdictInv', NEW k \in Keys \cup {Nowhere}, Visit(k)
  PROVE  ListInv'
<1> DEFINE table == [o \in Keys |-> [lists[o] EXCEPT !.own = FALSE]]
<1>1. VerdictsTyped /\ ListsTyped
  BY DEF ListInv, VerdictInv
<1>2. \A v \in Verdicts : verdicts[v] # Nowhere => verdicts[v] \in Mutation
  BY <1>1 DEF VerdictsTyped
<1>3. ASSUME NEW v \in Verdicts, verdicts[v] \in Mutation
      PROVE  LET next == [verdicts[v] EXCEPT !.mine = FALSE] IN
             /\ next \in Mutation /\ next.at = verdicts[v].at /\ next.mine = FALSE
             /\ next.from = verdicts[v].from /\ next.key = verdicts[v].key
  BY <1>3 DEF Mutation
<1>4. \A v \in Verdicts :
        \/ /\ verdicts'[v] = Nowhere
           /\ verdicts[v] # Nowhere => verdicts[v].at = "listing"
        \/ verdicts[v] # Nowhere /\ verdicts'[v] = [verdicts[v] EXCEPT !.mine = FALSE]
  BY DEF Visit, Left
<1>5. ASSUME NEW v \in Verdicts
      PROVE  \/ /\ verdicts'[v] = Nowhere
                /\ verdicts[v] # Nowhere => verdicts[v].at = "listing"
             \/ /\ verdicts[v] # Nowhere /\ verdicts'[v] # Nowhere
                /\ verdicts'[v].at = verdicts[v].at /\ verdicts'[v].key = verdicts[v].key
                /\ verdicts'[v].from = verdicts[v].from /\ verdicts'[v].mine = FALSE
  <2>1. CASE verdicts[v] # Nowhere /\ verdicts'[v] = [verdicts[v] EXCEPT !.mine = FALSE]
    BY <1>2, <1>3, <2>1, NowhereAssumption
  <2> QED
    BY <1>4, <2>1
<1>6. KeysFollow'
  BY <1>5 DEF ListInv, KeysFollow
<1>7. HeardOfNone
  BY <1>5 DEF HeardOfNone, Answering
<1>8. table \in [Keys -> List] /\ \A o \in Keys :
        /\ table[o].data = lists[o].data /\ table[o].invalid = lists[o].invalid
        /\ table[o].why = lists[o].why /\ table[o].late = lists[o].late
        /\ table[o].reply = lists[o].reply /\ table[o].asking = lists[o].asking
  <2>1. \A o \in Keys : lists[o] \in List
    BY <1>1 DEF ListsTyped
  <2> QED
    BY <2>1 DEF List
<1>9. lists' \in IF k = Nowhere THEN {table} ELSE Shown(table, k)
  BY DEF Visit
<1>10. view' = k /\ status' = status
  BY DEF Visit
<1> HIDE DEF Visit, table
<1>11. /\ lists' \in [Keys -> List]
       /\ \A o \in Keys :
             /\ lists'[o].data = lists[o].data /\ lists'[o].invalid = lists[o].invalid
             /\ lists'[o].why = lists[o].why /\ lists'[o].late = lists[o].late
             /\ lists'[o].reply = lists[o].reply
             /\ lists'[o].asking \in {lists[o].asking, "sent"}
             /\ lists'[o].asking # lists[o].asking => lists[o].asking = "none"
       /\ k # Nowhere /\ lists'[k].asking = "none" => ~lists[k].invalid
  <2>1. CASE k = Nowhere
    BY <1>8, <1>9, <2>1
  <2>2. CASE k # Nowhere
    <3>1. k \in Keys /\ lists' \in Shown(table, k)
      BY <1>9, <2>2
    <3>2. /\ lists' \in [Keys -> List]
          /\ \A o \in Keys :
                /\ lists'[o].data = table[o].data /\ lists'[o].invalid = table[o].invalid
                /\ lists'[o].why = table[o].why /\ lists'[o].late = table[o].late
                /\ lists'[o].reply = table[o].reply
                /\ lists'[o].asking \in {table[o].asking, "sent"}
                /\ lists'[o].asking # table[o].asking => table[o].asking = "none"
          /\ lists'[k].asking = "none" => ~table[k].invalid
      BY <1>1, <1>8, <3>1, ShownTyped
    <3> QED
      BY <1>8, <3>1, <3>2
  <2> QED
    BY <2>1, <2>2
<1>12. DataKept' /\ ReplyKept'
  <2>1. ASSUME NEW o \in Keys
        PROVE  /\ lists'[o].data = lists[o].data
               /\ lists'[o].why = lists[o].why
               /\ lists[o].asking # "none" => lists'[o].asking # "none"
               /\ lists[o].invalid /\ view # o =>
                     lists'[o].asking # "none" \/ (lists'[o].invalid /\ view' # o)
               /\ lists'[o].asking = "served" =>
                     /\ lists[o].asking = "served" /\ lists'[o].reply = lists[o].reply
                     /\ lists'[o].late = lists[o].late
    <3>1. lists[o].invalid => lists'[o].invalid
      BY <1>11
    <3>2. view' = o /\ lists[o].invalid => lists'[o].asking # "none"
      BY <1>10, <1>11, NowhereAssumption
    <3>3. /\ lists[o].asking # "none" => lists'[o].asking # "none"
          /\ lists'[o].asking = "served" => lists[o].asking = "served"
      BY <1>11
    <3> QED
      BY <1>11, <3>1, <3>2, <3>3
  <2> QED
    BY <1>7, <1>10, <2>1, ListsStay
<1> QED
  BY <1>6, <1>11, <1>12 DEF ListInv, ListsTyped

\* A list is asked for, and read from the table.
LEMMA AskKeepsLists ==
  ASSUME ListInv, VerdictInv', Focus \/ \E k \in Keys : ListServed(k)
  PROVE  ListInv'
<1>1. VerdictsTyped /\ lists \in [Keys -> List] /\ \A k \in Keys : lists[k] \in List
  BY DEF ListInv, VerdictInv, ListsTyped
<1>2. verdicts' = verdicts /\ view' = view /\ status' = status
  BY DEF Focus, ListServed
<1>3. KeysFollow' /\ HeardOfNone
  BY <1>2 DEF ListInv, KeysFollow, HeardOfNone, Answering
<1>4. CASE Focus
  <2>1. view \in Keys
    BY <1>1, <1>4 DEF Focus, VerdictsTyped
  <2>2. LET next == [lists[view] EXCEPT !.asking = "sent"] IN
        /\ next \in List
        /\ next.data = lists[view].data /\ next.why = lists[view].why
        /\ next.invalid = lists[view].invalid /\ next.asking = "sent"
    BY <1>1, <2>1 DEF List
  <2>3. lists' = [lists EXCEPT ![view] = [lists[view] EXCEPT !.asking = "sent"]]
    BY <1>4 DEF Focus
  <2>4. lists' \in [Keys -> List] /\ \A k \in Keys \ {view} : lists'[k] = lists[k]
    BY <1>1, <2>1, <2>2, <2>3
  <2>5. /\ lists'[view].data = lists[view].data /\ lists'[view].why = lists[view].why
        /\ lists'[view].invalid = lists[view].invalid /\ lists'[view].asking = "sent"
    BY <1>1, <2>1, <2>2, <2>3
  <2>6. DataKept' /\ ReplyKept'
    BY <1>2, <1>3, <2>4, <2>5, ListsStay
  <2> QED
    BY <1>3, <2>4, <2>6 DEF ListInv, ListsTyped
<1>5. ASSUME NEW k \in Keys, ListServed(k)
      PROVE  ListInv'
  <2> DEFINE r == status[k.survey]
  <2>1. r \in Statuses
    BY <1>1 DEF VerdictsTyped, Keys
  <2>2. lists' = [lists EXCEPT ![k] = [lists[k] EXCEPT !.asking = "served", !.reply = r,
                                                       !.late = {}]]
    BY <1>5 DEF ListServed
  <2>3. LET next == [lists[k] EXCEPT !.asking = "served", !.reply = r, !.late = {}] IN
        next \in List /\ next.asking = "served" /\ next.reply = r
    <3> HIDE DEF r
    <3> QED
      BY <1>1, <2>1 DEF List
  <2>4. lists' \in [Keys -> List] /\ \A o \in Keys \ {k} : lists'[o] = lists[o]
    BY <1>1, <2>2, <2>3
  <2>5. lists'[k].asking = "served" /\ lists'[k].reply = status'[k.survey]
    BY <1>1, <1>2, <2>2, <2>3
  <2>6. \A s \in SurveyIds : Unheard(s)' = Unheard(s)
    BY <1>2 DEF Unheard, Answering
  <2>7. DataKept'
    BY <1>2, <2>4, <2>5, <2>6 DEF DataKept, ListInv, Keys
  <2>8. ReplyKept'
    BY <1>2, <2>4, <2>5, <2>6 DEF ReplyKept, ListInv, Keys
  <2> QED
    BY <1>3, <2>4, <2>7, <2>8 DEF ListInv, ListsTyped
<1> QED
  BY <1>4, <1>5

\* What has waited for a list is over; everything else stays.
LEMMA ReleasedStays ==
  ASSUME ListInv, NEW k \in Keys, verdicts' = Released(k), view' = view
  PROVE  KeysFollow' /\ HeardOfNone /\ \A s \in SurveyIds : Unheard(s)' = Unheard(s)
<1>1. \A v \in Verdicts :
        \/ verdicts'[v] = verdicts[v]
        \/ /\ verdicts'[v] = Nowhere
           /\ verdicts[v] # Nowhere /\ verdicts[v].at = "listing"
  BY DEF Released
<1>2. KeysFollow'
  BY <1>1 DEF ListInv, KeysFollow
<1>3. \A v \in Verdicts :
        /\ Answering(v)' = Answering(v)
        /\ Answering(v) => verdicts'[v] = verdicts[v]
  BY <1>1 DEF Answering
<1>4. HeardOfNone
  BY <1>3 DEF HeardOfNone, Answering
<1>5. \A s \in SurveyIds : Unheard(s)' = Unheard(s)
  BY <1>3 DEF Unheard
<1> QED
  BY <1>2, <1>4, <1>5

\* A list comes, or does not.
LEMMA AnswerKeepsLists ==
  ASSUME ListInv, VerdictInv', NEW k \in Keys, ListAnswered(k) \/ ListFails(k)
  PROVE  ListInv'
<1>1. lists \in [Keys -> List] /\ \A o \in Keys : lists[o] \in List
  BY DEF ListInv, ListsTyped
<1>2. verdicts' = Released(k) /\ view' = view /\ status' = status
  BY DEF ListAnswered, ListFails
<1>3. KeysFollow' /\ HeardOfNone /\ \A s \in SurveyIds : Unheard(s)' = Unheard(s)
  BY <1>2, ReleasedStays
<1>4. CASE ListAnswered(k)
  <2> DEFINE next == [lists[k] EXCEPT !.asking = "none", !.data = lists[k].reply,
                                      !.reply = Nowhere, !.invalid = FALSE, !.own = FALSE,
                                      !.why = lists[k].late, !.late = {}]
  <2>1. /\ next \in List /\ next.asking = "none" /\ next.data = lists[k].reply
        /\ next.why = lists[k].late
    BY <1>1 DEF List
  <2>2. lists' = [lists EXCEPT ![k] = next]
    BY <1>4 DEF ListAnswered
  <2>3. lists[k].asking = "served"
    BY <1>4 DEF ListAnswered
  <2> HIDE DEF next
  <2>4. lists' \in [Keys -> List] /\ \A o \in Keys \ {k} : lists'[o] = lists[o]
    BY <1>1, <2>1, <2>2
  <2>5. lists'[k].asking = "none" /\ lists'[k].data = lists[k].reply
        /\ lists'[k].why = lists[k].late
    BY <1>1, <2>1, <2>2
  <2>6. \/ lists'[k].data = status'[k.survey]
        \/ lists'[k].why # {}
        \/ Unheard(k.survey)'
    BY <1>2, <1>3, <2>3, <2>5 DEF ListInv, ReplyKept, Keys
  <2>7. DataKept'
    <3> SUFFICES ASSUME NEW o \in Keys, lists'[o].data # Nowhere
                 PROVE  \/ lists'[o].data = status'[o.survey]
                        \/ lists'[o].why # {}
                        \/ lists'[o].invalid /\ view' # o
                        \/ lists'[o].asking # "none"
                        \/ Unheard(o.survey)'
      BY DEF DataKept
    <3>1. CASE o = k
      BY <2>6, <3>1
    <3>2. CASE o # k
      BY <1>2, <1>3, <2>4, <3>2 DEF ListInv, DataKept, Keys
    <3> QED
      BY <3>1, <3>2
  <2>8. ReplyKept'
    BY <1>2, <1>3, <2>4, <2>5 DEF ListInv, ReplyKept, Keys
  <2> QED
    BY <1>3, <2>4, <2>7, <2>8 DEF ListInv, ListsTyped
<1>5. CASE ListFails(k)
  <2> DEFINE why == lists[k].why \cup {"failed"}
             next == [lists[k] EXCEPT !.asking = "none", !.reply = Nowhere, !.own = FALSE,
                                      !.why = why, !.late = {}]
  <2>1. why \in SUBSET Reasons /\ why # {}
    BY <1>1 DEF List, Reasons
  <2>2. lists' = [lists EXCEPT ![k] = next]
    BY <1>5 DEF ListFails
  <2> HIDE DEF why
  <2>3. /\ next \in List /\ next.asking = "none" /\ next.data = lists[k].data
        /\ next.why = why /\ next.invalid = lists[k].invalid
    BY <1>1, <2>1 DEF List
  <2> HIDE DEF next
  <2>4. lists' \in [Keys -> List] /\ \A o \in Keys \ {k} : lists'[o] = lists[o]
    BY <1>1, <2>2, <2>3
  <2>5. /\ lists'[k].asking = "none" /\ lists'[k].data = lists[k].data
        /\ lists'[k].why # {} /\ lists'[k].invalid = lists[k].invalid
    BY <1>1, <2>1, <2>2, <2>3
  <2>6. ASSUME NEW o \in Keys
        PROVE  /\ lists'[o].data = lists[o].data
               /\ lists[o].why # {} => lists'[o].why # {}
               /\ \/ lists'[o].why # {}
                  \/ lists[o].asking # "none" => lists'[o].asking # "none"
               /\ lists[o].invalid /\ view # o =>
                     lists'[o].asking # "none" \/ (lists'[o].invalid /\ view' # o)
               /\ lists'[o].asking = "served" =>
                     /\ lists[o].asking = "served" /\ lists'[o].reply = lists[o].reply
                     /\ lists[o].late # {} => lists'[o].late # {}
    <3>1. CASE o = k
      BY <1>2, <2>5, <3>1
    <3>2. CASE o # k
      BY <1>2, <2>4, <3>2
    <3> QED
      BY <3>1, <3>2
  <2>7. DataKept' /\ ReplyKept'
    BY <1>2, <1>3, <2>6, ListsStay
  <2> QED
    BY <1>3, <2>4, <2>7 DEF ListInv, ListsTyped
<1> QED
  BY <1>4, <1>5

\* Giving a verdict, and the ends that leave the lists alone.
LEMMA JudgeKeepsLists ==
  ASSUME ListInv, VerdictInv', NEW w \in Verdicts, NEW outcome \in Outcomes, Judge(w, outcome)
  PROVE  ListInv'
<1> DEFINE strangers == {o \in About(view.survey) : ~verdicts[o].mine}
<1>1. VerdictsTyped /\ \A o \in Verdicts : verdicts[o] # Nowhere => verdicts[o] \in Mutation
  BY DEF ListInv, VerdictInv, VerdictsTyped
<1>2. lists' = lists /\ view' = view /\ status' = status /\ view # Nowhere
      /\ verdicts[w] = Nowhere
  BY DEF Judge
<1>3. PICK b \in BOOLEAN :
        verdicts' = [o \in Verdicts |->
            IF o \in strangers THEN [verdicts[o] EXCEPT !.blind = TRUE]
            ELSE IF o # w THEN verdicts[o] ELSE
            [from |-> view, outcome |-> outcome, at |-> "sent", key |-> Invalidated(view),
             mine |-> TRUE, blind |-> b]]
  BY DEF Judge
<1>4. w \notin strangers
  BY <1>2 DEF About, Busy
<1>5. verdicts'[w] = [from |-> view, outcome |-> outcome, at |-> "sent", key |-> view,
                      mine |-> TRUE, blind |-> b]
  BY <1>3, <1>4 DEF Invalidated
<1>6. \A o \in Verdicts \ {w} :
        \/ verdicts'[o] = verdicts[o]
        \/ /\ verdicts[o] # Nowhere /\ verdicts[o] \in Mutation
           /\ verdicts'[o] = [verdicts[o] EXCEPT !.blind = TRUE]
  BY <1>1, <1>3 DEF About, Busy
<1> HIDE DEF strangers
<1>7. ASSUME NEW v \in Verdicts, verdicts[v] \in Mutation
      PROVE  LET next == [verdicts[v] EXCEPT !.blind = TRUE] IN
             /\ next \in Mutation /\ next.at = verdicts[v].at /\ next.mine = verdicts[v].mine
             /\ next.from = verdicts[v].from /\ next.key = verdicts[v].key
  BY <1>7 DEF Mutation
<1>8. ASSUME NEW o \in Verdicts \ {w}
      PROVE  \/ verdicts'[o] = verdicts[o]
             \/ /\ verdicts[o] # Nowhere /\ verdicts'[o] # Nowhere
                /\ verdicts'[o].at = verdicts[o].at /\ verdicts'[o].key = verdicts[o].key
                /\ verdicts'[o].from = verdicts[o].from /\ verdicts'[o].mine = verdicts[o].mine
  <2>1. CASE /\ verdicts[o] # Nowhere /\ verdicts[o] \in Mutation
             /\ verdicts'[o] = [verdicts[o] EXCEPT !.blind = TRUE]
    <3>1. verdicts'[o] \in Mutation
          /\ verdicts'[o].at = verdicts[o].at /\ verdicts'[o].key = verdicts[o].key
          /\ verdicts'[o].from = verdicts[o].from /\ verdicts'[o].mine = verdicts[o].mine
      BY <1>7, <2>1
    <3> QED
      BY <2>1, <3>1, NowhereAssumption
  <2> QED
    BY <1>6, <2>1
<1>9. KeysFollow'
  <2> SUFFICES ASSUME NEW v \in Verdicts, verdicts'[v] # Nowhere, verdicts'[v].at # "listing"
               PROVE  /\ verdicts'[v].key.page = verdicts'[v].from.page
                      /\ verdicts'[v].mine => view' # Nowhere /\ view'.page = verdicts'[v].from.page
    BY DEF KeysFollow
  <2>1. CASE v = w
    BY <1>2, <1>5, <2>1
  <2>2. CASE v # w
    BY <1>2, <1>8, <2>2 DEF ListInv, KeysFollow
  <2> QED
    BY <2>1, <2>2
<1>10. HeardOfNone
  BY <1>2, <1>8 DEF HeardOfNone, Answering
<1>11. DataKept' /\ ReplyKept'
  BY <1>2, <1>10, ListsStay
<1> QED
  BY <1>2, <1>9, <1>11 DEF ListInv, ListsTyped

\* The mutation moves on: where it goes, and that the others stay.
LEMMA VerdictMovesOn ==
  ASSUME ListInv, NEW w \in Verdicts, verdicts[w] # Nowhere,
         NEW end \in {"ok", "error"}, verdicts[w].at \in {"sent", "ok"},
         verdicts' = [verdicts EXCEPT ![w].at = end], view' = view
  PROVE  /\ KeysFollow'
         /\ verdicts'[w] # Nowhere /\ verdicts'[w].at = end
         /\ verdicts'[w].from = verdicts[w].from
         /\ \A o \in Verdicts \ {w} : verdicts'[o] = verdicts[o]
<1>1. VerdictsTyped /\ verdicts[w] \in Mutation
  BY DEF ListInv, VerdictInv, VerdictsTyped
<1>2. LET next == [verdicts[w] EXCEPT !.at = end] IN
      /\ next \in Mutation /\ next.at = end /\ next.mine = verdicts[w].mine
      /\ next.from = verdicts[w].from /\ next.key = verdicts[w].key
  BY <1>1 DEF Mutation
<1>3. verdicts'[w] = [verdicts[w] EXCEPT !.at = end]
      /\ \A o \in Verdicts \ {w} : verdicts'[o] = verdicts[o]
  BY <1>1 DEF VerdictsTyped
<1>4. /\ verdicts'[w] # Nowhere /\ verdicts'[w].at = end
      /\ verdicts'[w].from = verdicts[w].from /\ verdicts'[w].key = verdicts[w].key
      /\ verdicts'[w].mine = verdicts[w].mine
  BY <1>2, <1>3, NowhereAssumption
<1>5. KeysFollow'
  <2> SUFFICES ASSUME NEW v \in Verdicts, verdicts'[v] # Nowhere, verdicts'[v].at # "listing"
               PROVE  /\ verdicts'[v].key.page = verdicts'[v].from.page
                      /\ verdicts'[v].mine => view' # Nowhere /\ view'.page = verdicts'[v].from.page
    BY DEF KeysFollow
  <2>1. CASE v = w
    BY <1>4, <2>1 DEF ListInv, KeysFollow
  <2>2. CASE v # w
    BY <1>3, <2>2 DEF ListInv, KeysFollow
  <2> QED
    BY <2>1, <2>2
<1> QED
  BY <1>3, <1>4, <1>5

\* The server stores a verdict: until its answer comes no list need know of it.
LEMMA ReviewKeepsLists ==
  ASSUME ListInv, VerdictInv', NEW w \in Verdicts, Review(w)
  PROVE  ListInv'
<1> DEFINE s == verdicts[w].from.survey
<1>1. VerdictsTyped /\ verdicts[w] # Nowhere /\ verdicts[w].at = "sent"
      /\ verdicts[w] \in Mutation
  BY DEF Review, Busy, ListInv, VerdictInv, VerdictsTyped
<1>2. lists' = lists /\ view' = view /\ verdicts' = [verdicts EXCEPT ![w].at = "ok"]
      /\ status' = [status EXCEPT ![s] = verdicts[w].outcome]
  BY DEF Review
<1>3. /\ KeysFollow'
      /\ verdicts'[w] # Nowhere /\ verdicts'[w].at = "ok"
      /\ verdicts'[w].from = verdicts[w].from
      /\ \A o \in Verdicts \ {w} : verdicts'[o] = verdicts[o]
  BY <1>1, <1>2, VerdictMovesOn
<1>4. HeardOfNone
  BY <1>1, <1>3 DEF HeardOfNone, Answering
<1>5. \A t \in SurveyIds : t = s => Unheard(t)'
  BY <1>3 DEF Unheard, Answering
<1>6. ASSUME NEW k \in Keys
      PROVE  \/ Unheard(k.survey)'
             \/ /\ status'[k.survey] = status[k.survey]
                /\ ~Unheard(k.survey)
  <2>1. k.survey \in SurveyIds
    BY DEF Keys
  <2>2. CASE k.survey = s
    BY <1>5, <2>1, <2>2
  <2>3. CASE k.survey # s
    <3>1. status'[k.survey] = status[k.survey]
      BY <1>1, <1>2, <2>1, <2>3 DEF VerdictsTyped
    <3>2. Unheard(k.survey) => Unheard(k.survey)'
      BY <1>4, <2>1, UnheardStays
    <3> QED
      BY <3>1, <3>2
  <2> QED
    BY <2>2, <2>3
<1>7. DataKept'
  <2> SUFFICES ASSUME NEW k \in Keys, lists'[k].data # Nowhere, ~Unheard(k.survey)'
               PROVE  \/ lists'[k].data = status'[k.survey]
                      \/ lists'[k].why # {}
                      \/ lists'[k].invalid /\ view' # k
                      \/ lists'[k].asking # "none"
    BY DEF DataKept
  <2> QED
    BY <1>2, <1>6 DEF ListInv, DataKept
<1>8. ReplyKept'
  <2> SUFFICES ASSUME NEW k \in Keys, lists'[k].asking = "served", ~Unheard(k.survey)'
               PROVE  lists'[k].reply = status'[k.survey] \/ lists'[k].late # {}
    BY DEF ReplyKept
  <2> QED
    BY <1>2, <1>6 DEF ListInv, ReplyKept
<1> QED
  BY <1>2, <1>3, <1>7, <1>8 DEF ListInv, ListsTyped

\* A verdict fails on the server, or its error has come.
LEMMA FailsKeepsLists ==
  ASSUME ListInv, VerdictInv', NEW w \in Verdicts, ReviewFails(w) \/ VerdictRefused(w)
  PROVE  ListInv'
<1>1. lists' = lists /\ view' = view /\ status' = status /\ verdicts[w] # Nowhere
      /\ verdicts \in [Verdicts -> Mutation \cup {Nowhere}]
  BY DEF ReviewFails, VerdictRefused, Busy, ListInv, VerdictInv, VerdictsTyped
<1>2. KeysFollow' /\ HeardOfNone
  <2>1. CASE ReviewFails(w)
    <3>1. verdicts' = [verdicts EXCEPT ![w].at = "ok"] /\ verdicts[w].at = "sent"
      BY <2>1 DEF ReviewFails
    <3>2. /\ KeysFollow'
          /\ verdicts'[w] # Nowhere /\ verdicts'[w].at = "ok"
          /\ verdicts'[w].from = verdicts[w].from
          /\ \A o \in Verdicts \ {w} : verdicts'[o] = verdicts[o]
      BY <1>1, <3>1, VerdictMovesOn
    <3> QED
      BY <3>2 DEF HeardOfNone, Answering
  <2>2. CASE VerdictRefused(w)
    <3>1. verdicts'[w] = Nowhere /\ verdicts[w].at = "error"
          /\ \A o \in Verdicts \ {w} : verdicts'[o] = verdicts[o]
      BY <1>1, <2>2 DEF VerdictRefused
    <3>2. KeysFollow'
      BY <1>1, <3>1 DEF ListInv, KeysFollow
    <3> QED
      BY <3>1, <3>2 DEF HeardOfNone, Answering
  <2> QED
    BY <2>1, <2>2
<1>3. DataKept' /\ ReplyKept'
  BY <1>1, <1>2, ListsStay
<1> QED
  BY <1>1, <1>2, <1>3 DEF ListInv, ListsTyped

\* A verdict, or its answer, is lost: that is the reason from now on.
LEMMA LostKeepsLists ==
  ASSUME ListInv, VerdictInv', NEW w \in Verdicts, VerdictLost(w)
  PROVE  ListInv'
<1> DEFINE s == verdicts[w].from.survey
<1>1. VerdictsTyped /\ verdicts[w] # Nowhere /\ verdicts[w].at \in {"sent", "ok"}
      /\ \A k \in Keys : lists[k] \in List
  BY DEF VerdictLost, Busy, ListInv, VerdictInv, ListsTyped
<1>2. view' = view /\ status' = status /\ verdicts' = [verdicts EXCEPT ![w].at = "error"]
      /\ lists' = [k \in Keys |->
            IF k.survey = s
               THEN [lists[k] EXCEPT !.why = @ \cup {"failed"}, !.late = @ \cup {"failed"}]
               ELSE lists[k]]
  BY DEF VerdictLost
<1>3. /\ KeysFollow'
      /\ verdicts'[w].from = verdicts[w].from
      /\ \A o \in Verdicts \ {w} : verdicts'[o] = verdicts[o]
  BY <1>1, <1>2, VerdictMovesOn
<1>4. ASSUME NEW k \in Keys
      PROVE  LET failed == [lists[k] EXCEPT !.why = lists[k].why \cup {"failed"},
                                            !.late = lists[k].late \cup {"failed"}] IN
             /\ failed \in List /\ failed.why # {} /\ failed.late # {}
             /\ failed.data = lists[k].data /\ failed.asking = lists[k].asking
  <2> DEFINE y == lists[k].why \cup {"failed"}
             l == lists[k].late \cup {"failed"}
  <2>1. y \in SUBSET Reasons /\ l \in SUBSET Reasons /\ y # {} /\ l # {}
    BY <1>1 DEF List, Reasons
  <2> HIDE DEF y, l
  <2>2. LET failed == [lists[k] EXCEPT !.why = y, !.late = l] IN
        /\ failed \in List /\ failed.why = y /\ failed.late = l
        /\ failed.data = lists[k].data /\ failed.asking = lists[k].asking
    BY <1>1, <2>1 DEF List
  <2> QED
    BY <2>1, <2>2 DEF y, l
<1>5. ASSUME NEW k \in Keys
      PROVE  /\ lists'[k] \in List
             /\ \/ lists'[k].why # {} /\ lists'[k].late # {}
                \/ /\ lists'[k] = lists[k] /\ status'[k.survey] = status[k.survey]
                   /\ Unheard(k.survey) => Unheard(k.survey)'
  <2>1. CASE k.survey = s
    BY <1>2, <1>4, <2>1
  <2>2. CASE k.survey # s
    <3>1. lists'[k] = lists[k]
      BY <1>2, <2>2
    <3>2. Unheard(k.survey) => Unheard(k.survey)'
      BY <1>3, <2>2 DEF Unheard, Answering
    <3> QED
      BY <1>1, <1>2, <3>1, <3>2
  <2> QED
    BY <2>1, <2>2
<1>6. ListsTyped'
  BY <1>2, <1>5 DEF ListsTyped
<1>7. DataKept'
  <2> SUFFICES ASSUME NEW k \in Keys, lists'[k].data # Nowhere, lists'[k].why = {}
               PROVE  \/ lists'[k].data = status'[k.survey]
                      \/ lists'[k].invalid /\ view' # k
                      \/ lists'[k].asking # "none"
                      \/ Unheard(k.survey)'
    BY DEF DataKept
  <2> QED
    BY <1>2, <1>5 DEF ListInv, DataKept
<1>8. ReplyKept'
  <2> SUFFICES ASSUME NEW k \in Keys, lists'[k].asking = "served", lists'[k].late = {}
               PROVE  lists'[k].reply = status'[k.survey] \/ Unheard(k.survey)'
    BY DEF ReplyKept
  <2> QED
    BY <1>2, <1>5 DEF ListInv, ReplyKept
<1> QED
  BY <1>3, <1>6, <1>7, <1>8 DEF ListInv

\* The answer of a verdict: the page asks for the list it shows, or marks another; and
\* whichever list of the survey is left as it was has a reason.
LEMMA HeardKeepsLists ==
  ASSUME ListInv, VerdictInv', NEW w \in Verdicts, VerdictAnswered(w)
  PROVE  ListInv'
<1> DEFINE c == verdicts[w]
           s == c.from.survey
<1>1. VerdictsTyped /\ c \in Mutation /\ c.at = "ok" /\ c # Nowhere
      /\ lists \in [Keys -> List] /\ \A k \in Keys : lists[k] \in List
  BY DEF VerdictAnswered, Busy, ListInv, VerdictInv, VerdictsTyped, ListsTyped
<1>2. view' = view /\ status' = status
      /\ lists' = [k \in Keys |-> AfterVerdict(k, c)] /\ verdicts' = Awaited(w)
  BY DEF VerdictAnswered
<1>3. c.key \in Keys /\ c.from \in Keys /\ c.mine \in BOOLEAN /\ c.key.page = c.from.page
  BY <1>1 DEF Mutation, ListInv, KeysFollow
<1>4. \A o \in Verdicts \ {w} :
        \/ verdicts'[o] = verdicts[o]
        \/ /\ verdicts'[o] = Nowhere
           /\ verdicts[o] # Nowhere /\ verdicts[o].at = "listing"
  BY <1>1, <1>2 DEF Awaited, Released, VerdictsTyped
<1>5. verdicts'[w] # Nowhere => verdicts'[w].at = "listing"
  <2>1. [c EXCEPT !.at = "listing"].at = "listing"
    BY <1>1 DEF Mutation
  <2>2. verdicts'[w] = IF view = c.key THEN [c EXCEPT !.at = "listing"] ELSE Nowhere
    BY <1>1, <1>2 DEF Awaited, Released, VerdictsTyped
  <2> QED
    BY <2>1, <2>2
<1>6. KeysFollow'
  BY <1>2, <1>4, <1>5 DEF ListInv, KeysFollow
<1>7. ASSUME NEW k \in Keys, k.survey # s, Unheard(k.survey)
      PROVE  Unheard(k.survey)'
  BY <1>4, <1>7 DEF Unheard, Answering
<1> DEFINE Asked(k) == [lists[k] EXCEPT !.asking = "sent", !.reply = Nowhere, !.own = c.mine,
                                        !.late = {}]
           Marked(k) == [lists[k] EXCEPT !.invalid = lists[k].invalid \/ k = c.key,
                                         !.why = lists[k].why \cup Excuse(k, c),
                                         !.late = lists[k].late \cup Excuse(k, c)]
<1>8. \A k \in Keys :
        lists'[k] = IF k = c.key /\ Asks(k) THEN Asked(k) ELSE Marked(k)
  BY <1>2 DEF AfterVerdict
<1>9. ASSUME NEW k \in Keys
      PROVE  /\ Asked(k) \in List /\ Asked(k).asking = "sent"
  BY <1>1, <1>3 DEF List
<1>10. ASSUME NEW k \in Keys
       PROVE  /\ Marked(k) \in List
              /\ Marked(k).data = lists[k].data /\ Marked(k).asking = lists[k].asking
              /\ Marked(k).reply = lists[k].reply
              /\ Marked(k).invalid <=> lists[k].invalid \/ k = c.key
              /\ Marked(k).why = lists[k].why \cup Excuse(k, c)
              /\ Marked(k).late = lists[k].late \cup Excuse(k, c)
  <2> DEFINE x == Excuse(k, c)
             i == lists[k].invalid \/ k = c.key
             y == lists[k].why \cup x
             l == lists[k].late \cup x
  <2>1. x \in SUBSET Reasons
    BY DEF Excuse, Reasons
  <2>2. y \in SUBSET Reasons /\ l \in SUBSET Reasons
    <3> HIDE DEF x
    <3> QED
      BY <1>1, <2>1 DEF List
  <2>3. i \in BOOLEAN
    OBVIOUS
  <2> HIDE DEF i, y, l
  <2>4. LET next == [lists[k] EXCEPT !.invalid = i, !.why = y, !.late = l] IN
        /\ next \in List
        /\ next.data = lists[k].data /\ next.asking = lists[k].asking
        /\ next.reply = lists[k].reply
        /\ next.invalid = i /\ next.why = y /\ next.late = l
    BY <1>1, <2>2, <2>3 DEF List
  <2> QED
    BY <2>4 DEF i, y, l
<1> HIDE DEF Asked, Marked
<1>11. ListsTyped'
  <2>1. \A k \in Keys : lists'[k] \in List
    BY <1>8, <1>9, <1>10
  <2> QED
    BY <1>2, <2>1 DEF ListsTyped
\* A list of the survey without an excuse is the one that is asked for, or not shown.
<1>12. ASSUME NEW k \in Keys, k.survey = s, ~(k = c.key /\ Asks(k)), Excuse(k, c) = {}
       PROVE  k = c.key /\ view # k /\ lists[k].asking = "none"
  <2>1. k = c.from /\ c.key.survey = s /\ lists[k].asking = "none"
    BY <1>12 DEF Excuse
  <2>2. k = c.key
    BY <1>3, <2>1 DEF Keys
  <2> QED
    BY <1>12, <2>1, <2>2 DEF Asks
<1>13. DataKept'
  <2> SUFFICES ASSUME NEW k \in Keys, lists'[k].data # Nowhere
               PROVE  \/ lists'[k].data = status'[k.survey]
                      \/ lists'[k].why # {}
                      \/ lists'[k].invalid /\ view' # k
                      \/ lists'[k].asking # "none"
                      \/ Unheard(k.survey)'
    BY DEF DataKept
  <2>1. CASE k = c.key /\ Asks(k)
    BY <1>8, <1>9, <2>1
  <2>2. CASE ~(k = c.key /\ Asks(k)) /\ k.survey = s
    <3>1. lists'[k] = Marked(k)
      BY <1>8, <2>2
    <3>2. CASE Excuse(k, c) # {}
      BY <1>10, <3>1, <3>2
    <3>3. CASE Excuse(k, c) = {}
      BY <1>2, <1>10, <1>12, <2>2, <3>1, <3>3
    <3> QED
      BY <3>2, <3>3
  <2>3. CASE ~(k = c.key /\ Asks(k)) /\ k.survey # s
    <3>1. lists'[k] = Marked(k)
      BY <1>8, <2>3
    <3>2. \/ lists[k].data = status[k.survey]
          \/ lists[k].why # {}
          \/ lists[k].invalid /\ view # k
          \/ lists[k].asking # "none"
          \/ Unheard(k.survey)
      BY <1>10, <3>1 DEF ListInv, DataKept
    <3>3. Unheard(k.survey) => Unheard(k.survey)'
      BY <1>7, <2>3
    <3> QED
      BY <1>2, <1>10, <3>1, <3>2, <3>3
  <2> QED
    BY <2>1, <2>2, <2>3
<1>14. ReplyKept'
  <2> SUFFICES ASSUME NEW k \in Keys, lists'[k].asking = "served"
               PROVE  \/ lists'[k].reply = status'[k.survey]
                      \/ lists'[k].late # {}
                      \/ Unheard(k.survey)'
    BY DEF ReplyKept
  <2>1. CASE k = c.key /\ Asks(k)
    BY <1>8, <1>9, <2>1
  <2>2. CASE ~(k = c.key /\ Asks(k)) /\ k.survey = s
    <3>1. lists'[k] = Marked(k)
      BY <1>8, <2>2
    <3>2. Excuse(k, c) # {}
      BY <1>10, <1>12, <2>2, <3>1
    <3> QED
      BY <1>10, <3>1, <3>2
  <2>3. CASE ~(k = c.key /\ Asks(k)) /\ k.survey # s
    <3>1. lists'[k] = Marked(k)
      BY <1>8, <2>3
    <3>2. \/ lists[k].reply = status[k.survey]
          \/ lists[k].late # {}
          \/ Unheard(k.survey)
      BY <1>10, <3>1 DEF ListInv, ReplyKept
    <3>3. Unheard(k.survey) => Unheard(k.survey)'
      BY <1>7, <2>3
    <3> QED
      BY <1>2, <1>10, <3>1, <3>2, <3>3
  <2> QED
    BY <2>1, <2>2, <2>3
<1> QED
  BY <1>6, <1>11, <1>13, <1>14 DEF ListInv

LEMMA ListStep == ListInv /\ [ReviewNext]_reviewVars => ListInv'
<1> SUFFICES ASSUME ListInv, [ReviewNext]_reviewVars
             PROVE  ListInv'
  OBVIOUS
<1>1. VerdictInv'
  BY VerdictStep DEF ListInv
<1>2. CASE UNCHANGED reviewVars
  BY <1>1, <1>2 DEF reviewVars, ListInv, ListsTyped, KeysFollow, DataKept, ReplyKept,
                    Unheard, Answering
<1>3. CASE ReviewNext
  BY <1>1, <1>3, SelectKeepsLists, VisitKeepsLists, AskKeepsLists, AnswerKeepsLists,
     JudgeKeepsLists, ReviewKeepsLists, FailsKeepsLists, LostKeepsLists, HeardKeepsLists
     DEF ReviewNext
<1> QED
  BY <1>2, <1>3

LEMMA ListInit == ReviewInit => ListInv
<1> SUFFICES ASSUME ReviewInit
             PROVE  ListInv
  OBVIOUS
<1>1. VerdictInv
  BY VerdictInit
<1>2. [data |-> Nowhere, invalid |-> FALSE, asking |-> "none", reply |-> Nowhere,
       own |-> FALSE, why |-> {}, late |-> {}] \in List
  BY Zenon DEF List, Reasons
<1>3. ListsTyped
  BY <1>2 DEF ReviewInit, ListsTyped
<1>4. KeysFollow /\ DataKept /\ ReplyKept
  BY DEF ReviewInit, KeysFollow, DataKept, ReplyKept
<1> QED
  BY <1>1, <1>3, <1>4 DEF ListInv

LEMMA ListFollows ==
  ASSUME ListInv
  PROVE  ShownIsStored
<1> SUFFICES ASSUME view # Nowhere, lists[view].data # Nowhere, lists[view].asking = "none",
                    About(view.survey) = {}
             PROVE  lists[view].data = status[view.survey] \/ lists[view].why # {}
  BY DEF ShownIsStored
<1>1. view \in Keys
  BY DEF ListInv, VerdictInv, VerdictsTyped
<1>2. ~Unheard(view.survey)
  BY DEF Unheard, Answering, About, Busy
<1> QED
  BY <1>1, <1>2 DEF ListInv, DataKept

\* The list on the screen shows the verdict that is stored, however the answers of the
\* lists and of the verdicts interleave: every other one has one of the reasons.
THEOREM ShownListCurrent == ReviewSpec => []ShownIsStored
<1> QED
  BY ListInit, ListStep, ListFollows, PTL DEF ReviewSpec

-----------------------------------------------------------------------------
(* A verdict that overturns another.                                       *)

\* A list that a verdict of this visit has asked for is awaited: the buttons are off.
OwnAwaited ==
    \A k \in Keys : lists[k].own =>
        \E v \in Verdicts : Waiting(v) /\ verdicts[v].key = k /\ verdicts[v].mine

\* Of two verdicts on one survey each has been given without sight of the other.
BlindTogether ==
    \A v, o \in Busy :
        v # o /\ verdicts[v].from.survey = verdicts[o].from.survey => verdicts[v].blind

\* A verdict that was given with sight of the list finds what the list has shown.
SightedFirst ==
    \A v \in Verdicts : Sent(v) /\ ~verdicts[v].blind =>
        status[verdicts[v].from.survey] = "SUBMITTED"

BlindInv == ListInv /\ OwnAwaited /\ BlindTogether /\ SightedFirst

LEMMA OwnStays ==
  ASSUME OwnAwaited,
         \A k \in Keys : lists'[k].own =>
            /\ lists[k].own
            /\ \A v \in Verdicts : Waiting(v) /\ verdicts[v].key = k /\ verdicts[v].mine =>
                  /\ verdicts'[v] # Nowhere /\ verdicts'[v].at = "listing"
                  /\ verdicts'[v].key = k /\ verdicts'[v].mine
  PROVE  OwnAwaited'
BY DEF OwnAwaited, Waiting

\* Steps that give no verdict and store none.
LEMMA BlindStays ==
  ASSUME BlindTogether, SightedFirst, status' = status,
         \A v \in Verdicts :
            \/ verdicts'[v] = verdicts[v]
            \/ verdicts'[v] = Nowhere
            \/ /\ verdicts[v] # Nowhere
               /\ verdicts'[v].from = verdicts[v].from
               /\ verdicts'[v].blind = verdicts[v].blind
               /\ verdicts'[v].at = "sent" => verdicts[v].at = "sent"
  PROVE  BlindTogether' /\ SightedFirst'
<1>1. \A v \in Verdicts : verdicts'[v] # Nowhere =>
        /\ verdicts[v] # Nowhere
        /\ verdicts'[v].from = verdicts[v].from
        /\ verdicts'[v].blind = verdicts[v].blind
        /\ verdicts'[v].at = "sent" => verdicts[v].at = "sent"
  OBVIOUS
<1>2. BlindTogether'
  BY <1>1 DEF BlindTogether, Busy
<1>3. SightedFirst'
  BY <1>1 DEF SightedFirst, Sent
<1> QED
  BY <1>2, <1>3

\* What an update of one field leaves of a mutation.
LEMMA MutationFields ==
  ASSUME NEW m \in Mutation, NEW e \in {"sent", "ok", "error", "listing"},
         NEW k \in Keys, NEW b \in BOOLEAN
  PROVE  /\ [m EXCEPT !.at = e].at = e /\ [m EXCEPT !.at = e].from = m.from
         /\ [m EXCEPT !.at = e].blind = m.blind /\ [m EXCEPT !.at = e].key = m.key
         /\ [m EXCEPT !.at = e].mine = m.mine
         /\ [m EXCEPT !.key = k].at = m.at /\ [m EXCEPT !.key = k].from = m.from
         /\ [m EXCEPT !.key = k].blind = m.blind
         /\ [m EXCEPT !.mine = FALSE].at = m.at /\ [m EXCEPT !.mine = FALSE].from = m.from
         /\ [m EXCEPT !.mine = FALSE].blind = m.blind
         /\ [m EXCEPT !.blind = b].blind = b /\ [m EXCEPT !.blind = b].from = m.from
         /\ [m EXCEPT !.blind = b].at = m.at /\ [m EXCEPT !.blind = b].key = m.key
         /\ [m EXCEPT !.blind = b].mine = m.mine
         /\ [m EXCEPT !.at = e] \in Mutation /\ [m EXCEPT !.key = k] \in Mutation
         /\ [m EXCEPT !.mine = FALSE] \in Mutation /\ [m EXCEPT !.blind = b] \in Mutation
BY DEF Mutation

LEMMA BlindTypes ==
  ASSUME BlindInv
  PROVE  /\ VerdictsTyped /\ lists \in [Keys -> List]
         /\ \A k \in Keys : lists[k] \in List
         /\ verdicts \in [Verdicts -> Mutation \cup {Nowhere}]
         /\ \A v \in Verdicts : verdicts[v] # Nowhere => verdicts[v] \in Mutation
BY DEF BlindInv, ListInv, VerdictInv, VerdictsTyped, ListsTyped

LEMMA PageKeepsBlind ==
  ASSUME BlindInv, ListInv',
         \/ \E s \in SurveyIds : SelectSurvey(s)
         \/ \E k \in Keys \cup {Nowhere} : Visit(k)
         \/ Focus
         \/ \E k \in Keys : ListServed(k) \/ ListAnswered(k) \/ ListFails(k)
  PROVE  BlindInv'
<1>1. VerdictsTyped /\ lists \in [Keys -> List] /\ ListsTyped
      /\ \A k \in Keys : lists[k] \in List
  BY BlindTypes DEF BlindInv, ListInv
<1>2. \A v \in Verdicts : verdicts[v] # Nowhere => verdicts[v] \in Mutation
  BY BlindTypes
<1>3. ASSUME NEW s \in SurveyIds, SelectSurvey(s)
      PROVE  BlindInv'
  <2>1. view' \in Keys
    <3>1. view' = [view EXCEPT !.survey = s] /\ view \in Keys
      BY <1>1, <1>3 DEF SelectSurvey, VerdictsTyped
    <3> QED
      BY <3>1 DEF Keys
  <2>2. \A v \in Verdicts :
          \/ verdicts'[v] = verdicts[v]
          \/ /\ verdicts[v] # Nowhere /\ verdicts[v].at # "listing"
             /\ verdicts'[v] = [verdicts[v] EXCEPT !.key = view']
    BY <1>3 DEF SelectSurvey, Followed, Invalidated
  <2>3. \A v \in Verdicts :
          \/ verdicts'[v] = verdicts[v]
          \/ /\ verdicts[v] # Nowhere /\ verdicts[v].at # "listing"
             /\ verdicts'[v].from = verdicts[v].from
             /\ verdicts'[v].blind = verdicts[v].blind
             /\ verdicts'[v].at = verdicts[v].at
    <3> TAKE v \in Verdicts
    <3>1. CASE verdicts[v] # Nowhere /\ verdicts[v].at # "listing"
               /\ verdicts'[v] = [verdicts[v] EXCEPT !.key = view']
      <4>1. verdicts[v] \in Mutation
        BY <1>2, <3>1
      <4> QED
        BY <2>1, <3>1, <4>1 DEF Mutation
    <3> QED
      BY <2>2, <3>1
  <2>4. lists' \in Shown(lists, view') /\ status' = status
    BY <1>3 DEF SelectSurvey
  <2>5. \A k \in Keys : lists'[k].own = lists[k].own
    BY <1>1, <2>1, <2>4, ShownTyped
  <2>6. OwnAwaited'
    BY <2>3, <2>5, OwnStays DEF BlindInv, Waiting
  <2>7. BlindTogether' /\ SightedFirst'
    BY <2>3, <2>4, BlindStays DEF BlindInv
  <2> QED
    BY <2>6, <2>7 DEF BlindInv
<1>4. ASSUME NEW k \in Keys \cup {Nowhere}, Visit(k)
      PROVE  BlindInv'
  <2> DEFINE table == [o \in Keys |-> [lists[o] EXCEPT !.own = FALSE]]
  <2>1. \A v \in Verdicts :
          \/ verdicts'[v] = Nowhere
          \/ verdicts[v] # Nowhere /\ verdicts'[v] = [verdicts[v] EXCEPT !.mine = FALSE]
    BY <1>4 DEF Visit, Left
  <2>2. \A v \in Verdicts :
          \/ verdicts'[v] = Nowhere
          \/ /\ verdicts[v] # Nowhere
             /\ verdicts'[v].from = verdicts[v].from
             /\ verdicts'[v].blind = verdicts[v].blind
             /\ verdicts'[v].at = verdicts[v].at
    <3> TAKE v \in Verdicts
    <3>1. CASE verdicts[v] # Nowhere /\ verdicts'[v] = [verdicts[v] EXCEPT !.mine = FALSE]
      <4>1. verdicts[v] \in Mutation
        BY <1>2, <3>1
      <4> QED
        BY <3>1, <4>1 DEF Mutation
    <3> QED
      BY <2>1, <3>1
  <2>3. table \in [Keys -> List] /\ \A o \in Keys : ~table[o].own
    BY <1>1 DEF List
  <2>4. lists' \in IF k = Nowhere THEN {table} ELSE Shown(table, k)
    BY <1>4 DEF Visit
  <2>5. status' = status
    BY <1>4 DEF Visit
  <2> HIDE DEF table
  <2>6. \A o \in Keys : ~lists'[o].own
    <3>1. CASE k = Nowhere
      BY <2>3, <2>4, <3>1
    <3>2. CASE k # Nowhere
      <4>1. k \in Keys /\ lists' \in Shown(table, k)
        BY <2>4, <3>2
      <4>2. \A o \in Keys : lists'[o].own = table[o].own
        BY <1>1, <2>3, <4>1, ShownTyped
      <4> QED
        BY <2>3, <4>2
    <3> QED
      BY <3>1, <3>2
  <2>7. OwnAwaited'
    BY <2>6 DEF OwnAwaited
  <2>8. BlindTogether' /\ SightedFirst'
    BY <2>2, <2>5, BlindStays DEF BlindInv
  <2> QED
    BY <2>7, <2>8 DEF BlindInv
<1>5. CASE Focus \/ \E k \in Keys : ListServed(k)
  <2>1. verdicts' = verdicts /\ status' = status
    BY <1>5 DEF Focus, ListServed
  <2>2. \A k \in Keys : lists'[k].own = lists[k].own
    <3>1. CASE Focus
      <4>1. view \in Keys /\ lists' = [lists EXCEPT ![view].asking = "sent"]
        BY <1>1, <3>1 DEF Focus, VerdictsTyped
      <4> QED
        BY <1>1, <4>1 DEF List
    <3>2. ASSUME NEW k \in Keys, ListServed(k)
          PROVE  \A o \in Keys : lists'[o].own = lists[o].own
      <4> DEFINE next == [lists[k] EXCEPT !.asking = "served", !.reply = status[k.survey],
                                          !.late = {}]
      <4>1. lists' = [lists EXCEPT ![k] = next]
        BY <3>2 DEF ListServed
      <4>2. next.own = lists[k].own
        BY <1>1 DEF List
      <4> HIDE DEF next
      <4> QED
        BY <1>1, <4>1, <4>2
    <3> QED
      BY <1>5, <3>1, <3>2
  <2>3. OwnAwaited'
    BY <2>1, <2>2, OwnStays DEF BlindInv, Waiting
  <2> QED
    BY <2>1, <2>3, BlindStays DEF BlindInv
<1>6. ASSUME NEW k \in Keys, ListAnswered(k) \/ ListFails(k)
      PROVE  BlindInv'
  <2>1. verdicts' = Released(k) /\ status' = status
    BY <1>6 DEF ListAnswered, ListFails
  <2>2. \A v \in Verdicts :
          \/ verdicts'[v] = verdicts[v]
          \/ verdicts'[v] = Nowhere /\ verdicts[v].key = k
    BY <2>1 DEF Released
  <2>3. ~lists'[k].own /\ \A o \in Keys \ {k} : lists'[o] = lists[o]
    <3>1. CASE ListAnswered(k)
      <4> DEFINE next == [lists[k] EXCEPT !.asking = "none", !.data = lists[k].reply,
                                !.reply = Nowhere, !.invalid = FALSE, !.own = FALSE,
                                !.why = lists[k].late, !.late = {}]
      <4>1. lists' = [lists EXCEPT ![k] = next]
        BY <3>1 DEF ListAnswered
      <4>2. next.own = FALSE
        BY <1>1 DEF List
      <4> HIDE DEF next
      <4> QED
        BY <1>1, <4>1, <4>2
    <3>2. CASE ListFails(k)
      <4> DEFINE next == [lists[k] EXCEPT !.asking = "none", !.reply = Nowhere, !.own = FALSE,
                                !.why = lists[k].why \cup {"failed"}, !.late = {}]
      <4>1. lists' = [lists EXCEPT ![k] = next]
        BY <3>2 DEF ListFails
      <4>2. next.own = FALSE
        BY <1>1 DEF List
      <4> HIDE DEF next
      <4> QED
        BY <1>1, <4>1, <4>2
    <3> QED
      BY <1>6, <3>1, <3>2
  <2>4. OwnAwaited'
    BY <2>2, <2>3, OwnStays DEF BlindInv, Waiting
  <2> QED
    BY <2>1, <2>2, <2>4, BlindStays DEF BlindInv
<1> QED
  BY <1>3, <1>4, <1>5, <1>6

\* A verdict that is given with sight of the list is given alone, on what is stored.
LEMMA JudgeKeepsBlind ==
  ASSUME BlindInv, ListInv', NEW w \in Verdicts, NEW outcome \in Outcomes, Judge(w, outcome)
  PROVE  BlindInv'
<1> DEFINE t == view.survey
           strangers == {o \in About(t) : ~verdicts[o].mine}
           sight == \/ lists[view].why # {} \/ strangers # {}
                    \/ lists[view].asking # "none" /\ ~lists[view].own
<1>1. VerdictsTyped /\ view # Nowhere /\ view \in Keys /\ t \in SurveyIds
      /\ lists[view].data = "SUBMITTED" /\ verdicts[w] = Nowhere
  BY BlindTypes DEF Judge, VerdictsTyped, Keys
<1>2. \A o \in Verdicts : verdicts[o] # Nowhere => verdicts[o] \in Mutation
  BY BlindTypes
<1>3. \A o \in Verdicts : verdicts[o] # Nowhere => ~verdicts[o].mine
  BY DEF Judge, Pending, Busy
<1>4. strangers = {o \in Verdicts : verdicts[o] # Nowhere /\ verdicts[o].from.survey = t}
  BY <1>3 DEF About, Busy
<1>5. lists' = lists /\ status' = status /\ view' = view
      /\ verdicts' = [o \in Verdicts |->
            IF o \in strangers THEN [verdicts[o] EXCEPT !.blind = TRUE]
            ELSE IF o # w THEN verdicts[o] ELSE
            [from |-> view, outcome |-> outcome, at |-> "sent", key |-> Invalidated(view),
             mine |-> TRUE, blind |-> sight]]
  BY DEF Judge
<1>6. w \notin strangers
  BY <1>1, <1>4
<1> HIDE DEF strangers
<1>7. /\ verdicts'[w] # Nowhere
      /\ verdicts'[w].from = view /\ verdicts'[w].at = "sent"
      /\ verdicts'[w].blind <=> sight
  <2>1. verdicts'[w] = [from |-> view, outcome |-> outcome, at |-> "sent",
             key |-> Invalidated(view), mine |-> TRUE, blind |-> sight]
    BY <1>5, <1>6
  <2>2. verdicts'[w] \in Mutation
    <3>1. \A b \in BOOLEAN : [from |-> view, outcome |-> outcome, at |-> "sent",
             key |-> view, mine |-> TRUE, blind |-> b] \in Mutation
      BY <1>1, Zenon DEF Mutation
    <3>2. sight \in BOOLEAN
      OBVIOUS
    <3> HIDE DEF sight
    <3> QED
      BY <2>1, <3>1, <3>2 DEF Invalidated
  <2>3. verdicts'[w] # Nowhere
    BY <2>2, NowhereAssumption
  <2> HIDE DEF sight
  <2> QED
    BY <2>1, <2>3
<1>8. ASSUME NEW o \in Verdicts \ {w}
      PROVE  \/ verdicts'[o] = verdicts[o] /\ o \notin strangers
             \/ /\ o \in strangers
                /\ verdicts[o] # Nowhere /\ verdicts'[o] # Nowhere
                /\ verdicts'[o].from = verdicts[o].from
                /\ verdicts'[o].at = verdicts[o].at /\ verdicts'[o].blind = TRUE
  <2>1. CASE o \in strangers
    <3>1. verdicts[o] \in Mutation /\ verdicts[o] # Nowhere
          /\ verdicts'[o] = [verdicts[o] EXCEPT !.blind = TRUE]
      BY <1>2, <1>4, <1>5, <2>1
    <3>2. verdicts'[o] \in Mutation
      BY <3>1 DEF Mutation
    <3>3. /\ verdicts'[o].from = verdicts[o].from
          /\ verdicts'[o].at = verdicts[o].at /\ verdicts'[o].blind = TRUE
      BY <3>1 DEF Mutation
    <3> QED
      BY <2>1, <3>1, <3>2, <3>3, NowhereAssumption
  <2>2. CASE o \notin strangers
    BY <1>5, <2>2
  <2> QED
    BY <2>1, <2>2
<1>9. \A k \in Keys : ~lists[k].own
  BY <1>3 DEF BlindInv, OwnAwaited, Waiting
<1>10. OwnAwaited'
  BY <1>5, <1>9 DEF OwnAwaited
<1>11. BlindTogether'
  <2> SUFFICES ASSUME NEW v \in Verdicts, NEW o \in Verdicts, verdicts'[v] # Nowhere,
                      verdicts'[o] # Nowhere, v # o,
                      verdicts'[v].from.survey = verdicts'[o].from.survey
               PROVE  verdicts'[v].blind
    BY DEF BlindTogether, Busy
  <2>1. CASE v = w
    <3>1. o \in strangers
      BY <1>4, <1>7, <1>8, <2>1
    <3> QED
      BY <1>7, <2>1, <3>1
  <2>2. CASE v # w /\ o = w
    BY <1>4, <1>7, <1>8, <2>2
  <2>3. CASE v # w /\ o # w /\ v \in strangers
    BY <1>8, <2>3
  <2>4. CASE v # w /\ o # w /\ v \notin strangers
    <3>1. verdicts'[v] = verdicts[v] /\ verdicts[v] # Nowhere
      BY <1>8, <2>4
    <3>2. verdicts[o] # Nowhere /\ verdicts'[o].from = verdicts[o].from
      BY <1>8, <2>4
    <3> QED
      BY <3>1, <3>2 DEF BlindInv, BlindTogether, Busy
  <2> QED
    BY <2>1, <2>2, <2>3, <2>4
<1>12. SightedFirst'
  <2> SUFFICES ASSUME NEW v \in Verdicts, verdicts'[v] # Nowhere, verdicts'[v].at = "sent",
                      ~verdicts'[v].blind
               PROVE  status[verdicts'[v].from.survey] = "SUBMITTED"
    BY <1>5 DEF SightedFirst, Sent
  <2>1. CASE v = w
    <3>1. lists[view].why = {} /\ strangers = {} /\ lists[view].asking = "none"
      BY <1>1, <1>7, <1>9, <2>1
    <3>2. ~Unheard(t)
      BY <1>4, <3>1 DEF Unheard, Answering
    <3>3. lists[view].data = status[t]
      BY <1>1, <3>1, <3>2, NowhereAssumption DEF BlindInv, ListInv, DataKept, Statuses
    <3> QED
      BY <1>1, <1>7, <2>1, <3>3
  <2>2. CASE v # w
    BY <1>8, <2>2 DEF BlindInv, SightedFirst, Sent
  <2> QED
    BY <2>1, <2>2
<1> QED
  BY <1>10, <1>11, <1>12 DEF BlindInv

\* Where a mutation moves on, no list is awaited any less.
LEMMA MovedBlind ==
  ASSUME BlindInv, NEW w \in Verdicts, verdicts[w] # Nowhere, verdicts[w].at # "listing",
         NEW end \in {"ok", "error"}, verdicts' = [verdicts EXCEPT ![w].at = end],
         \A k \in Keys : lists'[k].own = lists[k].own
  PROVE  /\ OwnAwaited'
         /\ verdicts'[w].from = verdicts[w].from /\ verdicts'[w].at = end
         /\ verdicts'[w].blind = verdicts[w].blind
         /\ \A o \in Verdicts \ {w} : verdicts'[o] = verdicts[o]
<1>1. verdicts[w] \in Mutation /\ verdicts \in [Verdicts -> Mutation \cup {Nowhere}]
  BY BlindTypes
<1>2. verdicts'[w] = [verdicts[w] EXCEPT !.at = end]
      /\ \A o \in Verdicts \ {w} : verdicts'[o] = verdicts[o]
  BY <1>1
<1>3. /\ verdicts'[w].from = verdicts[w].from /\ verdicts'[w].at = end
      /\ verdicts'[w].blind = verdicts[w].blind
  BY <1>1, <1>2 DEF Mutation
<1>4. OwnAwaited'
  BY <1>2, OwnStays DEF BlindInv, Waiting
<1> QED
  BY <1>2, <1>3, <1>4

\* The other verdicts on the survey of the one that is stored were given blind.
LEMMA ReviewKeepsBlind ==
  ASSUME BlindInv, ListInv', NEW w \in Verdicts, Review(w)
  PROVE  BlindInv'
<1>1. VerdictsTyped /\ verdicts[w] # Nowhere /\ verdicts[w].at = "sent"
  BY BlindTypes DEF Review, Busy
<1>2. lists' = lists /\ verdicts' = [verdicts EXCEPT ![w].at = "ok"]
      /\ status' = [status EXCEPT ![verdicts[w].from.survey] = verdicts[w].outcome]
  BY DEF Review
<1>3. /\ OwnAwaited'
      /\ verdicts'[w].from = verdicts[w].from /\ verdicts'[w].at = "ok"
      /\ verdicts'[w].blind = verdicts[w].blind
      /\ \A o \in Verdicts \ {w} : verdicts'[o] = verdicts[o]
  BY <1>1, <1>2, MovedBlind
<1>4. BlindTogether'
  <2> SUFFICES ASSUME NEW v \in Verdicts, NEW o \in Verdicts, verdicts'[v] # Nowhere,
                      verdicts'[o] # Nowhere, v # o,
                      verdicts'[v].from.survey = verdicts'[o].from.survey
               PROVE  verdicts'[v].blind
    BY DEF BlindTogether, Busy
  <2>1. verdicts[v] # Nowhere /\ verdicts[o] # Nowhere
        /\ verdicts'[v].from = verdicts[v].from /\ verdicts'[o].from = verdicts[o].from
        /\ verdicts'[v].blind = verdicts[v].blind
    BY <1>1, <1>3
  <2> QED
    BY <2>1 DEF BlindInv, BlindTogether, Busy
<1>5. SightedFirst'
  <2> SUFFICES ASSUME NEW v \in Verdicts, verdicts'[v] # Nowhere, verdicts'[v].at = "sent",
                      ~verdicts'[v].blind
               PROVE  status'[verdicts'[v].from.survey] = "SUBMITTED"
    BY DEF SightedFirst, Sent
  <2>1. v # w /\ verdicts'[v] = verdicts[v]
    BY <1>3
  <2>2. status[verdicts[v].from.survey] = "SUBMITTED"
    BY <2>1 DEF BlindInv, SightedFirst, Sent
  <2>3. verdicts[v].from.survey # verdicts[w].from.survey
    BY <1>1, <2>1 DEF BlindInv, BlindTogether, Busy
  <2>4. verdicts[v].from.survey \in SurveyIds
    BY <2>1, BlindTypes DEF Mutation, Keys
  <2> QED
    BY <1>1, <1>2, <2>1, <2>2, <2>3, <2>4 DEF VerdictsTyped
<1> QED
  BY <1>3, <1>4, <1>5 DEF BlindInv

LEMMA EndsKeepBlind ==
  ASSUME BlindInv, ListInv', NEW w \in Verdicts,
         ReviewFails(w) \/ VerdictLost(w) \/ VerdictRefused(w)
  PROVE  BlindInv'
<1>1. verdicts[w] # Nowhere /\ verdicts[w].at # "listing" /\ status' = status
      /\ verdicts \in [Verdicts -> Mutation \cup {Nowhere}]
      /\ \A k \in Keys : lists[k] \in List
  BY BlindTypes DEF ReviewFails, VerdictLost, VerdictRefused, Busy
<1>2. \A k \in Keys : lists'[k].own = lists[k].own
  <2>1. CASE VerdictLost(w)
    <3> TAKE k \in Keys
    <3> DEFINE next == [lists[k] EXCEPT !.why = lists[k].why \cup {"failed"},
                                        !.late = lists[k].late \cup {"failed"}]
    <3>1. lists'[k] \in {next, lists[k]}
      BY <2>1 DEF VerdictLost
    <3>2. next.own = lists[k].own
      BY <1>1 DEF List
    <3> HIDE DEF next
    <3> QED
      BY <3>1, <3>2
  <2>2. CASE ReviewFails(w) \/ VerdictRefused(w)
    BY <2>2 DEF ReviewFails, VerdictRefused
  <2> QED
    BY <2>1, <2>2
<1>3. ASSUME NEW end \in {"ok", "error"}, verdicts' = [verdicts EXCEPT ![w].at = end]
      PROVE  BlindInv'
  <2>1. /\ OwnAwaited'
        /\ verdicts'[w].from = verdicts[w].from /\ verdicts'[w].at = end
        /\ verdicts'[w].blind = verdicts[w].blind
        /\ \A o \in Verdicts \ {w} : verdicts'[o] = verdicts[o]
    BY <1>1, <1>2, <1>3, MovedBlind
  <2>2. BlindTogether' /\ SightedFirst'
    BY <1>1, <2>1, BlindStays DEF BlindInv
  <2> QED
    BY <2>1, <2>2 DEF BlindInv
<1>4. CASE VerdictRefused(w)
  <2>1. verdicts'[w] = Nowhere /\ \A o \in Verdicts \ {w} : verdicts'[o] = verdicts[o]
    BY <1>1, <1>4 DEF VerdictRefused
  <2>2. OwnAwaited'
    BY <1>1, <1>2, <2>1, OwnStays DEF BlindInv, Waiting
  <2>3. BlindTogether' /\ SightedFirst'
    BY <1>1, <2>1, BlindStays DEF BlindInv
  <2> QED
    BY <2>2, <2>3 DEF BlindInv
<1> QED
  BY <1>3, <1>4 DEF ReviewFails, VerdictLost

\* Who has asked for a list of its own page waits for it.
LEMMA HeardKeepsBlind ==
  ASSUME BlindInv, ListInv', NEW w \in Verdicts, VerdictAnswered(w)
  PROVE  BlindInv'
<1> DEFINE c == verdicts[w]
<1>1. c \in Mutation /\ c # Nowhere /\ c.at = "ok" /\ c.key \in Keys /\ c.mine \in BOOLEAN
      /\ status' = status /\ verdicts \in [Verdicts -> Mutation \cup {Nowhere}]
      /\ \A k \in Keys : lists[k] \in List
  BY BlindTypes DEF VerdictAnswered, Busy, Mutation
<1>2. lists' = [k \in Keys |-> AfterVerdict(k, c)] /\ verdicts' = Awaited(w)
  BY DEF VerdictAnswered
<1>3. verdicts'[w] = IF view = c.key THEN [c EXCEPT !.at = "listing"] ELSE Nowhere
  BY <1>1, <1>2 DEF Awaited, Released
<1>4. \A o \in Verdicts \ {w} :
        \/ verdicts'[o] = verdicts[o]
        \/ /\ verdicts'[o] = Nowhere
           /\ Asks(c.key) /\ verdicts[o].key = c.key
  BY <1>1, <1>2 DEF Awaited, Released
<1>5. LET next == [c EXCEPT !.at = "listing"] IN
      /\ next \in Mutation /\ next.at = "listing" /\ next.key = c.key
      /\ next.mine = c.mine /\ next.from = c.from /\ next.blind = c.blind
  BY <1>1 DEF Mutation
<1>6. BlindTogether' /\ SightedFirst'
  <2>1. \/ verdicts'[w] = Nowhere
        \/ /\ verdicts'[w].from = c.from /\ verdicts'[w].blind = c.blind
           /\ verdicts'[w].at = "listing"
    BY <1>3, <1>5
  <2>2. \A v \in Verdicts :
            \/ verdicts'[v] = verdicts[v]
            \/ verdicts'[v] = Nowhere
            \/ /\ verdicts[v] # Nowhere
               /\ verdicts'[v].from = verdicts[v].from
               /\ verdicts'[v].blind = verdicts[v].blind
               /\ verdicts'[v].at = "sent" => verdicts[v].at = "sent"
    BY <1>1, <1>4, <2>1
  <2> QED
    BY <1>1, <2>2, BlindStays DEF BlindInv
<1>7. OwnAwaited'
  <2> SUFFICES ASSUME NEW k \in Keys, lists'[k].own
               PROVE  \E v \in Verdicts : /\ verdicts'[v] # Nowhere /\ verdicts'[v].at = "listing"
                                          /\ verdicts'[v].key = k /\ verdicts'[v].mine
    BY DEF OwnAwaited, Waiting
  <2>1. CASE k = c.key /\ Asks(k)
    <3> DEFINE askedFor == [lists[k] EXCEPT !.asking = "sent", !.reply = Nowhere, !.own = c.mine,
                                           !.late = {}]
    <3>1. lists'[k] = askedFor
      BY <1>2, <2>1 DEF AfterVerdict
    <3>2. askedFor.own = c.mine
      BY <1>1 DEF List
    <3> HIDE DEF askedFor
    <3>3. c.mine /\ view = c.key
      BY <2>1, <3>1, <3>2 DEF Asks
    <3>4. verdicts'[w] # Nowhere
      BY <1>3, <1>5, <3>3, NowhereAssumption
    <3> QED
      BY <1>3, <1>5, <2>1, <3>3, <3>4
  <2>2. CASE ~(k = c.key /\ Asks(k))
    <3> DEFINE marked == [lists[k] EXCEPT !.invalid = @ \/ k = c.key,
                              !.why = @ \cup Excuse(k, c), !.late = @ \cup Excuse(k, c)]
    <3>1. lists'[k] = marked
      BY <1>2, <2>2 DEF AfterVerdict
    <3>2. marked.own = lists[k].own
      BY <1>1 DEF List
    <3> HIDE DEF marked
    <3>3. PICK v \in Verdicts : Waiting(v) /\ verdicts[v].key = k /\ verdicts[v].mine
      BY <2>2, <3>1, <3>2 DEF BlindInv, OwnAwaited
    <3>4. v # w
      BY <1>1, <3>3 DEF Waiting
    <3>5. verdicts'[v] = verdicts[v]
      BY <1>4, <2>2, <3>3, <3>4
    <3> QED
      BY <3>3, <3>5 DEF Waiting
  <2> QED
    BY <2>1, <2>2
<1> QED
  BY <1>6, <1>7 DEF BlindInv

LEMMA BlindStep == BlindInv /\ [ReviewNext]_reviewVars => BlindInv'
<1> SUFFICES ASSUME BlindInv, [ReviewNext]_reviewVars
             PROVE  BlindInv'
  OBVIOUS
<1>1. ListInv'
  BY ListStep DEF BlindInv
<1>2. CASE UNCHANGED reviewVars
  BY <1>1, <1>2 DEF reviewVars, BlindInv, OwnAwaited, BlindTogether, SightedFirst, Waiting,
                    Sent, Busy
<1>3. CASE ReviewNext
  BY <1>1, <1>3, PageKeepsBlind, JudgeKeepsBlind, ReviewKeepsBlind, EndsKeepBlind,
     HeardKeepsBlind DEF ReviewNext
<1> QED
  BY <1>2, <1>3

LEMMA BlindInit == ReviewInit => BlindInv
BY ListInit DEF ReviewInit, BlindInv, OwnAwaited, BlindTogether, SightedFirst, Sent, Busy

\* The step from which OverturnedBlindly follows.
Overturns ==
    \A s \in SurveyIds : status[s] # "SUBMITTED" /\ status'[s] # status[s] =>
        \E v \in About(s) : verdicts[v].blind /\ verdicts'[v] # verdicts[v]

LEMMA OverturnStep ==
  ASSUME BlindInv, [ReviewNext]_reviewVars
  PROVE  Overturns
<1> SUFFICES ASSUME NEW s \in SurveyIds, status[s] # "SUBMITTED", status'[s] # status[s]
             PROVE  \E v \in About(s) : verdicts[v].blind /\ verdicts'[v] # verdicts[v]
  BY DEF Overturns
<1>1. PICK v \in Verdicts : Review(v)
  BY DEF ReviewNext, reviewVars, SelectSurvey, Visit, Focus, ListServed, ListAnswered,
         ListFails, Judge, ReviewFails, VerdictLost, VerdictRefused, VerdictAnswered
<1>2. verdicts[v] # Nowhere /\ verdicts[v] \in Mutation /\ verdicts[v].at = "sent"
      /\ verdicts \in [Verdicts -> Mutation \cup {Nowhere}] /\ VerdictsTyped
  BY <1>1, BlindTypes DEF Review, Busy
<1>3. verdicts[v].from.survey = s
  BY <1>1, <1>2 DEF Review, VerdictsTyped
<1>4. verdicts[v].blind
  BY <1>2, <1>3 DEF BlindInv, SightedFirst, Sent
<1>5. verdicts'[v].at = "ok"
  BY <1>1, <1>2 DEF Review, Mutation
<1> QED
  BY <1>2, <1>3, <1>4, <1>5 DEF About, Busy

\* No verdict is overturned by a second click or from a list that was current: each that
\* is was overturned by one given without sight of it.
THEOREM NoSightedOverturn == ReviewSpec => OverturnedBlindly
<1>1. BlindInv /\ [ReviewNext]_reviewVars => BlindInv' /\ [Overturns]_reviewVars
  BY BlindStep, OverturnStep
<1> QED
  BY <1>1, BlindInit, PTL DEF ReviewSpec, OverturnedBlindly, Overturns
-----------------------------------------------------------------------------
(* The types.                                                              *)

\* What the invariants above do not speak of.
ReviewCounts ==
    /\ moves \in 0..MaxMoves /\ judgements \in 0..MaxJudged /\ lost \in 0..MaxLost
    /\ muddled \subseteq SurveyIds

\* A step keeps to the bounds, and muddles surveys only.
LEMMA CountsStep ==
  ListInv /\ ReviewCounts /\ [ReviewNext]_reviewVars => ReviewCounts'
<1> SUFFICES ASSUME ListInv, ReviewCounts, [ReviewNext]_reviewVars
             PROVE  ReviewCounts'
  OBVIOUS
<1>1. \A v \in Verdicts : verdicts[v] # Nowhere => verdicts[v].from.survey \in SurveyIds
  BY DEF ListInv, VerdictInv, VerdictsTyped, Mutation, Keys
<1>2. view # Nowhere => view.survey \in SurveyIds
  BY DEF ListInv, VerdictInv, VerdictsTyped, Keys
<1>3. /\ UNCHANGED moves \/ (moves < MaxMoves /\ moves' = moves + 1)
      /\ UNCHANGED judgements \/ (judgements < MaxJudged /\ judgements' = judgements + 1)
      /\ UNCHANGED lost \/ (lost < MaxLost /\ lost' = lost + 1)
  BY DEF ReviewNext, reviewVars, SelectSurvey, Visit, Focus, ListServed, ListAnswered, ListFails,
         Judge, Review, ReviewFails, VerdictLost, VerdictRefused, VerdictAnswered
<1>4. muddled' \subseteq SurveyIds
  <2>1. ASSUME NEW v \in Verdicts, NEW outcome \in Outcomes, Judge(v, outcome)
        PROVE  muddled' \subseteq SurveyIds
    BY <1>2, <2>1 DEF Judge, ReviewCounts
  <2>2. ASSUME NEW v \in Verdicts, ReviewFails(v) \/ VerdictLost(v)
        PROVE  muddled' \subseteq SurveyIds
    <3>1. verdicts[v] # Nowhere
      BY <2>2 DEF ReviewFails, VerdictLost, Busy
    <3>2. PICK s \in SurveyIds : s = verdicts[v].from.survey
      BY <1>1, <3>1
    <3>3. UNCHANGED muddled \/ muddled' = muddled \cup {s}
      BY <2>2, <3>2 DEF ReviewFails, VerdictLost
    <3> QED
      BY <3>2, <3>3 DEF ReviewCounts
  <2>3. \/ UNCHANGED muddled
        \/ \E v \in Verdicts : \/ \E outcome \in Outcomes : Judge(v, outcome)
                               \/ ReviewFails(v) \/ VerdictLost(v)
    <3>1. ASSUME NEW s, SelectSurvey(s) PROVE UNCHANGED muddled
      BY <3>1 DEF SelectSurvey
    <3>2. ASSUME NEW k, Visit(k) PROVE UNCHANGED muddled
      BY <3>2 DEF Visit
    <3>3. Focus => UNCHANGED muddled
      BY DEF Focus
    <3>4. ASSUME NEW k, ListServed(k) \/ ListAnswered(k) \/ ListFails(k) PROVE UNCHANGED muddled
      BY <3>4 DEF ListServed, ListAnswered, ListFails
    <3>5. ASSUME NEW v, Review(v) \/ VerdictRefused(v) \/ VerdictAnswered(v)
          PROVE  UNCHANGED muddled
      BY <3>5 DEF Review, VerdictRefused, VerdictAnswered
    <3>6. UNCHANGED reviewVars => UNCHANGED muddled
      BY DEF reviewVars
    <3> QED
      BY <3>1, <3>2, <3>3, <3>4, <3>5, <3>6 DEF ReviewNext
  <2> QED
    BY <2>1, <2>2, <2>3 DEF ReviewCounts
<1> QED
  BY <1>3, <1>4, ReviewAssumption DEF ReviewCounts

\* Every variable of the two lists and of the verdicts under way has its type.
THEOREM ReviewTypeCorrect == ReviewSpec => []ReviewTypeOK
<1>1. ReviewInit => ReviewCounts
  BY ReviewAssumption DEF ReviewInit, ReviewCounts
<1>2. ListInv /\ ReviewCounts => ReviewTypeOK
  BY DEF ListInv, VerdictInv, VerdictsTyped, ListsTyped, ReviewCounts, ReviewTypeOK
<1> QED
  BY <1>1, <1>2, ListInit, ListStep, CountsStep, PTL DEF ReviewSpec

-----------------------------------------------------------------------------
(* The three parts of MCCollectStore.  The theorems above, and those of    *)
(* CollectPageProofs and SurveyStoreProofs, are about each part alone;     *)
(* each of its behaviours is one of all three.                             *)

\* A step of one part is none of the others.
LEMMA PartsOfCollect == AllSpec => Spec /\ StoreSpec /\ ReviewSpec
<1>1. AllInit => Init /\ StoreInit /\ ReviewInit
  BY DEF AllInit
<1>2. [AllNext]_AllVars => [Next]_vars /\ [StoreNext]_storeVars /\ [ReviewNext]_reviewVars
  BY DEF AllNext, AllVars
<1> QED
  BY <1>1, <1>2, PTL DEF AllSpec, Spec, StoreSpec, ReviewSpec

\* AllTypeOK: the respondents' page and API, the store of the surveys and the pages
\* of the researcher keep their types, side by side.
THEOREM AllTypeCorrect == AllSpec => []AllTypeOK
<1>1. TypeOK /\ StoreTypeOK /\ ReviewTypeOK => AllTypeOK
  BY DEF AllTypeOK
<1> QED
  BY <1>1, PartsOfCollect, TypeCorrect, StoreTypeCorrect, ReviewTypeCorrect, PTL

\* What holds of each part alone holds of the behaviours in which all three are there.
THEOREM CollectStoreHolds ==
  AllSpec =>
    /\ [](CompletedIsWhole /\ NothingAfterCompletion /\ DoneIsRecorded /\ SubmittingIsUnderway)
    /\ [](LimitHolds /\ RowsAgree)
    /\ [](ShownIsStored /\ LastVerdictStands)
    /\ OverturnedBlindly
BY PartsOfCollect, CompletionIsWhole, LateStoresNothing, ThanksAreTrue, ButtonComesBack,
   LimitKept, RowsKept, ShownListCurrent, LastVerdictKept, NoSightedOverturn, PTL
=============================================================================
