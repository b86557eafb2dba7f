-------------------------- MODULE WebClientProofs --------------------------
(***************************************************************************)
(* Proofs about the session of a researcher and the pages on it, for any   *)
(* number of calls under way, tokens, calls made and turns: the session is *)
(* kept, ended and never half there, and the pages show what is stored.    *)
(* At the end this and what is proved of the widgets is put together, for  *)
(* MCPages.                                                                *)
(***************************************************************************)
EXTENDS MCPages, QuestionWidgetProofs, TLAPS

InRefresh == {"refresh", "read", "deleted", "granted", "denied"}

\* Only the call c has changed ...
Only(c) ==
    /\ calls' \in [Slots -> Call \cup {Nothing}]
    /\ \A d \in Slots \ {c} : calls'[d] = calls[d]

\* ... which is the same call with the same reader.
Same(c) ==
    /\ Only(c) /\ calls[c] # Nothing /\ calls'[c] # Nothing
    /\ calls'[c].kind = calls[c].kind /\ calls'[c].heard = calls[c].heard

\* One more: nobody has refreshed it.
Still(c) ==
    /\ Same(c) /\ calls'[c].auth = calls[c].auth /\ calls'[c].cookie = calls[c].cookie
    /\ calls'[c].again = calls[c].again

\* A new call stands in the slot.
Fresh(c, kind, auth) ==
    /\ Only(c) /\ calls'[c] # Nothing
    /\ calls'[c].kind = kind /\ calls'[c].at = "sent" /\ calls'[c].auth = auth
    /\ calls'[c].cookie = cookie /\ calls'[c].new = 0 /\ calls'[c].heard /\ ~calls'[c].again
    /\ kind = "plan" => calls'[c].says \in Plans

LEMMA ToFacts ==
  ASSUME ClientTypeOK, NEW c \in Slots, calls[c] # Nothing, NEW phase \in CallPhases,
         To(c, phase)
  PROVE  Still(c) /\ calls'[c].at = phase /\ calls'[c].new = calls[c].new
         /\ calls'[c].says = calls[c].says
<1> DEFINE m == calls[c]
<1>1. calls \in [Slots -> Call \cup {Nothing}] /\ m \in Call
  BY DEF ClientTypeOK
<1>2. calls' = [calls EXCEPT ![c] = [m EXCEPT !.at = phase]]
  BY DEF To
<1>3. [m EXCEPT !.at = phase] \in Call
  BY <1>1 DEF Call
<1>4. [m EXCEPT !.at = phase] # Nothing
  BY <1>3, NothingAssumption
<1> QED
  BY <1>1, <1>2, <1>3, <1>4 DEF Still, Same, Only, Call

LEMMA AnswerFacts ==
  ASSUME ClientTypeOK, NEW c \in Slots, calls[c] # Nothing,
         NEW says \in Plans \cup {"there", "gone"}, Answer(c, says)
  PROVE  Still(c) /\ calls'[c].at = "ok" /\ calls'[c].new = calls[c].new
         /\ calls'[c].says = says
<1> DEFINE m == calls[c]
<1>1. calls \in [Slots -> Call \cup {Nothing}] /\ m \in Call
  BY DEF ClientTypeOK
<1>2. calls' = [calls EXCEPT ![c] = [m EXCEPT !.at = "ok", !.says = says]]
  BY DEF Answer
<1>3. [m EXCEPT !.at = "ok", !.says = says] \in Call
  BY <1>1 DEF Call, CallPhases
<1>4. [m EXCEPT !.at = "ok", !.says = says] # Nothing
  BY <1>3, NothingAssumption
<1> QED
  BY <1>1, <1>2, <1>3, <1>4 DEF Still, Same, Only, Call

\* A sign-in is answered ...
LEMMA GivenFacts ==
  ASSUME ClientTypeOK, NEW c \in Slots, calls[c] # Nothing, NEW n \in 0 .. MaxIssued,
         calls' = [calls EXCEPT ![c].at = "ok", ![c].new = n, ![c].says = plan]
  PROVE  Still(c) /\ calls'[c].at = "ok" /\ calls'[c].new = n /\ calls'[c].says = plan
<1> DEFINE m == calls[c]
           k == [m EXCEPT !.at = "ok", !.new = n, !.says = plan]
<1>1. calls \in [Slots -> Call \cup {Nothing}] /\ m \in Call /\ plan \in Plans
  BY DEF ClientTypeOK
<1>2. calls' = [calls EXCEPT ![c] = k]
  OBVIOUS
<1>3. k \in Call
  BY <1>1 DEF Call, CallPhases
<1>4. k # Nothing
  BY <1>3, NothingAssumption
<1> QED
  BY <1>1, <1>2, <1>3, <1>4 DEF Still, Same, Only, Call

\* ... and a refresh.
LEMMA GrantedFacts ==
  ASSUME ClientTypeOK, NEW c \in Slots, calls[c] # Nothing, NEW n \in 0 .. MaxIssued,
         calls' = [calls EXCEPT ![c].at = "granted", ![c].new = n]
  PROVE  Still(c) /\ calls'[c].at = "granted" /\ calls'[c].new = n
         /\ calls'[c].says = calls[c].says
<1> DEFINE m == calls[c]
           k == [m EXCEPT !.at = "granted", !.new = n]
<1>1. calls \in [Slots -> Call \cup {Nothing}] /\ m \in Call
  BY DEF ClientTypeOK
<1>2. calls' = [calls EXCEPT ![c] = k]
  OBVIOUS
<1>3. k \in Call
  BY <1>1 DEF Call, CallPhases
<1>4. k # Nothing
  BY <1>3, NothingAssumption
<1> QED
  BY <1>1, <1>2, <1>3, <1>4 DEF Still, Same, Only, Call

LEMMA RefuseFacts ==
  ASSUME ClientTypeOK, NEW c \in Slots, Refuse(c)
  PROVE  /\ Same(c) /\ calls[c].heard /\ calls[c].at = "refused" /\ calls[c].auth # 0
         /\ calls'[c].at = "refresh" /\ calls'[c].cookie = cookie
         /\ calls'[c].auth = calls[c].auth /\ calls'[c].again = calls[c].again
         /\ calls'[c].new = calls[c].new /\ calls'[c].says = calls[c].says /\ ~calls[c].again
<1> DEFINE m == calls[c]
           k == [m EXCEPT !.at = "refresh", !.cookie = cookie]
<1>1. calls \in [Slots -> Call \cup {Nothing}] /\ m \in Call /\ cookie \in 0 .. MaxIssued
  BY DEF ClientTypeOK, Refuse, Heard, Under
<1>2. calls' = [calls EXCEPT ![c] = k]
  BY DEF Refuse
<1>3. k \in Call
  BY <1>1 DEF Call, CallPhases
<1>4. k # Nothing /\ m # Nothing /\ m.at = "refused" /\ m.heard /\ m.auth # 0 /\ ~m.again
  BY <1>3, NothingAssumption DEF Refuse, Heard, Under
<1> QED
  BY <1>1, <1>2, <1>3, <1>4 DEF Same, Only, Call

LEMMA RefreshedFacts ==
  ASSUME ClientTypeOK, NEW c \in Slots, Refreshed(c)
  PROVE  /\ Same(c) /\ calls[c].heard /\ calls[c].at = "granted"
         /\ calls'[c].at = "sent" /\ calls'[c].auth = calls[c].new
         /\ calls'[c].new = 0 /\ calls'[c].again
         /\ calls'[c].cookie = calls[c].cookie /\ calls'[c].says = calls[c].says
<1> DEFINE m == calls[c]
           k == [m EXCEPT !.at = "sent", !.auth = m.new, !.new = 0, !.again = TRUE]
<1>1. calls \in [Slots -> Call \cup {Nothing}] /\ m \in Call
  BY DEF ClientTypeOK, Refreshed, Heard, Under
<1>2. calls' = [calls EXCEPT ![c] = k]
  BY DEF Refreshed
<1>3. k \in Call
  <2>1. 0 \in 0 .. MaxIssued
    BY ClientAssumption
  <2> HIDE DEF m
  <2> QED
    BY <1>1, <2>1, Zenon DEF Call, CallPhases
<1>4. k # Nothing /\ m # Nothing /\ m.at = "granted" /\ m.heard
  BY <1>3, NothingAssumption DEF Refreshed, Heard, Under
<1> QED
  BY <1>1, <1>2, <1>3, <1>4 DEF Same, Only, Call

LEMMA RequestType ==
  ASSUME ClientTypeOK, NEW kind \in Kinds, NEW auth \in 0 .. MaxIssued
  PROVE  /\ Request(kind, auth) \in Call /\ Request(kind, auth) # Nothing
         /\ Request(kind, auth).kind = kind /\ Request(kind, auth).at = "sent"
         /\ Request(kind, auth).auth = auth /\ Request(kind, auth).cookie = cookie
         /\ Request(kind, auth).new = 0 /\ Request(kind, auth).heard
         /\ ~Request(kind, auth).again
         /\ kind = "plan" => Request(kind, auth).says \in Plans
         /\ kind # "plan" => Request(kind, auth).says = Nothing
<1>1. cookie \in 0 .. MaxIssued /\ 0 \in 0 .. MaxIssued
  BY ClientAssumption DEF ClientTypeOK
<1>2. Request(kind, auth) \in Call
  BY <1>1 DEF Request, Call, CallPhases, Plans
<1> QED
  BY <1>2, NothingAssumption DEF Request, Plans

LEMMA FreshFacts ==
  ASSUME ClientTypeOK, NEW c \in Slots, NEW kind \in Kinds, NEW auth \in 0 .. MaxIssued,
         calls' = [calls EXCEPT ![c] = Request(kind, auth)]
  PROVE  Fresh(c, kind, auth)
BY RequestType DEF Fresh, Only, ClientTypeOK

LEMMA GoneFacts ==
  ASSUME ClientTypeOK, NEW c \in Slots
  PROVE  /\ Gone(c) \in [Slots -> Call \cup {Nothing}] /\ Gone(c)[c] = Nothing
         /\ \A d \in Slots \ {c} : Gone(c)[d] = calls[d]
BY DEF Gone, ClientTypeOK

\* After a reload: the same calls, none with a reader.
LEMMA UnheardFacts ==
  ASSUME ClientTypeOK
  PROVE  /\ Unheard(calls) \in [Slots -> Call \cup {Nothing}]
         /\ \A c \in Slots :
               /\ calls[c] = Nothing => Unheard(calls)[c] = Nothing
               /\ calls[c] # Nothing =>
                    /\ Unheard(calls)[c] # Nothing
                    /\ Unheard(calls)[c] = [calls[c] EXCEPT !.heard = FALSE]
                    /\ Unheard(calls)[c].kind = calls[c].kind
                    /\ Unheard(calls)[c].at = calls[c].at
                    /\ Unheard(calls)[c].auth = calls[c].auth
                    /\ Unheard(calls)[c].cookie = calls[c].cookie
                    /\ Unheard(calls)[c].new = calls[c].new
                    /\ Unheard(calls)[c].says = calls[c].says
                    /\ Unheard(calls)[c].again = calls[c].again
                    /\ ~Unheard(calls)[c].heard
<1>1. calls \in [Slots -> Call \cup {Nothing}]
  BY DEF ClientTypeOK
<1>2. ASSUME NEW m \in Call
      PROVE  /\ [m EXCEPT !.heard = FALSE] \in Call
             /\ [m EXCEPT !.heard = FALSE].kind = m.kind
             /\ [m EXCEPT !.heard = FALSE].at = m.at
             /\ [m EXCEPT !.heard = FALSE].auth = m.auth
             /\ [m EXCEPT !.heard = FALSE].cookie = m.cookie
             /\ [m EXCEPT !.heard = FALSE].new = m.new
             /\ [m EXCEPT !.heard = FALSE].says = m.says
             /\ [m EXCEPT !.heard = FALSE].again = m.again
             /\ [m EXCEPT !.heard = FALSE].heard = FALSE
  BY DEF Call
<1>3. \A m \in Call : [m EXCEPT !.heard = FALSE] # Nothing
  BY <1>2, NothingAssumption
<1> QED
  BY <1>1, <1>2, <1>3 DEF Unheard

\* useAuth() of a page that appears.
Appears(user, t, on, left) ==
    /\ globalUser' = user /\ planner' = Nothing
    /\ \/ calls' = left /\ loader' = Nothing
       \/ /\ Asks(user, t) /\ calls' = [left EXCEPT ![on] = Request("me", t)]
          /\ loader' = on \/ loader' = Nothing
    /\ \/ path' = "login" /\ guard' = Nothing /\ loader' = Nothing
       \/ path' = "app" /\ guard' = user /\ (user # Nothing \/ t # 0)

LEMMA LoginAppears ==
  ASSUME NEW user, NEW t, NEW on \in Slots, NEW left \in [Slots -> Call \cup {Nothing}],
         AtLogin(user, t, on, left)
  PROVE  Appears(user, t, on, left) /\ path' = "login"
<1>1. CASE Asks(user, t)
  BY <1>1 DEF AtLogin, Appears
<1>2. CASE ~Asks(user, t)
  <2>1. calls' = left
    BY <1>2 DEF AtLogin
  <2> QED
    BY <2>1 DEF AtLogin, Appears
<1> QED
  BY <1>1, <1>2

LEMMA PageAppears ==
  ASSUME NEW p \in {"login", "app"}, NEW user, NEW t, NEW on \in Slots,
         NEW left \in [Slots -> Call \cup {Nothing}],
         At(p, user, t, on, left)
  PROVE  Appears(user, t, on, left) /\ (user = Nothing /\ t = 0 => path' = "login")
BY LoginAppears DEF At, AtGuard, Appears, Asks

-----------------------------------------------------------------------------
(* Types: what a call may be, and whom the pages wait for.                  *)

\* A call in a state it can be in, after what has come between.
CallOK(m, between) ==
    m # Nothing =>
        /\ m.at = "ok" /\ m.kind \in {"me", "user", "login"} => m.says \in Plans
        /\ m.at = "ok" /\ m.kind \in {"list", "old"} => m.says \in {"there", "gone"}
        /\ m.kind = "plan" => m.says \in Plans
        /\ m.kind = "logout" => m.at \in {"sent", "ok", "error"}
        /\ m.at = "granted" \/ (m.kind = "login" /\ m.at = "ok") => m.new # 0
        /\ m.new # 0 => (m.kind = "login" /\ m.at \in {"ok", "error"})
                        \/ m.at \in {"granted", "denied"}
        /\ m.at = "error" /\ m.kind # "delete" => "lost" \in between
        /\ ~m.heard /\ (m.kind \in {"login", "logout"} \/ m.at \in InRefresh) =>
              "left" \in between
        /\ ~m.heard /\ m.kind \in {"delete", "plan"} => "moved" \in between

\* Who is waited for has a reader.
Waits ==
    /\ loader # Nothing => calls[loader] # Nothing /\ calls[loader].kind = "me"
                           /\ calls[loader].heard
    /\ planner # Nothing => calls[planner] # Nothing /\ calls[planner].heard
                           /\ calls[planner].kind \in {"plan", "user"}

TypeInv == ClientTypeOK /\ Waits /\ \A c \in Slots : CallOK(calls[c], mishaps)

Values ==
    /\ tokens \subseteq Tokens /\ issued \in 0..MaxIssued /\ fresh \subseteq Tokens
    /\ plan \in Plans /\ surveyRow \in {"there", "gone"}
    /\ token \in 0..MaxIssued /\ cookie \in 0..MaxIssued
    /\ path \in {"login", "app"}
    /\ globalUser \in Plans \cup {Nothing} /\ guard \in Plans \cup {Nothing}
    /\ loader \in Slots \cup {Nothing} /\ planner \in Slots \cup {Nothing}
    /\ leaving \in BOOLEAN /\ listed \in {"there", "gone"}
    /\ signedIn \in BOOLEAN /\ signedOut \in BOOLEAN
    /\ mishaps \subseteq Mishaps

CallsOK == calls \in [Slots -> Call \cup {Nothing}] /\ Waits /\ \A c \in Slots : CallOK(calls[c], mishaps)

LEMMA TypeParts == TypeInv <=> Values /\ CallsOK
BY DEF TypeInv, Values, CallsOK, Waits, ClientTypeOK

LEMMA TypePartsNext ==
  ASSUME Values', CallsOK'
  PROVE  TypeInv'
BY DEF TypeInv, Values, CallsOK, Waits, ClientTypeOK

LEMMA MoreMishaps ==
  ASSUME NEW m, NEW A, NEW B, A \subseteq B, CallOK(m, A)
  PROVE  CallOK(m, B)
BY DEF CallOK

LEMMA SameCalls ==
  ASSUME TypeInv, NEW c \in Slots, Same(c), mishaps \subseteq mishaps',
         loader' = loader, planner' = planner, CallOK(calls'[c], mishaps')
  PROVE  CallsOK'
<1>1. \A d \in Slots : CallOK(calls'[d], mishaps')
  BY MoreMishaps DEF TypeInv, Same, Only
<1>2. Waits'
  BY DEF TypeInv, ClientTypeOK, Waits, Same, Only
<1> QED
  BY <1>1, <1>2 DEF CallsOK, Same, Only

LEMMA GoneCalls ==
  ASSUME TypeInv, NEW c \in Slots, calls' = Gone(c), mishaps \subseteq mishaps',
         loader' = Nothing \/ (loader' = loader /\ loader # c),
         planner' = Nothing \/ (planner' = planner /\ planner # c)
  PROVE  CallsOK'
<1>1. \A d \in Slots : CallOK(calls'[d], mishaps')
  <2>1. CallOK(calls'[c], mishaps')
    BY GoneFacts DEF CallOK, TypeInv
  <2> QED
    BY <2>1, GoneFacts, MoreMishaps DEF TypeInv
<1>2. Waits'
  BY GoneFacts DEF TypeInv, ClientTypeOK, Waits
<1> QED
  BY <1>1, <1>2, GoneFacts DEF CallsOK, TypeInv

LEMMA FreshCall ==
  ASSUME NEW c \in Slots, NEW kind \in Kinds, NEW auth, Fresh(c, kind, auth)
  PROVE  CallOK(calls'[c], mishaps')
BY DEF Fresh, CallOK, Kinds, InRefresh

\* A new call in a slot nobody waits for, or for which somebody waits from now on.
LEMMA FreshCalls ==
  ASSUME TypeInv, NEW c \in Slots, NEW kind \in Kinds, NEW auth, Fresh(c, kind, auth),
         mishaps \subseteq mishaps', loader' = loader /\ loader # c,
         \/ planner' = planner /\ planner # c
         \/ planner' \in {planner, c} /\ kind \in {"plan", "user"}
  PROVE  CallsOK'
<1>1. \A d \in Slots : CallOK(calls'[d], mishaps')
  <2>1. \A d \in Slots \ {c} : calls'[d] = calls[d]
    BY DEF Fresh, Only
  <2> QED
    BY <2>1, FreshCall, MoreMishaps DEF TypeInv
<1>2. Waits'
  BY DEF TypeInv, ClientTypeOK, Waits, Fresh, Only
<1> QED
  BY <1>1, <1>2 DEF CallsOK, Fresh, Only

LEMMA AppearsCalls ==
  ASSUME ClientTypeOK, NEW user, NEW t \in 0 .. MaxIssued, NEW on \in Slots,
         NEW left \in [Slots -> Call \cup {Nothing}], Appears(user, t, on, left),
         \A d \in Slots : CallOK(left[d], mishaps')
  PROVE  CallsOK'
<1>1. CASE calls' = left /\ loader' = Nothing
  BY <1>1 DEF CallsOK, Waits, Appears
<1>2. CASE calls' = [left EXCEPT ![on] = Request("me", t)] /\ loader' \in {on, Nothing}
  <2>1. "me" \in Kinds
    BY DEF Kinds
  <2>2. calls' \in [Slots -> Call \cup {Nothing}] /\ calls'[on] = Request("me", t)
        /\ \A d \in Slots \ {on} : calls'[d] = left[d]
    BY <1>2, <2>1, RequestType
  <2>3. CallOK(calls'[on], mishaps')
    BY <2>1, <2>2, RequestType DEF CallOK, InRefresh
  <2>4. Waits'
    BY <1>2, <2>1, <2>2, RequestType DEF Waits, Appears
  <2> QED
    BY <2>2, <2>3, <2>4 DEF CallsOK
<1> QED
  BY <1>1, <1>2 DEF Appears

LEMMA AppearsValues ==
  ASSUME Values, NEW user \in Plans \cup {Nothing}, NEW t \in 0 .. MaxIssued, NEW on \in Slots,
         NEW left, Appears(user, t, on, left)
  PROVE  /\ path' \in {"login", "app"}
         /\ globalUser' \in Plans \cup {Nothing} /\ guard' \in Plans \cup {Nothing}
         /\ loader' \in Slots \cup {Nothing} /\ planner' \in Slots \cup {Nothing}
BY DEF Appears, Values

LEMMA TypeServe ==
  ASSUME TypeInv, NEW c \in Slots, Serve(c)
  PROVE  TypeInv'
<1> USE DEF CallPhases
<1>1. /\ calls[c] # Nothing /\ calls[c].at = "sent" /\ calls[c].kind \notin {"login", "logout"}
      /\ ClientTypeOK /\ Values /\ CallOK(calls[c], mishaps) /\ calls[c] \in Call
  BY TypeParts DEF Serve, Under, TypeInv, ClientTypeOK
<1>2. CASE calls[c].auth \notin fresh
  <2>1. To(c, "refused") /\ UNCHANGED <<plan, surveyRow, mishaps, loader, planner>>
    BY <1>2 DEF Serve, userVars
  <2>2. Still(c) /\ calls'[c].at = "refused" /\ calls'[c].new = calls[c].new
        /\ calls'[c].says = calls[c].says
    BY <1>1, <2>1, ToFacts
  <2>3. CallOK(calls'[c], mishaps')
    BY <1>1, <2>1, <2>2 DEF CallOK, Still, Same, InRefresh
  <2>4. CallsOK'
    BY <2>1, <2>2, <2>3, SameCalls DEF Still
  <2>5. Values'
    BY <1>1, <2>1 DEF Values, Serve, storageVars, userVars
  <2> QED
    BY <2>4, <2>5, TypePartsNext
<1>3. CASE /\ calls[c].auth \in fresh /\ calls[c].kind \in {"me", "user"}
           /\ Answer(c, plan) /\ UNCHANGED <<plan, surveyRow, mishaps>>
  <2>1. Still(c) /\ calls'[c].at = "ok" /\ calls'[c].new = calls[c].new
        /\ calls'[c].says = plan /\ plan \in Plans
    BY <1>1, <1>3, AnswerFacts DEF Values
  <2>2. CallOK(calls'[c], mishaps')
    BY <1>1, <1>3, <2>1 DEF CallOK, Still, Same, InRefresh
  <2>3. CallsOK'
    BY <1>3, <2>1, <2>2, SameCalls DEF Still, Serve, userVars
  <2>4. Values'
    BY <1>1, <1>3 DEF Values, Serve, storageVars, userVars
  <2> QED
    BY <2>3, <2>4, TypePartsNext
<1>4. CASE /\ calls[c].auth \in fresh /\ calls[c].kind \in {"list", "old"}
           /\ Answer(c, surveyRow) /\ UNCHANGED <<plan, surveyRow, mishaps>>
  <2>1. Still(c) /\ calls'[c].at = "ok" /\ calls'[c].new = calls[c].new
        /\ calls'[c].says = surveyRow /\ surveyRow \in {"there", "gone"}
    BY <1>1, <1>4, AnswerFacts DEF Values
  <2>2. CallOK(calls'[c], mishaps')
    BY <1>1, <1>4, <2>1 DEF CallOK, Still, Same, InRefresh
  <2>3. CallsOK'
    BY <1>4, <2>1, <2>2, SameCalls DEF Still, Serve, userVars
  <2>4. Values'
    BY <1>1, <1>4 DEF Values, Serve, storageVars, userVars
  <2> QED
    BY <2>3, <2>4, TypePartsNext
<1>5. CASE /\ calls[c].auth \in fresh /\ calls[c].kind = "delete"
           /\ To(c, IF surveyRow = "there" THEN "ok" ELSE "error")
           /\ surveyRow' = "gone" /\ UNCHANGED <<plan, mishaps>>
  <2> DEFINE phase == IF surveyRow = "there" THEN "ok" ELSE "error"
  <2>1. phase \in {"ok", "error"} /\ To(c, phase)
    BY <1>5
  <2> HIDE DEF phase
  <2>2. Still(c) /\ calls'[c].at = phase /\ calls'[c].new = calls[c].new
        /\ calls'[c].says = calls[c].says
    BY <1>1, <2>1, ToFacts
  <2>3. CallOK(calls'[c], mishaps')
    BY <1>1, <1>5, <2>1, <2>2 DEF CallOK, Still, Same, InRefresh
  <2>4. CallsOK'
    BY <1>5, <2>2, <2>3, SameCalls DEF Still, Serve, userVars
  <2>5. Values'
    BY <1>1, <1>5 DEF Values, Serve, storageVars, userVars
  <2> QED
    BY <2>4, <2>5, TypePartsNext
<1>6. CASE /\ calls[c].auth \in fresh /\ calls[c].kind = "plan"
           /\ plan' = calls[c].says /\ To(c, "ok") /\ UNCHANGED surveyRow
           /\ mishaps' = mishaps \cup (IF TellOther(plan') # {} THEN {"crossed"} ELSE {})
  <2>1. Still(c) /\ calls'[c].at = "ok" /\ calls'[c].new = calls[c].new
        /\ calls'[c].says = calls[c].says /\ calls[c].says \in Plans
    BY <1>1, <1>6, ToFacts DEF CallOK
  <2>2. CallOK(calls'[c], mishaps')
    BY <1>1, <1>6, <2>1 DEF CallOK, Still, Same, InRefresh
  <2>3. CallsOK'
    BY <1>6, <2>1, <2>2, SameCalls DEF Still, Serve, userVars
  <2>4. mishaps' \subseteq Mishaps /\ plan' \in Plans
    BY <1>1, <1>6, <2>1 DEF Values, Mishaps
  <2>5. Values'
    BY <1>1, <1>6, <2>4 DEF Values, Serve, storageVars, userVars
  <2> QED
    BY <2>3, <2>5, TypePartsNext
<1> QED
  BY <1>2, <1>3, <1>4, <1>5, <1>6 DEF Serve

LEMMA IssueTypes ==
  ASSUME Values, Issued
  PROVE  /\ Issue \in 0 .. MaxIssued /\ Issue \in Tokens /\ Issue # 0
         /\ issued' = Issue /\ fresh' \subseteq Tokens
BY ClientAssumption DEF Values, Issued, Issue, Tokens

LEMMA StoreFacts ==
  ASSUME StoreToken
  PROVE  /\ tokens \subseteq tokens' /\ tokens' \subseteq tokens \cup {Issue}
         /\ mishaps \subseteq mishaps' /\ mishaps' \subseteq mishaps \cup {"failed"}
         /\ Issue \in tokens' \/ "failed" \in mishaps'
BY DEF StoreToken

LEMMA DeleteFacts ==
  ASSUME NEW n, DeleteToken(n)
  PROVE  tokens' \subseteq tokens /\ tokens' \in {tokens, tokens \ {n}}
BY DEF DeleteToken

LEMMA TypeServeAccess ==
  ASSUME TypeInv, NEW c \in Slots, ServeLogin(c) \/ ServeLogout(c)
  PROVE  TypeInv'
<1> USE DEF CallPhases
<1>1. /\ calls[c] # Nothing /\ calls[c].at = "sent" /\ calls[c].kind \in {"login", "logout"}
      /\ ClientTypeOK /\ Values /\ CallOK(calls[c], mishaps)
      /\ UNCHANGED <<loader, planner>> /\ mishaps \subseteq mishaps'
  BY TypeParts, StoreFacts
  DEF ServeLogin, ServeLogout, Under, TypeInv, clientHistory, userVars
<1>2. CASE /\ ServeLogin(c) /\ Issued /\ StoreToken
           /\ calls' = [calls EXCEPT ![c].at = "ok", ![c].new = Issue, ![c].says = plan]
  <2>1. Still(c) /\ calls'[c].at = "ok" /\ calls'[c].new = Issue /\ calls'[c].says = plan
        /\ plan \in Plans /\ Issue # 0
    BY <1>1, <1>2, GivenFacts, IssueTypes DEF Values
  <2>2. CallOK(calls'[c], mishaps')
    BY <1>1, <1>2, <2>1 DEF CallOK, Still, Same, InRefresh, ServeLogin
  <2>3. CallsOK'
    BY <1>1, <2>1, <2>2, SameCalls DEF Still
  <2>4. Values'
    <3>1. tokens' \subseteq Tokens /\ mishaps' \subseteq Mishaps
      BY <1>1, <1>2, IssueTypes, StoreFacts DEF Values, Mishaps
    <3> QED
      BY <1>1, <1>2, <3>1, IssueTypes DEF Values, ServeLogin, storageVars, userVars
  <2> QED
    BY <2>3, <2>4, TypePartsNext
<1>3. CASE ServeLogin(c) /\ To(c, "refused") /\ UNCHANGED <<issued, fresh, tokens, mishaps>>
  <2>1. Still(c) /\ calls'[c].at = "refused" /\ calls'[c].new = calls[c].new
        /\ calls'[c].says = calls[c].says
    BY <1>1, <1>3, ToFacts
  <2>2. CallOK(calls'[c], mishaps')
    BY <1>1, <1>3, <2>1 DEF CallOK, Still, Same, InRefresh, ServeLogin
  <2>3. CallsOK'
    BY <1>1, <2>1, <2>2, SameCalls DEF Still
  <2>4. Values'
    BY <1>1, <1>3 DEF Values, ServeLogin, storageVars, userVars, clientHistory
  <2> QED
    BY <2>3, <2>4, TypePartsNext
<1>4. CASE ServeLogout(c)
  <2>1. Still(c) /\ calls'[c].at = "ok" /\ calls'[c].new = calls[c].new
        /\ calls'[c].says = calls[c].says
    BY <1>1, <1>4, ToFacts DEF ServeLogout
  <2>2. CallOK(calls'[c], mishaps')
    BY <1>1, <1>4, <2>1 DEF CallOK, Still, Same, InRefresh, ServeLogout
  <2>3. CallsOK'
    BY <1>1, <2>1, <2>2, SameCalls DEF Still
  <2>4. Values'
    BY <1>1, <1>4, DeleteFacts DEF Values, ServeLogout, storageVars, userVars, clientHistory
  <2> QED
    BY <2>3, <2>4, TypePartsNext
<1> QED
  BY <1>2, <1>3, <1>4 DEF ServeLogin

LEMMA TypeRefresh ==
  ASSUME TypeInv, NEW c \in Slots,
         RefreshRead(c) \/ RefreshDelete(c) \/ RefreshIssue(c) \/ RefreshFails(c)
  PROVE  TypeInv'
<1> USE DEF CallPhases
<1>1. /\ calls[c] # Nothing /\ calls[c].at \in {"refresh", "read", "deleted"}
      /\ ClientTypeOK /\ Values /\ CallOK(calls[c], mishaps)
      /\ UNCHANGED <<loader, planner>> /\ mishaps \subseteq mishaps'
  BY TypeParts, StoreFacts
  DEF RefreshRead, RefreshDelete, RefreshIssue, RefreshFails, Under, TypeInv, clientHistory,
      userVars
<1>2. CASE RefreshRead(c)
  <2> DEFINE phase == IF calls[c].cookie \in tokens THEN "read" ELSE "denied"
  <2>1. phase \in {"read", "denied"} /\ To(c, phase)
    BY <1>2 DEF RefreshRead
  <2> HIDE DEF phase
  <2>2. Still(c) /\ calls'[c].at = phase /\ calls'[c].new = calls[c].new
        /\ calls'[c].says = calls[c].says
    BY <1>1, <2>1, ToFacts
  <2>3. CallOK(calls'[c], mishaps')
    BY <1>1, <2>1, <2>2 DEF CallOK, Still, Same, InRefresh
  <2>4. CallsOK'
    BY <1>1, <2>2, <2>3, SameCalls DEF Still
  <2>5. Values'
    BY <1>1, <1>2 DEF Values, RefreshRead, backendVars, storageVars, userVars, clientHistory
  <2> QED
    BY <2>4, <2>5, TypePartsNext
<1>3. CASE RefreshDelete(c)
  <2>1. Still(c) /\ calls'[c].at = "deleted" /\ calls'[c].new = calls[c].new
        /\ calls'[c].says = calls[c].says
    BY <1>1, <1>3, ToFacts DEF RefreshDelete
  <2>2. CallOK(calls'[c], mishaps')
    BY <1>1, <2>1 DEF CallOK, Still, Same, InRefresh
  <2>3. CallsOK'
    BY <1>1, <2>1, <2>2, SameCalls DEF Still
  <2>4. Values'
    BY <1>1, <1>3, DeleteFacts DEF Values, RefreshDelete, storageVars, userVars, clientHistory
  <2> QED
    BY <2>3, <2>4, TypePartsNext
<1>4. CASE RefreshIssue(c)
  <2>1. Issued /\ StoreToken /\ calls' = [calls EXCEPT ![c].at = "granted", ![c].new = Issue]
    BY <1>4 DEF RefreshIssue
  <2>2. Still(c) /\ calls'[c].at = "granted" /\ calls'[c].new = Issue
        /\ calls'[c].says = calls[c].says /\ Issue # 0
    BY <1>1, <2>1, GrantedFacts, IssueTypes
  <2>3. CallOK(calls'[c], mishaps')
    BY <1>1, <2>2 DEF CallOK, Still, Same, InRefresh
  <2>4. CallsOK'
    BY <1>1, <2>2, <2>3, SameCalls DEF Still
  <2>5. Values'
    <3>1. tokens' \subseteq Tokens /\ mishaps' \subseteq Mishaps
      BY <1>1, <2>1, IssueTypes, StoreFacts DEF Values, Mishaps
    <3> QED
      BY <1>1, <1>4, <2>1, <3>1, IssueTypes DEF Values, RefreshIssue, storageVars, userVars
  <2> QED
    BY <2>4, <2>5, TypePartsNext
<1>5. CASE RefreshFails(c)
  <2>1. Still(c) /\ calls'[c].at = "denied" /\ calls'[c].new = calls[c].new
        /\ calls'[c].says = calls[c].says
    BY <1>1, <1>5, ToFacts DEF RefreshFails
  <2>2. CallOK(calls'[c], mishaps')
    BY <1>1, <2>1 DEF CallOK, Still, Same, InRefresh
  <2>3. CallsOK'
    BY <1>1, <2>1, <2>2, SameCalls DEF Still
  <2>4. Values'
    BY <1>1, <1>5 DEF Values, Mishaps, RefreshFails, backendVars, storageVars, userVars
  <2> QED
    BY <2>3, <2>4, TypePartsNext
<1> QED
  BY <1>2, <1>3, <1>4, <1>5

LEMMA TypeLose ==
  ASSUME TypeInv, NEW c \in Slots, Lose(c)
  PROVE  TypeInv'
<1> USE DEF CallPhases
<1> DEFINE phase == IF calls[c].at \in {"refresh", "granted"} THEN "denied" ELSE "error"
<1>1. /\ calls[c] # Nothing /\ calls[c].at \in {"sent", "ok", "refused", "refresh", "granted"}
      /\ ClientTypeOK /\ Values /\ CallOK(calls[c], mishaps)
      /\ UNCHANGED <<loader, planner>> /\ mishaps' = mishaps \cup {"lost"}
  BY TypeParts DEF Lose, Under, TypeInv, userVars
<1>2. phase \in {"denied", "error"} /\ To(c, phase)
  BY DEF Lose
<1>3. Still(c) /\ calls'[c].at = phase /\ calls'[c].new = calls[c].new
      /\ calls'[c].says = calls[c].says
  BY <1>1, <1>2, ToFacts
<1>4. CallOK(calls'[c], mishaps')
  BY <1>1, <1>3 DEF CallOK, Still, Same, InRefresh
<1>5. CallsOK'
  BY <1>1, <1>3, <1>4, SameCalls DEF Still
<1>6. Values'
  BY <1>1 DEF Values, Mishaps, Lose, backendVars, storageVars, userVars
<1> QED
  BY <1>5, <1>6, TypePartsNext

\* What a reload leaves behind is accounted for.
LEMMA PartingCalls ==
  ASSUME TypeInv, mishaps' = mishaps \cup Parting
  PROVE  /\ \A d \in Slots : CallOK(Unheard(calls)[d], mishaps')
         /\ mishaps' \subseteq Mishaps
<1>1. ClientTypeOK /\ mishaps \subseteq Mishaps
  BY DEF TypeInv, ClientTypeOK
<1>2. ASSUME NEW d \in Slots
      PROVE  CallOK(Unheard(calls)[d], mishaps')
  <2>1. CASE calls[d] = Nothing
    BY <1>1, <2>1, UnheardFacts DEF CallOK
  <2>2. CASE calls[d] # Nothing
    <3>1. calls[d] \in Call /\ CallOK(calls[d], mishaps)
      BY <1>1, <2>2 DEF TypeInv, ClientTypeOK
    <3>2. calls[d].kind \in {"login", "logout"} \/ calls[d].at \in InRefresh => "left" \in mishaps'
      <4>1. CASE calls[d].heard /\ (calls[d].kind \in {"login", "logout"} \/ calls[d].at \in InRefresh)
        <5>1. Refreshing \cup Waiting("login") \cup Waiting("logout") # {}
          BY <4>1, <2>2 DEF Refreshing, Waiting, Under, InRefresh
        <5> QED
          BY <5>1 DEF Parting
      <4>2. CASE ~calls[d].heard
        BY <4>2, <3>1, <2>2 DEF CallOK
      <4> QED
        BY <4>1, <4>2
    <3>3. calls[d].kind \in {"delete", "plan"} => "moved" \in mishaps'
      <4>1. CASE calls[d].heard /\ calls[d].kind \in {"delete", "plan"}
        <5>1. Waiting("delete") \cup Waiting("plan") # {}
          BY <4>1, <2>2 DEF Waiting
        <5> QED
          BY <5>1 DEF Parting
      <4>2. CASE ~calls[d].heard
        BY <4>2, <3>1, <2>2 DEF CallOK
      <4> QED
        BY <4>1, <4>2
    <3> QED
      BY <1>1, <2>2, <3>1, <3>2, <3>3, UnheardFacts DEF CallOK
  <2> QED
    BY <2>1, <2>2
<1> QED
  BY <1>1, <1>2 DEF Parting, Mishaps

LEMMA TypeReload ==
  ASSUME TypeInv, Open \/ Depart
  PROVE  TypeInv'
<1>1. ClientTypeOK /\ Values /\ token \in 0 .. MaxIssued
  BY TypeParts DEF TypeInv, Values
<1>2. /\ mishaps' = mishaps \cup Parting /\ leaving' = FALSE /\ listed' = "gone"
      /\ UNCHANGED <<backendVars, storageVars, signedIn, signedOut>>
  BY DEF Open, Depart
<1>3. PICK c \in Slots : Appears(Nothing, token, c, Unheard(calls))
  <2>1. Unheard(calls) \in [Slots -> Call \cup {Nothing}]
    BY <1>1, UnheardFacts
  <2>2. CASE Open
    BY <2>1, <2>2, PageAppears DEF Open
  <2>3. CASE Depart
    BY <2>1, <2>3, LoginAppears DEF Depart
  <2> QED
    BY <2>2, <2>3
<1>4. \A d \in Slots : CallOK(Unheard(calls)[d], mishaps')
  BY <1>2, PartingCalls
<1>5. CallsOK'
  BY <1>1, <1>3, <1>4, AppearsCalls, UnheardFacts
<1>6. Values'
  <2>1. mishaps' \subseteq Mishaps
    BY <1>2, PartingCalls
  <2>2. /\ path' \in {"login", "app"}
        /\ globalUser' \in Plans \cup {Nothing} /\ guard' \in Plans \cup {Nothing}
        /\ loader' \in Slots \cup {Nothing} /\ planner' \in Slots \cup {Nothing}
    BY <1>1, <1>3, AppearsValues
  <2> QED
    BY <1>1, <1>2, <2>1, <2>2 DEF Values, backendVars, storageVars
<1> QED
  BY <1>5, <1>6, TypePartsNext

\* A page appears and the calls stay, all but one that may be gone.
LEMMA TypeAppears ==
  ASSUME TypeInv, NEW user \in Plans \cup {Nothing}, NEW t \in 0 .. MaxIssued,
         NEW on \in Slots, NEW left \in {calls, Gone(on)}, Appears(user, t, on, left),
         mishaps \subseteq mishaps'
  PROVE  /\ CallsOK'
         /\ path' \in {"login", "app"}
         /\ globalUser' \in Plans \cup {Nothing} /\ guard' \in Plans \cup {Nothing}
         /\ loader' \in Slots \cup {Nothing} /\ planner' \in Slots \cup {Nothing}
<1>1. ClientTypeOK /\ Values
  BY TypeParts DEF TypeInv
<1>2. left \in [Slots -> Call \cup {Nothing}] /\ \A d \in Slots : left[d] \in {calls[d], Nothing}
  BY <1>1, GoneFacts DEF ClientTypeOK
<1>3. \A d \in Slots : CallOK(left[d], mishaps')
  <2>1. \A d \in Slots : CallOK(calls[d], mishaps')
    BY MoreMishaps DEF TypeInv
  <2>2. CallOK(Nothing, mishaps')
    BY DEF CallOK
  <2> QED
    BY <1>2, <2>1, <2>2
<1> QED
  BY <1>1, <1>2, <1>3, AppearsCalls, AppearsValues

LEMMA TypeGoBack ==
  ASSUME TypeInv, GoBack
  PROVE  TypeInv'
<1>1. ClientTypeOK /\ Values
  BY TypeParts DEF TypeInv
<1>2. PICK c \in Slots : Appears(globalUser, token, c, calls)
  BY <1>1, PageAppears DEF GoBack, ClientTypeOK
<1>3. UNCHANGED <<backendVars, storageVars, leaving, listed, clientHistory>>
  BY DEF GoBack
<1>4. /\ CallsOK'
      /\ path' \in {"login", "app"}
      /\ globalUser' \in Plans \cup {Nothing} /\ guard' \in Plans \cup {Nothing}
      /\ loader' \in Slots \cup {Nothing} /\ planner' \in Slots \cup {Nothing}
  BY <1>1, <1>2, <1>3, TypeAppears DEF Values, clientHistory
<1>5. Values'
  BY <1>1, <1>3, <1>4 DEF Values, backendVars, storageVars, clientHistory
<1> QED
  BY <1>4, <1>5, TypePartsNext

\* A call is made; which, and what it disturbs.
Calling(c, kind) ==
    /\ Make(c, kind)
    /\ planner' = planner \/ (kind = "plan" /\ planner' = c)
    /\ signedIn' = IF kind = "logout" THEN FALSE ELSE signedIn

LEMMA CallMade ==
  ASSUME TypeInv, NEW c \in Slots, NEW kind \in Kinds, Make(c, kind)
  PROVE  /\ Fresh(c, kind, token) /\ calls[c] = Nothing /\ ~leaving
         /\ loader # c /\ planner # c
         /\ UNCHANGED <<tokens, issued, fresh, plan, surveyRow, token, cookie, path,
                        globalUser, guard, loader, leaving, listed, signedOut>>
         /\ mishaps \subseteq mishaps' /\ mishaps' \subseteq mishaps \cup {"late"}
         /\ kind = "login" /\ Others(c) # {} => "late" \in mishaps'
         /\ kind # "login" => mishaps' = mishaps
<1>1. ClientTypeOK /\ token \in 0 .. MaxIssued /\ c # Nothing
  BY ClientAssumption DEF TypeInv, ClientTypeOK
<1>2. calls' = [calls EXCEPT ![c] = Request(kind, token)] /\ calls[c] = Nothing
  BY DEF Make, Free
<1>3. Fresh(c, kind, token)
  BY <1>1, <1>2, FreshFacts
<1>4. loader # c /\ planner # c
  BY <1>1, <1>2 DEF TypeInv, Waits
<1> QED
  BY <1>2, <1>3, <1>4 DEF Make, backendVars, storageVars

LEMMA TypeMake ==
  ASSUME TypeInv, NEW c \in Slots, NEW kind \in Kinds, Calling(c, kind)
  PROVE  TypeInv'
<1>1. /\ Fresh(c, kind, token) /\ loader # c /\ planner # c
      /\ UNCHANGED <<tokens, issued, fresh, plan, surveyRow, token, cookie, path,
                        globalUser, guard, loader, leaving, listed, signedOut>>
      /\ mishaps \subseteq mishaps' /\ mishaps' \subseteq mishaps \cup {"late"}
  BY CallMade DEF Calling
<1>2. CallsOK'
  BY <1>1, FreshCalls DEF Calling
<1>3. Values'
  BY <1>1, TypeParts DEF Values, Calling, Mishaps
<1> QED
  BY <1>2, <1>3, TypePartsNext

LEMMA Makes ==
  ASSUME NEW c \in Slots,
         Login(c) \/ Logout(c) \/ List(c) \/ DeleteSurvey(c) \/ SwitchPlan(c)
  PROVE  \E kind \in Kinds :
            Calling(c, kind) /\ (IF kind = "login" THEN path = "login" ELSE InApp)
BY DEF Login, Logout, List, DeleteSurvey, SwitchPlan, Calling, Kinds

\* A call that has succeeded, by its kind.
LEMMA TypeSucceed ==
  ASSUME TypeInv, NEW c \in Slots, Succeed(c)
  PROVE  TypeInv'
<1>1. /\ calls[c] # Nothing /\ calls[c].at = "ok" /\ calls[c].heard /\ calls[c] \in Call
      /\ calls[c].kind \in {"me", "user", "list", "old", "delete", "plan"}
      /\ ClientTypeOK /\ Values /\ CallOK(calls[c], mishaps) /\ Waits
      /\ token \in 0 .. MaxIssued
      /\ UNCHANGED <<backendVars, storageVars, path, leaving, boundVars, signedIn, signedOut>>
  BY TypeParts DEF Succeed, Heard, Under, TypeInv, ClientTypeOK, Call, Kinds
<1>2. CASE calls[c].kind = "me"
  <2>1. /\ calls' = Gone(c) /\ UNCHANGED <<listed, planner, mishaps>>
        /\ loader' = IF loader = c THEN Nothing ELSE loader
        /\ globalUser' = calls[c].says /\ guard' \in {guard, calls[c].says}
        /\ calls[c].says \in Plans
    BY <1>1, <1>2 DEF Succeed, CallOK
  <2>2. planner # c
    BY <1>1, <1>2, ClientAssumption DEF Waits
  <2>3. CallsOK'
    <3>1. loader' = Nothing \/ (loader' = loader /\ loader # c)
      BY <2>1
    <3> QED
      BY <2>1, <2>2, <3>1, GoneCalls
  <2>4. Values'
    BY <1>1, <2>1 DEF Values, backendVars, storageVars
  <2> QED
    BY <2>3, <2>4, TypePartsNext
<1>3. CASE calls[c].kind \in {"list", "old"}
  <2>1. /\ calls' = Gone(c) /\ UNCHANGED <<globalUser, guard, loader, planner, mishaps>>
        /\ listed' \in {listed, calls[c].says}
        /\ calls[c].says \in {"there", "gone"}
    BY <1>1, <1>3 DEF Succeed, CallOK
  <2>2. planner # c /\ loader # c
    BY <1>1, <1>3, ClientAssumption DEF Waits
  <2>3. CallsOK'
    BY <2>1, <2>2, GoneCalls
  <2>4. Values'
    BY <1>1, <2>1 DEF Values, backendVars, storageVars
  <2> QED
    BY <2>3, <2>4, TypePartsNext
<1>4. CASE calls[c].kind = "delete"
  <2>1. /\ UNCHANGED <<globalUser, guard, loader, planner>>
        /\ listed' \in {listed, "gone"}
        /\ mishaps \subseteq mishaps' /\ mishaps' \subseteq mishaps \cup {"elsewhere"}
        /\ calls' = IF InApp THEN Again(c) ELSE Gone(c)
    BY <1>1, <1>4 DEF Succeed
  <2>2. planner # c /\ loader # c
    BY <1>1, <1>4, ClientAssumption DEF Waits
  <2>3. ASSUME calls' = Gone(c) PROVE CallsOK'
    BY <2>1, <2>2, <2>3, GoneCalls
  <2>4. ASSUME calls' = Again(c) PROVE CallsOK'
    <3>1. "list" \in Kinds /\ "old" \in Kinds
      BY DEF Kinds
    <3>2. calls'[c] = Request("list", token)
      BY <2>4 DEF Again
    <3>3. CallOK(calls'[c], mishaps') /\ calls'[c] \in Call
      BY <1>1, <3>1, <3>2, RequestType DEF CallOK, InRefresh
    <3>4. ASSUME NEW d \in Slots \ {c}
          PROVE  /\ calls'[d] = calls[d] \/ (calls[d] # Nothing /\ calls[d].kind = "list"
                                             /\ calls'[d] = [calls[d] EXCEPT !.kind = "old"])
                 /\ calls'[d] \in Call \cup {Nothing} /\ CallOK(calls'[d], mishaps')
      <4>1. CASE calls'[d] = calls[d]
        <5>1. CallOK(calls[d], mishaps) /\ calls[d] \in Call \cup {Nothing}
          BY <1>1 DEF TypeInv, ClientTypeOK
        <5> QED
          BY <5>1, <4>1, <2>1, MoreMishaps
      <4>2. CASE d \in Waiting("list")
        <5> DEFINE m == calls[d]
        <5>1. m # Nothing /\ m \in Call /\ m.kind = "list" /\ m.heard /\ CallOK(m, mishaps)
          BY <1>1, <4>2 DEF TypeInv, ClientTypeOK, Waiting
        <5>2. calls'[d] = [m EXCEPT !.kind = "old"]
          BY <2>4, <4>2 DEF Again
        <5>3. [m EXCEPT !.kind = "old"] \in Call
          BY <5>1, <3>1 DEF Call
        <5>4. CallOK([m EXCEPT !.kind = "old"], mishaps')
          BY <5>1, <2>1 DEF Call, CallOK
        <5> QED
          BY <5>1, <5>2, <5>3, <5>4
      <4>3. d \in Waiting("list") \/ calls'[d] = calls[d]
        BY <2>4 DEF Again
      <4> QED
        BY <4>1, <4>2, <4>3
    <3>5. Waits'
      <4>1. ASSUME NEW d \in Slots, calls[d] # Nothing, calls[d].kind # "list", d # c
            PROVE  calls'[d] = calls[d]
        BY <4>1, <3>4
      <4> QED
        BY <4>1, <1>1, <2>1, <2>2 DEF Waits, Values
    <3>6. calls' \in [Slots -> Call \cup {Nothing}]
      <4>1. calls' = [d \in Slots |-> calls'[d]]
        BY <2>4 DEF Again
      <4>2. \A d \in Slots : calls'[d] \in Call \cup {Nothing}
        BY <3>3, <3>4
      <4> QED
        BY <4>1, <4>2
    <3>7. \A d \in Slots : CallOK(calls'[d], mishaps')
      BY <3>3, <3>4
    <3> QED
      BY <3>5, <3>6, <3>7 DEF CallsOK
  <2>5. Values'
    BY <1>1, <2>1 DEF Values, Mishaps, backendVars, storageVars
  <2> QED
    BY <2>1, <2>3, <2>4, <2>5, TypePartsNext
<1>5. CASE calls[c].kind = "plan"
  <2>1. /\ calls' = [calls EXCEPT ![c] = Request("user", token)]
        /\ UNCHANGED <<globalUser, guard, loader, planner, listed, mishaps>>
    BY <1>1, <1>5 DEF Succeed, Planned
  <2>2. "user" \in Kinds /\ loader # c
    BY <1>1, <1>5, ClientAssumption DEF Waits, Kinds
  <2>3. Fresh(c, "user", token)
    BY <1>1, <2>1, <2>2, FreshFacts
  <2>4. CallsOK'
    BY <2>1, <2>2, <2>3, FreshCalls
  <2>5. Values'
    BY <1>1, <2>1 DEF Values, backendVars, storageVars
  <2> QED
    BY <2>4, <2>5, TypePartsNext
<1>6. CASE calls[c].kind = "user"
  <2>1. /\ calls' = Gone(c) /\ UNCHANGED <<listed, loader, mishaps>>
        /\ planner' = IF planner = c THEN Nothing ELSE planner
        /\ globalUser' = calls[c].says /\ guard' \in {Nothing, calls[c].says}
        /\ calls[c].says \in Plans
    BY <1>1, <1>6 DEF Succeed, CallOK
  <2>2. loader # c
    BY <1>1, <1>6, ClientAssumption DEF Waits
  <2>3. CallsOK'
    BY <2>1, <2>2, GoneCalls
  <2>4. Values'
    BY <1>1, <2>1 DEF Values, backendVars, storageVars
  <2> QED
    BY <2>3, <2>4, TypePartsNext
<1> QED
  BY <1>1, <1>2, <1>3, <1>4, <1>5, <1>6

LEMMA TypeAccess ==
  ASSUME TypeInv, NEW c \in Slots, LoggedIn(c) \/ LoggedOut(c)
  PROVE  TypeInv'
<1>1. /\ calls[c] # Nothing /\ calls[c] \in Call
      /\ ClientTypeOK /\ Values /\ CallOK(calls[c], mishaps)
      /\ 0 \in 0 .. MaxIssued
      /\ UNCHANGED <<backendVars, leaving, listed, boundVars>>
  BY TypeParts, ClientAssumption
  DEF LoggedIn, LoggedOut, Heard, Under, TypeInv, ClientTypeOK
<1>2. /\ mishaps \subseteq mishaps' /\ mishaps' \subseteq mishaps \cup {"late"}
      /\ signedIn' \in BOOLEAN /\ signedOut' \in BOOLEAN
  BY DEF LoggedIn, LoggedOut
<1>3. \E user \in Plans \cup {Nothing}, t \in 0 .. MaxIssued :
         Appears(user, t, c, Gone(c)) /\ token' = t /\ cookie' \in {cookie, t}
  <2>1. CASE LoggedIn(c)
    <3>1. calls[c].says \in Plans /\ calls[c].new \in 0 .. MaxIssued
      BY <1>1, <2>1 DEF LoggedIn, Heard, Under, CallOK, Call
    <3>2. Appears(calls[c].says, calls[c].new, c, Gone(c))
      <4>1. At("app", calls[c].says, calls[c].new, c, Gone(c))
        BY <2>1 DEF LoggedIn, At
      <4> QED
        BY <4>1, <1>1, GoneFacts, PageAppears
    <3> QED
      BY <3>1, <3>2, <2>1 DEF LoggedIn
  <2>2. CASE LoggedOut(c)
    <3>1. Appears(Nothing, 0, c, Gone(c))
      BY <2>2, <1>1, GoneFacts, LoginAppears DEF LoggedOut
    <3> QED
      BY <3>1, <2>2, <1>1 DEF LoggedOut
  <2> QED
    BY <2>1, <2>2
<1>4. PICK user \in Plans \cup {Nothing}, t \in 0 .. MaxIssued :
         Appears(user, t, c, Gone(c)) /\ token' = t /\ cookie' \in {cookie, t}
  BY <1>3
<1>5. /\ CallsOK'
      /\ path' \in {"login", "app"}
      /\ globalUser' \in Plans \cup {Nothing} /\ guard' \in Plans \cup {Nothing}
      /\ loader' \in Slots \cup {Nothing} /\ planner' \in Slots \cup {Nothing}
  BY <1>2, <1>4, TypeAppears
<1>6. Values'
  BY <1>1, <1>2, <1>4, <1>5 DEF Values, Mishaps, backendVars
<1> QED
  BY <1>5, <1>6, TypePartsNext

\* What a failure does to the page.
Fails(c, t) ==
    \/ /\ calls[c].kind = "me" /\ loader = c
       /\ Appears(Nothing, t, c, Gone(c)) /\ path' = "login"
    \/ /\ calls' = Gone(c) /\ UNCHANGED <<path, guard, loader>> /\ loader # c
       /\ globalUser' = IF calls[c].kind = "me" THEN Nothing ELSE globalUser
       /\ planner' = IF planner = c THEN Nothing ELSE planner

LEMMA FailFails ==
  ASSUME TypeInv, NEW c \in Slots, calls[c] # Nothing, NEW t \in 0 .. MaxIssued, Fail(c, t)
  PROVE  Fails(c, t)
<1>1. ClientTypeOK /\ c # Nothing
  BY ClientAssumption DEF TypeInv
<1>2. CASE calls[c].kind = "me" /\ loader = c
  <2>1. AtLogin(Nothing, t, c, Gone(c))
    BY <1>2 DEF Fail
  <2> QED
    BY <1>1, <1>2, <2>1, LoginAppears, GoneFacts DEF Fails
<1>3. CASE ~(calls[c].kind = "me" /\ loader = c)
  <2>1. loader # c
    BY <1>1, <1>3 DEF TypeInv, Waits
  <2> QED
    BY <1>3, <2>1 DEF Fail, Fails
<1> QED
  BY <1>2, <1>3

LEMMA TypeFails ==
  ASSUME TypeInv, NEW c \in Slots, calls[c] # Nothing, NEW t \in 0 .. MaxIssued, Fails(c, t),
         mishaps \subseteq mishaps'
  PROVE  /\ CallsOK'
         /\ path' \in {"login", "app"}
         /\ globalUser' \in Plans \cup {Nothing} /\ guard' \in Plans \cup {Nothing}
         /\ loader' \in Slots \cup {Nothing} /\ planner' \in Slots \cup {Nothing}
<1>1. Values
  BY TypeParts
<1>2. CASE Appears(Nothing, t, c, Gone(c))
  BY <1>2, TypeAppears
<1>3. CASE /\ calls' = Gone(c) /\ UNCHANGED <<path, guard, loader>> /\ loader # c
           /\ globalUser' = IF calls[c].kind = "me" THEN Nothing ELSE globalUser
           /\ planner' = IF planner = c THEN Nothing ELSE planner
  <2>1. CallsOK'
    BY <1>3, GoneCalls
  <2> QED
    BY <1>1, <1>3, <2>1 DEF Values
<1> QED
  BY <1>2, <1>3 DEF Fails

LEMMA TypeFailed ==
  ASSUME TypeInv, NEW c \in Slots, Failed(c) \/ RefreshDenied(c)
  PROVE  TypeInv'
<1>1. /\ calls[c] # Nothing /\ Values /\ token \in 0 .. MaxIssued /\ 0 \in 0 .. MaxIssued
      /\ UNCHANGED <<backendVars, cookie, listed, boundVars, signedIn, signedOut>>
  BY TypeParts, ClientAssumption DEF Failed, RefreshDenied, Heard, Under, Values, storageVars
<1>2. /\ mishaps \subseteq mishaps' /\ mishaps' \subseteq mishaps \cup {"unsaid", "away"}
      /\ leaving' \in BOOLEAN /\ token' \in {token, 0}
  BY <1>1 DEF Failed, RefreshDenied, storageVars, Values
<1>3. \E t \in 0 .. MaxIssued : Fails(c, t)
  BY <1>1, FailFails DEF Failed, RefreshDenied
<1>4. PICK t \in 0 .. MaxIssued : Fails(c, t)
  BY <1>3
<1>5. /\ CallsOK'
      /\ path' \in {"login", "app"}
      /\ globalUser' \in Plans \cup {Nothing} /\ guard' \in Plans \cup {Nothing}
      /\ loader' \in Slots \cup {Nothing} /\ planner' \in Slots \cup {Nothing}
  BY <1>1, <1>2, <1>4, TypeFails
<1>6. Values'
  BY <1>1, <1>2, <1>5 DEF Values, Mishaps, backendVars
<1> QED
  BY <1>5, <1>6, TypePartsNext

LEMMA TypeRetries ==
  ASSUME TypeInv, NEW c \in Slots, Refuse(c) \/ Refreshed(c) \/ Unanswered(c)
  PROVE  TypeInv'
<1>1. ClientTypeOK /\ Values /\ CallOK(calls[c], mishaps) /\ 0 \in 0 .. MaxIssued
  BY TypeParts, ClientAssumption DEF TypeInv
<1>2. CASE Refuse(c)
  <2>0. /\ Same(c) /\ calls[c].heard /\ calls[c].at = "refused"
        /\ calls'[c].at = "refresh" /\ calls'[c].new = calls[c].new
        /\ calls'[c].says = calls[c].says /\ calls[c] # Nothing
        /\ calls'[c].kind = calls[c].kind /\ calls'[c].heard = calls[c].heard
        /\ mishaps \subseteq mishaps'
    BY <1>1, <1>2, RefuseFacts DEF Refuse, Same
  <2>1. CallOK(calls'[c], mishaps') /\ Same(c) /\ mishaps \subseteq mishaps'
    BY <1>1, <2>0 DEF CallOK, InRefresh
  <2>2. CallsOK'
    BY <1>2, <2>1, SameCalls DEF Refuse, userVars
  <2>3. Values'
    BY <1>1, <1>2 DEF Values, Mishaps, Refuse, backendVars, storageVars, userVars
  <2> QED
    BY <2>2, <2>3, TypePartsNext
<1>3. CASE Refreshed(c)
  <2>0. /\ Same(c) /\ calls[c].heard /\ calls[c].at = "granted"
        /\ calls'[c].at = "sent" /\ calls'[c].new = 0 /\ calls'[c].says = calls[c].says
        /\ calls[c] # Nothing /\ calls'[c].kind = calls[c].kind
        /\ calls'[c].heard = calls[c].heard /\ mishaps' = mishaps
    BY <1>1, <1>3, RefreshedFacts DEF Refreshed, clientHistory, Same
  <2>1. CallOK(calls'[c], mishaps') /\ Same(c)
    BY <1>1, <2>0 DEF CallOK, InRefresh
  <2>2. CallsOK'
    BY <1>3, <2>1, SameCalls DEF Refreshed, userVars, clientHistory
  <2>3. calls[c].new \in 0 .. MaxIssued
    BY <1>1, <1>3, RefreshedFacts DEF ClientTypeOK, Call, Same
  <2>4. Values'
    BY <1>1, <1>3, <2>3 DEF Values, Refreshed, backendVars, userVars, clientHistory
  <2> QED
    BY <2>2, <2>4, TypePartsNext
<1>4. CASE Unanswered(c)
  <2>1. calls[c] # Nothing /\ ~calls[c].heard /\ calls[c] \in Call /\ c # Nothing
        /\ calls' = Gone(c)
    BY <1>1, <1>4, ClientAssumption DEF Unanswered, Under, ClientTypeOK
  <2>2. loader # c /\ planner # c
    BY <2>1 DEF TypeInv, Waits
  <2>3. CallsOK'
    BY <1>4, <2>1, <2>2, GoneCalls DEF Unanswered, userVars, clientHistory
  <2>4. cookie' \in 0 .. MaxIssued
    <3>1. calls[c].new \in 0 .. MaxIssued
      BY <2>1 DEF Call
    <3> QED
      BY <1>1, <1>4, <3>1 DEF Unanswered, Values
  <2>5. Values'
    BY <1>1, <1>4, <2>4 DEF Values, Unanswered, backendVars, userVars, clientHistory
  <2> QED
    BY <2>3, <2>5, TypePartsNext
<1> QED
  BY <1>2, <1>3, <1>4

\* Who moves.
LEMMA Steps ==
  ASSUME ClientNext
  PROVE  \/ \E c \in Slots :
              \/ Serve(c) \/ ServeLogin(c) \/ ServeLogout(c)
              \/ RefreshRead(c) \/ RefreshDelete(c) \/ RefreshIssue(c) \/ RefreshFails(c)
              \/ Refuse(c) \/ Refreshed(c) \/ Succeed(c) \/ LoggedIn(c) \/ LoggedOut(c)
              \/ Failed(c) \/ RefreshDenied(c) \/ Unanswered(c) \/ Lose(c)
              \/ \E kind \in Kinds :
                    Calling(c, kind) /\ (IF kind = "login" THEN path = "login" ELSE InApp)
         \/ Expire \/ SessionExpires \/ ResetPassword \/ Open \/ Depart \/ GoBack
BY Makes DEF ClientNext, Server, Answers

LEMMA TypeQuiet ==
  ASSUME TypeInv, Expire \/ SessionExpires \/ ResetPassword \/ UNCHANGED clientVars
  PROVE  TypeInv'
<1>1. /\ Values /\ UNCHANGED <<loader, planner, calls>> /\ mishaps \subseteq mishaps'
      /\ mishaps' \subseteq mishaps \cup {"reset", "expired"} /\ tokens' \subseteq tokens
      /\ fresh' \subseteq fresh /\ cookie' \in {cookie, 0}
      /\ UNCHANGED <<issued, plan, surveyRow, token, path, globalUser, guard, leaving, listed,
                     signedIn, signedOut>>
  BY TypeParts
  DEF Expire, SessionExpires, ResetPassword, clientVars, backendVars, userVars, clientHistory,
      storageVars
<1>2. CallsOK'
  BY <1>1, MoreMishaps DEF TypeInv, ClientTypeOK, CallsOK, Waits
<1>3. Values'
  BY <1>1, ClientAssumption DEF Values, Mishaps
<1> QED
  BY <1>2, <1>3, TypePartsNext

LEMMA TypeInit == ClientInit => TypeInv
<1> SUFFICES ASSUME ClientInit PROVE TypeInv
  OBVIOUS
<1>1. Values
  <2>1. PICK n \in {0, 1} :
          /\ tokens = 1..n /\ issued = n /\ fresh = 1..n
          /\ token = n /\ cookie = n
          /\ path = IF n = 0 THEN "login" ELSE "app"
          /\ globalUser = IF n = 0 THEN Nothing ELSE "FREE"
          /\ guard = globalUser /\ signedIn = (n = 1)
          /\ listed = (IF n = 0 THEN "gone" ELSE "there")
    BY DEF ClientInit
  <2>2. n \in 0 .. MaxIssued /\ 1 .. n \subseteq Tokens
    BY ClientAssumption DEF Tokens
  <2>3. /\ path \in {"login", "app"} /\ listed \in {"there", "gone"}
        /\ globalUser \in Plans \cup {Nothing} /\ guard \in Plans \cup {Nothing}
        /\ signedIn \in BOOLEAN
    BY <2>1 DEF Plans
  <2>4. /\ plan \in Plans /\ surveyRow = "there" /\ loader = Nothing /\ planner = Nothing
        /\ leaving \in BOOLEAN /\ signedOut \in BOOLEAN /\ mishaps = {}
    BY DEF ClientInit, Plans
  <2> QED
    BY <2>1, <2>2, <2>3, <2>4 DEF Values
<1>2. CallsOK
  BY DEF ClientInit, CallsOK, Waits, CallOK
<1> QED
  BY <1>1, <1>2, TypeParts

LEMMA TypeStep == TypeInv /\ [ClientNext]_clientVars => TypeInv'
<1> SUFFICES ASSUME TypeInv, [ClientNext]_clientVars PROVE TypeInv'
  OBVIOUS
<1>1. ASSUME NEW c \in Slots,
             \/ Serve(c) \/ ServeLogin(c) \/ ServeLogout(c)
             \/ RefreshRead(c) \/ RefreshDelete(c) \/ RefreshIssue(c) \/ RefreshFails(c)
             \/ Refuse(c) \/ Refreshed(c) \/ Succeed(c) \/ LoggedIn(c) \/ LoggedOut(c)
             \/ Failed(c) \/ RefreshDenied(c) \/ Unanswered(c) \/ Lose(c)
      PROVE  TypeInv'
  BY <1>1, TypeServe, TypeServeAccess, TypeRefresh, TypeRetries, TypeSucceed, TypeAccess,
     TypeFailed, TypeLose
<1>2. ASSUME NEW c \in Slots, NEW kind \in Kinds, Calling(c, kind)
      PROVE  TypeInv'
  BY <1>2, TypeMake
<1> QED
  BY <1>1, <1>2, Steps, TypeReload, TypeGoBack, TypeQuiet

\* Every variable of the client and of the tokens behind it has its type.
THEOREM ClientTypeCorrect == ClientSpec => []ClientTypeOK
<1>1. TypeInv => ClientTypeOK
  BY DEF TypeInv
<1> QED
  BY <1>1, TypeInit, TypeStep, PTL DEF ClientSpec

-----------------------------------------------------------------------------
(* Tokens: one that is on its way is nobody else's.                         *)

Carries(c) == calls[c] # Nothing /\ calls[c].new # 0

\* What takes a token out of the database, or keeps it from it.
Unstored == {"reset", "expired", "failed"}

NewTokens ==
    /\ cookie <= issued /\ \A n \in tokens : n <= issued
    /\ \A c \in Slots : calls[c] # Nothing =>
          calls[c].cookie <= issued /\ calls[c].new <= issued
    /\ \A c \in Slots : Carries(c) =>
          /\ calls[c].new # cookie
          /\ calls[c].at \in {"ok", "granted"} => calls[c].new \in tokens \/ mishaps \cap Unstored # {}
          /\ \A d \in Slots : calls[d] # Nothing =>
                calls[d].cookie # calls[c].new /\ (d # c => calls[d].new # calls[c].new)

\* The call in d brings no token it did not bring.
Follows(d) ==
    calls'[d] # Nothing =>
        \/ /\ calls[d] # Nothing /\ calls'[d].cookie = calls[d].cookie
           /\ calls'[d].new = calls[d].new
           /\ calls'[d].new # 0 /\ calls'[d].at \in {"ok", "granted"} => calls'[d].at = calls[d].at
        \/ /\ calls'[d].new = 0
           /\ \/ calls'[d].cookie = cookie
              \/ calls[d] # Nothing /\ calls'[d].cookie = calls[d].cookie

\* A cookie that is stored is one that has arrived.
Stores ==
    \/ cookie' \in {cookie, 0}
    \/ \E c \in Slots : /\ Carries(c) /\ cookie' = calls[c].new
                        /\ calls'[c] = Nothing \/ calls'[c].new = 0

LEMMA TokensKept ==
  ASSUME TypeInv, NewTokens, issued' = issued, \A d \in Slots : Follows(d), Stores,
         tokens' \subseteq tokens, mishaps \subseteq mishaps',
         \A t \in tokens \ tokens' :
            mishaps' \cap Unstored # {} \/ \A c \in Slots : Carries(c) => calls[c].new # t
  PROVE  NewTokens'
<1>1. issued \in Nat /\ cookie \in Nat /\ \A c \in Slots : calls[c] # Nothing =>
         calls[c].cookie \in Nat /\ calls[c].new \in Nat
  BY DEF TypeInv, ClientTypeOK, Call
<1>2. cookie' <= issued' /\ \A n \in tokens' : n <= issued'
  BY <1>1 DEF NewTokens, Stores, Carries
<1>3. \A c \in Slots : calls'[c] # Nothing =>
          calls'[c].cookie <= issued' /\ calls'[c].new <= issued'
  BY <1>1 DEF NewTokens, Follows
<1>4. ASSUME NEW c \in Slots, calls'[c] # Nothing, calls'[c].new # 0
      PROVE  /\ calls'[c].new # cookie'
             /\ calls'[c].at \in {"ok", "granted"} =>
                   calls'[c].new \in tokens' \/ mishaps' \cap Unstored # {}
             /\ \A d \in Slots : calls'[d] # Nothing =>
                   calls'[d].cookie # calls'[c].new /\ (d # c => calls'[d].new # calls'[c].new)
  <2>1. /\ Carries(c) /\ calls'[c].new = calls[c].new
        /\ calls'[c].at \in {"ok", "granted"} => calls[c].at \in {"ok", "granted"}
    BY <1>4 DEF Follows, Carries
  <2>2. calls'[c].new # cookie'
    BY <1>4, <2>1 DEF NewTokens, Stores, Carries
  <2>3. ASSUME NEW d \in Slots, calls'[d] # Nothing
        PROVE  calls'[d].cookie # calls'[c].new /\ (d # c => calls'[d].new # calls'[c].new)
    BY <1>4, <2>1, <2>3 DEF NewTokens, Follows, Carries
  <2>4. calls'[c].at \in {"ok", "granted"} => calls'[c].new \in tokens' \/ mishaps' \cap Unstored # {}
    BY <2>1 DEF NewTokens
  <2> QED
    BY <2>2, <2>3, <2>4
<1> QED
  BY <1>2, <1>3, <1>4 DEF NewTokens, Carries

\* What happens to the calls when no token is given out.
LEMMA StillFollows ==
  ASSUME NEW c \in Slots, Still(c), calls'[c].new = calls[c].new,
         calls'[c].new = 0 \/ calls'[c].at \notin {"ok", "granted"}
  PROVE  \A d \in Slots : Follows(d)
BY DEF Still, Same, Only, Follows

LEMMA FreshFollows ==
  ASSUME NEW c \in Slots, NEW kind, NEW auth, Fresh(c, kind, auth)
  PROVE  \A d \in Slots : Follows(d)
BY DEF Fresh, Only, Follows

LEMMA GoneFollows ==
  ASSUME TypeInv, NEW c \in Slots, calls' = Gone(c)
  PROVE  \A d \in Slots : Follows(d)
BY GoneFacts DEF TypeInv, Follows

LEMMA AppearsFollows ==
  ASSUME TypeInv, NEW user, NEW t \in 0 .. MaxIssued, NEW on \in Slots,
         NEW left \in {calls, Gone(on), Unheard(calls)}, Appears(user, t, on, left)
  PROVE  \A d \in Slots : Follows(d)
<1>1. ClientTypeOK /\ "me" \in Kinds
  BY DEF TypeInv, Kinds
<1>2. /\ left \in [Slots -> Call \cup {Nothing}]
      /\ \A d \in Slots : left[d] # Nothing =>
            /\ calls[d] # Nothing /\ left[d].cookie = calls[d].cookie
            /\ left[d].new = calls[d].new /\ left[d].at = calls[d].at
  <2>1. CASE left = calls
    BY <1>1, <2>1 DEF ClientTypeOK
  <2>2. CASE left = Gone(on)
    BY <1>1, <2>2, GoneFacts
  <2>3. CASE left = Unheard(calls)
    BY <1>1, <2>3, UnheardFacts
  <2> QED
    BY <2>1, <2>2, <2>3
<1>3. CASE calls' = left
  BY <1>2, <1>3 DEF Follows
<1>4. CASE calls' = [left EXCEPT ![on] = Request("me", t)]
  <2>1. calls'[on] = Request("me", t) /\ \A d \in Slots \ {on} : calls'[d] = left[d]
    BY <1>2, <1>4
  <2>2. calls'[on].new = 0 /\ calls'[on].cookie = cookie
    BY <1>1, <2>1, RequestType
  <2> QED
    BY <1>2, <2>1, <2>2 DEF Follows
<1> QED
  BY <1>3, <1>4 DEF Appears

\* A step in which a server serves no token, or nothing is served.
Ungranted == UNCHANGED <<issued, cookie>> /\ tokens' \subseteq tokens /\ mishaps \subseteq mishaps'

LEMMA StillTokens ==
  ASSUME TypeInv, NewTokens, NEW c \in Slots, Still(c), calls'[c].new = calls[c].new,
         calls'[c].new = 0 \/ calls'[c].at \notin {"ok", "granted"},
         Ungranted, tokens' \in {tokens, tokens \ {calls[c].cookie}}
  PROVE  NewTokens'
<1>1. \A t \in tokens \ tokens' : \A d \in Slots : Carries(d) => calls[d].new # t
  BY DEF NewTokens, Still, Same
<1>2. Stores
  BY DEF Stores, Ungranted
<1> QED
  BY <1>1, <1>2, StillFollows, TokensKept DEF Ungranted

LEMMA TokensServe ==
  ASSUME TypeInv, NewTokens, NEW c \in Slots,
         Serve(c) \/ ServeLogout(c) \/ RefreshRead(c) \/ RefreshDelete(c) \/ RefreshFails(c)
         \/ Lose(c) \/ (ServeLogin(c) /\ ~Issued)
  PROVE  NewTokens'
<1> USE DEF CallPhases
<1>1. /\ ClientTypeOK /\ calls[c] # Nothing /\ CallOK(calls[c], mishaps)
      /\ plan \in Plans /\ surveyRow \in {"there", "gone"}
  BY DEF TypeInv, ClientTypeOK, Serve, ServeLogout, RefreshRead, RefreshDelete, RefreshFails,
     Lose, ServeLogin, Under
<1>2. Ungranted /\ tokens' \in {tokens, tokens \ {calls[c].cookie}}
  BY DeleteFacts
  DEF Ungranted, Serve, ServeLogout, RefreshRead, RefreshDelete, RefreshFails, Lose, ServeLogin,
      backendVars, storageVars, clientHistory
<1>3. /\ Still(c) /\ calls'[c].new = calls[c].new
      /\ calls'[c].new = 0 \/ calls'[c].at \notin {"ok", "granted"}
  <2>1. CASE Serve(c)
    <3>1. calls[c].at = "sent"
      BY <2>1 DEF Serve, Under
    <3>2. calls[c].new = 0
      BY <1>1, <3>1 DEF CallOK
    <3>3. \/ \E phase \in CallPhases : To(c, phase)
          \/ Answer(c, plan) \/ Answer(c, surveyRow)
      BY <2>1 DEF Serve
    <3> QED
      BY <1>1, <3>2, <3>3, ToFacts, AnswerFacts
  <2>2. CASE ServeLogout(c)
    <3>1. calls[c].at = "sent" /\ To(c, "ok")
      BY <2>2 DEF ServeLogout, Under
    <3>2. calls[c].new = 0
      BY <1>1, <3>1 DEF CallOK
    <3> QED
      BY <1>1, <3>1, <3>2, ToFacts
  <2>3. CASE RefreshRead(c) \/ RefreshDelete(c) \/ RefreshFails(c) \/ Lose(c) \/ (ServeLogin(c) /\ ~Issued)
    <3>1. \E phase \in CallPhases \ {"ok", "granted"} : To(c, phase)
      BY <2>3 DEF RefreshRead, RefreshDelete, RefreshFails, Lose, ServeLogin
    <3> QED
      BY <1>1, <3>1, ToFacts
  <2> QED
    BY <2>1, <2>2, <2>3
<1> QED
  BY <1>2, <1>3, StillTokens

LEMMA TokensIssue ==
  ASSUME TypeInv, NewTokens, NEW c \in Slots, ServeLogin(c) \/ RefreshIssue(c), Issued
  PROVE  NewTokens'
<1> USE DEF CallPhases
<1>1. /\ ClientTypeOK /\ Values /\ calls[c] # Nothing /\ calls[c].at \in {"sent", "deleted"}
      /\ CallOK(calls[c], mishaps) /\ cookie' = cookie /\ mishaps \subseteq mishaps'
      /\ Issue \in 0 .. MaxIssued /\ Issue = issued + 1 /\ issued' = Issue
  BY TypeParts, IssueTypes, StoreFacts
  DEF TypeInv, ServeLogin, RefreshIssue, Under, Issue, storageVars, clientHistory
<1>2. CASE StoreToken
           /\ calls' = [calls EXCEPT ![c].at = "ok", ![c].new = Issue, ![c].says = plan]
  <2>1. Still(c) /\ calls'[c].new = Issue
    BY <1>1, <1>2, GivenFacts
  <2> QED
    BY <1>1, <1>2, <2>1, StoreFacts DEF Unstored, NewTokens, Carries, Still, Same, Only, TypeInv, ClientTypeOK, Call
<1>3. CASE StoreToken
           /\ calls' = [calls EXCEPT ![c].at = "granted", ![c].new = Issue]
  <2>1. Still(c) /\ calls'[c].new = Issue
    BY <1>1, <1>3, GrantedFacts
  <2> QED
    BY <1>1, <1>3, <2>1, StoreFacts DEF Unstored, NewTokens, Carries, Still, Same, Only, TypeInv, ClientTypeOK, Call
<1>4. CASE To(c, "refused") /\ UNCHANGED <<issued, fresh, tokens>>
  BY <1>1, <1>4 DEF ClientTypeOK
<1> QED
  BY <1>2, <1>3, <1>4 DEF ServeLogin, RefreshIssue

LEMMA TokensAnswers ==
  ASSUME TypeInv, NewTokens, NEW c \in Slots,
         Refuse(c) \/ Refreshed(c) \/ Succeed(c) \/ LoggedIn(c) \/ LoggedOut(c)
         \/ Failed(c) \/ RefreshDenied(c) \/ Unanswered(c)
  PROVE  NewTokens'
<1>1. /\ ClientTypeOK /\ calls[c] # Nothing /\ calls[c] \in Call /\ CallOK(calls[c], mishaps)
      /\ token \in 0 .. MaxIssued /\ 0 \in 0 .. MaxIssued
  <2>1. calls[c] # Nothing
    BY DEF Refuse, Refreshed, Succeed, LoggedIn, LoggedOut, Failed, RefreshDenied, Unanswered,
       Under, Heard
  <2>2. 0 \in 0 .. MaxIssued
    BY ClientAssumption
  <2> QED
    BY <2>1, <2>2 DEF TypeInv, ClientTypeOK
<1>2. UNCHANGED <<issued, tokens>> /\ mishaps \subseteq mishaps'
  <2>1. CASE Succeed(c)
    <3>1. mishaps \subseteq mishaps'
      <4>1. calls[c].kind \in {"me", "user", "list", "old", "delete", "plan"}
        BY <2>1, <1>1 DEF Succeed, Call, Kinds
      <4> QED
        BY <2>1, <4>1 DEF Succeed
    <3> QED
      BY <2>1, <3>1 DEF Succeed, backendVars
  <2> QED
    BY <2>1 DEF Refuse, Refreshed, LoggedIn, LoggedOut, Failed, RefreshDenied, Unanswered,
       backendVars, clientHistory
<1>3. (\A d \in Slots : Follows(d)) /\ Stores
  <2>1. CASE Refuse(c)
    <3>1. \A d \in Slots : Follows(d)
      <4>1. calls[c].new = 0
        BY <2>1, <1>1, RefuseFacts DEF CallOK, Same
      <4> QED
        BY <2>1, <4>1, <1>1, RefuseFacts DEF Same, Only, Follows
    <3> QED
      BY <2>1, <3>1 DEF Stores, Refuse, storageVars
  <2>2. CASE Refreshed(c)
    <3>1. \A d \in Slots : Follows(d)
      BY <2>2, <1>1, RefreshedFacts DEF Same, Only, Follows
    <3>2. calls[c].new # 0 /\ calls'[c].new = 0 /\ cookie' = calls[c].new
      BY <2>2, <1>1, RefreshedFacts DEF CallOK, Refreshed
    <3> QED
      BY <1>1, <3>1, <3>2 DEF Stores, Carries
  <2>3. CASE Succeed(c)
    <3>1. cookie' = cookie
      BY <2>3 DEF Succeed, storageVars
    <3>2. calls' = Gone(c) \/ calls' = Again(c) \/ calls' = [calls EXCEPT ![c] = Request("user", token)]
      <4>1. calls[c].kind \in {"me", "user", "list", "old", "delete", "plan"}
        BY <2>3, <1>1 DEF Succeed, Call, Kinds
      <4> QED
        BY <2>3, <4>1 DEF Succeed, Planned
    <3>3. CASE calls' = Again(c)
      <4>1. "list" \in Kinds
        BY DEF Kinds
      <4>2. calls'[c].new = 0 /\ calls'[c].cookie = cookie
        BY <1>1, <3>3, <4>1, RequestType DEF Again
      <4>3. ASSUME NEW d \in Slots \ {c}, calls'[d] # Nothing PROVE Follows(d)
        <5>1. CASE d \in Waiting("list")
          <6>1. calls[d] # Nothing /\ calls[d] \in Call
            BY <5>1, <1>1 DEF Waiting, ClientTypeOK
          <6>2. calls'[d] = [calls[d] EXCEPT !.kind = "old"]
            BY <3>3, <5>1 DEF Again
          <6> QED
            BY <6>1, <6>2 DEF Follows, Call
        <5>2. CASE calls'[d] = calls[d]
          BY <4>3, <5>2 DEF Follows
        <5> QED
          BY <3>3, <5>1, <5>2 DEF Again
      <4> QED
        BY <3>1, <4>2, <4>3 DEF Stores, Follows
    <3>4. CASE calls' = [calls EXCEPT ![c] = Request("user", token)]
      <4>1. "user" \in Kinds
        BY DEF Kinds
      <4> QED
        BY <1>1, <3>1, <3>4, <4>1, FreshFacts, FreshFollows DEF Stores
    <3> QED
      BY <3>1, <3>2, <3>3, <3>4, GoneFollows DEF Stores
  <2>4. CASE LoggedIn(c)
    <3>1. /\ calls[c].says \in Plans /\ calls[c].new \in 0 .. MaxIssued /\ calls[c].new # 0
          /\ cookie' = calls[c].new
      BY <1>1, <2>4 DEF LoggedIn, Heard, Under, CallOK, Call
    <3>2. calls[c].says # Nothing
      BY <3>1, NothingAssumption
    <3>3. calls' = Gone(c)
      BY <2>4, <3>2 DEF LoggedIn, AtGuard
    <3> QED
      BY <1>1, <3>1, <3>3, GoneFollows, GoneFacts DEF Stores, Carries
  <2>5. CASE LoggedOut(c)
    <3>1. Appears(Nothing, 0, c, Gone(c))
      BY <2>5, <1>1, GoneFacts, LoginAppears DEF LoggedOut
    <3> QED
      BY <1>1, <2>5, <3>1, AppearsFollows DEF Stores, LoggedOut
  <2>6. CASE Failed(c) \/ RefreshDenied(c)
    <3>1. \E t \in 0 .. MaxIssued : Fails(c, t)
      BY <1>1, <2>6, FailFails DEF Failed, RefreshDenied
    <3>2. \A d \in Slots : Follows(d)
      BY <1>1, <3>1, AppearsFollows, GoneFollows DEF Fails
    <3> QED
      BY <2>6, <3>2 DEF Stores, Failed, RefreshDenied, storageVars
  <2>7. CASE Unanswered(c)
    <3>1. calls' = Gone(c)
      BY <2>7 DEF Unanswered
    <3>2. cookie' \in {cookie, 0} \/ (calls[c].new # 0 /\ cookie' = calls[c].new)
      BY <2>7 DEF Unanswered
    <3> QED
      BY <1>1, <3>1, <3>2, GoneFollows, GoneFacts DEF Stores, Carries
  <2> QED
    BY <2>1, <2>2, <2>3, <2>4, <2>5, <2>6, <2>7
<1> QED
  <2>1. tokens \ tokens' = {} /\ tokens' \subseteq tokens /\ issued' = issued
    BY <1>2
  <2> QED
    BY <1>2, <1>3, <2>1, TokensKept

LEMMA TokensPages ==
  ASSUME TypeInv, NewTokens,
         \/ \E c \in Slots, kind \in Kinds : Calling(c, kind)
         \/ Open \/ Depart \/ GoBack
         \/ Expire \/ SessionExpires \/ ResetPassword \/ UNCHANGED clientVars
  PROVE  NewTokens'
<1>1. ClientTypeOK /\ token \in 0 .. MaxIssued
  BY DEF TypeInv, ClientTypeOK
<1>2. CASE \E c \in Slots, kind \in Kinds : Calling(c, kind)
  <2>1. PICK c \in Slots, kind \in Kinds : Calling(c, kind)
    BY <1>2
  <2>2. /\ Fresh(c, kind, token) /\ UNCHANGED <<issued, tokens, cookie>>
        /\ mishaps \subseteq mishaps'
    BY <2>1, CallMade DEF Calling
  <2> QED
    BY <2>2, FreshFollows, TokensKept DEF Stores
<1>3. CASE Open \/ Depart
  <2>1. UNCHANGED <<issued, tokens, cookie>> /\ mishaps \subseteq mishaps'
    BY <1>3 DEF Open, Depart, backendVars, storageVars
  <2>2. Unheard(calls) \in [Slots -> Call \cup {Nothing}]
    BY <1>1, UnheardFacts
  <2>3. \E c \in Slots : Appears(Nothing, token, c, Unheard(calls))
    BY <1>3, <2>2, PageAppears, LoginAppears DEF Open, Depart
  <2> QED
    BY <1>1, <2>1, <2>3, AppearsFollows, TokensKept DEF Stores
<1>4. CASE GoBack
  <2>1. UNCHANGED <<issued, tokens, cookie>> /\ mishaps \subseteq mishaps'
    BY <1>4 DEF GoBack, backendVars, storageVars, clientHistory
  <2>2. \E c \in Slots : Appears(globalUser, token, c, calls)
    BY <1>1, <1>4, PageAppears DEF GoBack, ClientTypeOK
  <2> QED
    BY <1>1, <2>1, <2>2, AppearsFollows, TokensKept DEF Stores
<1>5. CASE Expire \/ SessionExpires \/ ResetPassword \/ UNCHANGED clientVars
  <2>1. /\ UNCHANGED <<issued, calls>> /\ mishaps \subseteq mishaps'
        /\ cookie' \in {cookie, 0} /\ tokens' \subseteq tokens
        /\ (tokens' # tokens => mishaps' \cap Unstored # {})
    BY <1>5 DEF Unstored, Expire, SessionExpires, ResetPassword, clientVars, backendVars, storageVars, clientHistory
  <2>2. \A d \in Slots : Follows(d)
    BY <2>1 DEF Follows
  <2> QED
    BY <2>1, <2>2, TokensKept DEF Stores
<1> QED
  BY <1>2, <1>3, <1>4, <1>5

LEMMA TokensStep == TypeInv /\ NewTokens /\ [ClientNext]_clientVars => NewTokens'
<1> SUFFICES ASSUME TypeInv, NewTokens, [ClientNext]_clientVars PROVE NewTokens'
  OBVIOUS
<1>1. ASSUME NEW c \in Slots,
             \/ Serve(c) \/ ServeLogin(c) \/ ServeLogout(c)
             \/ RefreshRead(c) \/ RefreshDelete(c) \/ RefreshIssue(c) \/ RefreshFails(c) \/ Lose(c)
      PROVE  NewTokens'
  <2>1. RefreshIssue(c) => Issued
    BY DEF RefreshIssue
  <2> QED
    BY <1>1, <2>1, TokensServe, TokensIssue
<1>2. ASSUME NEW c \in Slots,
             \/ Refuse(c) \/ Refreshed(c) \/ Succeed(c) \/ LoggedIn(c) \/ LoggedOut(c)
             \/ Failed(c) \/ RefreshDenied(c) \/ Unanswered(c)
      PROVE  NewTokens'
  BY <1>2, TokensAnswers
<1> QED
  BY <1>1, <1>2, Steps, TokensPages

LEMMA TokensInit == ClientInit => NewTokens
<1> SUFFICES ASSUME ClientInit PROVE NewTokens
  OBVIOUS
<1>1. PICK n \in {0, 1} : tokens = 1 .. n /\ issued = n /\ cookie = n
  BY DEF ClientInit
<1>2. \A c \in Slots : calls[c] = Nothing
  BY DEF ClientInit
<1> QED
  BY <1>1, <1>2 DEF NewTokens, Carries

-----------------------------------------------------------------------------
(* The session is kept.                                                     *)

\* Of the refreshes under way.
Alone == \A c, d \in Refreshing : c = d

\* A session that nothing has happened to: its refresh token is in the database,
\* unless the one refresh under way has taken it out.
Whole ==
    /\ token # 0
    /\ \A c \in Slots : calls[c] # Nothing => calls[c].kind # "logout"
    /\ Refreshing = {} => cookie \in tokens
    /\ \A c \in Refreshing :
          /\ calls[c].at # "denied"
          /\ calls[c].at \in {"refresh", "read"} => calls[c].cookie = cookie /\ cookie \in tokens

Kept == mishaps \subseteq OfPages => Alone /\ (signedIn => Whole)

\* Refreshes go on as they were, and no sign-out begins.
SameRefreshes ==
    /\ Refreshing' = Refreshing
    /\ \A c \in Refreshing : calls'[c].at = calls[c].at /\ calls'[c].cookie = calls[c].cookie
    /\ \A c \in Slots : calls'[c] # Nothing /\ calls'[c].kind = "logout" =>
          ~signedIn' \/ (calls[c] # Nothing /\ calls[c].kind = "logout")

LEMMA KeptSame ==
  ASSUME Kept, SameRefreshes, UNCHANGED <<token, cookie>>, mishaps \subseteq mishaps',
         signedIn' => signedIn, signedIn => tokens \subseteq tokens'
  PROVE  Kept'
BY DEF Kept, Alone, Whole, SameRefreshes

LEMMA KeptBefore ==
  ASSUME Kept, Refreshing' \subseteq Refreshing, mishaps \subseteq mishaps',
         mishaps' \subseteq OfPages => ~signedIn'
  PROVE  Kept'
BY DEF Kept, Alone

\* Only c has changed, and it is not being refreshed.
LEMMA OnlySame ==
  ASSUME NEW c \in Slots, Only(c), c \notin Refreshing,
         calls'[c] # Nothing =>
            /\ calls'[c].at \notin InRefresh
            /\ calls'[c].kind = "logout" =>
                  ~signedIn' \/ (calls[c] # Nothing /\ calls[c].kind = "logout")
  PROVE  SameRefreshes
BY DEF Only, Refreshing, Under, InRefresh, SameRefreshes

LEMMA GoneSame ==
  ASSUME TypeInv, NEW c \in Slots, c \notin Refreshing, calls' = Gone(c)
  PROVE  SameRefreshes
<1>1. Only(c) /\ calls'[c] = Nothing
  BY GoneFacts DEF Only, TypeInv
<1> QED
  BY <1>1, OnlySame

LEMMA AppearsSame ==
  ASSUME TypeInv, NEW user, NEW t \in 0 .. MaxIssued, NEW on \in Slots,
         NEW left \in {calls, Gone(on)}, Appears(user, t, on, left), on \notin Refreshing
  PROVE  SameRefreshes
<1>1. ClientTypeOK /\ "me" \in Kinds
  BY DEF TypeInv, Kinds
<1>2. /\ left \in [Slots -> Call \cup {Nothing}] /\ left[on] \in {calls[on], Nothing}
      /\ \A d \in Slots \ {on} : left[d] = calls[d]
  BY <1>1, GoneFacts DEF ClientTypeOK
<1>3. CASE calls' = left
  BY <1>2, <1>3, OnlySame DEF Only, Refreshing, Under, InRefresh
<1>4. CASE calls' = [left EXCEPT ![on] = Request("me", t)]
  <2>1. /\ calls'[on] = Request("me", t) /\ \A d \in Slots \ {on} : calls'[d] = calls[d]
        /\ calls' \in [Slots -> Call \cup {Nothing}]
    BY <1>1, <1>2, <1>4, RequestType
  <2>2. calls'[on].kind = "me" /\ calls'[on].at \notin InRefresh
    BY <1>1, <2>1, RequestType DEF InRefresh
  <2> QED
    BY <2>1, <2>2, OnlySame DEF Only
<1> QED
  BY <1>3, <1>4 DEF Appears

LEMMA KeptServe ==
  ASSUME TypeInv, Kept, NEW c \in Slots, Serve(c) \/ ServeLogin(c) \/ ServeLogout(c)
  PROVE  Kept'
<1> USE DEF CallPhases
<1>1. /\ ClientTypeOK /\ Values /\ calls[c] # Nothing /\ calls[c].at = "sent"
      /\ plan \in Plans /\ surveyRow \in {"there", "gone"}
  BY TypeParts DEF TypeInv, ClientTypeOK, Serve, ServeLogin, ServeLogout, Under
<1>2. /\ UNCHANGED <<token, cookie, signedIn>> /\ mishaps \subseteq mishaps'
      /\ ServeLogout(c) \/ tokens \subseteq tokens'
  BY StoreFacts DEF Serve, ServeLogin, ServeLogout, storageVars, clientHistory
<1>3. Still(c) /\ calls'[c].at \in {"ok", "refused", "error"}
  <2>1. \/ \E phase \in {"ok", "refused", "error"} : To(c, phase)
        \/ Answer(c, plan) \/ Answer(c, surveyRow)
        \/ /\ Issued
           /\ calls' = [calls EXCEPT ![c].at = "ok", ![c].new = Issue, ![c].says = plan]
    BY DEF Serve, ServeLogin, ServeLogout
  <2> QED
    BY <1>1, <2>1, ToFacts, AnswerFacts, GivenFacts, IssueTypes
<1>4. SameRefreshes
  <2>1. c \notin Refreshing
    BY <1>1 DEF Refreshing, Under
  <2> QED
    BY <1>3, <2>1, OnlySame DEF Still, Same, InRefresh
<1>5. CASE tokens \subseteq tokens'
  BY <1>2, <1>4, <1>5, KeptSame
<1>6. CASE ServeLogout(c)
  <2>1. calls[c].kind = "logout"
    BY <1>6 DEF ServeLogout
  <2>2. mishaps' \subseteq OfPages => ~signedIn'
    BY <1>1, <1>2, <2>1 DEF Kept, Whole
  <2> QED
    BY <1>2, <1>4, <2>2, KeptBefore DEF SameRefreshes
<1> QED
  BY <1>2, <1>5, <1>6

LEMMA KeptRefresh ==
  ASSUME TypeInv, NewTokens, Kept, NEW c \in Slots,
         RefreshRead(c) \/ RefreshDelete(c) \/ RefreshIssue(c)
  PROVE  Kept'
<1> USE DEF CallPhases
<1>1. /\ ClientTypeOK /\ Values /\ calls[c] # Nothing /\ c \in Refreshing
      /\ UNCHANGED <<token, cookie, signedIn>> /\ mishaps \subseteq mishaps'
  BY TypeParts, StoreFacts
  DEF TypeInv, RefreshRead, RefreshDelete, RefreshIssue, Under, Refreshing, storageVars,
      clientHistory
<1>2. SUFFICES ASSUME mishaps \subseteq OfPages PROVE Alone' /\ (signedIn => Whole')
  BY <1>1 DEF Kept
<1>3. Refreshing = {c}
  BY <1>1, <1>2 DEF Kept, Alone
<1>4. Still(c) /\ calls'[c].at \in InRefresh
  <2>1. \/ \E phase \in InRefresh : To(c, phase)
        \/ Issued /\ calls' = [calls EXCEPT ![c].at = "granted", ![c].new = Issue]
    BY DEF RefreshRead, RefreshDelete, RefreshIssue, InRefresh
  <2> QED
    BY <1>1, <2>1, ToFacts, GrantedFacts, IssueTypes DEF InRefresh
<1>5. Refreshing' = {c}
  BY <1>3, <1>4 DEF Refreshing, Under, Still, Same, Only, InRefresh
<1>6. ASSUME signedIn PROVE Whole'
  <2>1. Whole
    BY <1>2, <1>6 DEF Kept
  <2>2. \A d \in Slots : calls'[d] # Nothing => calls'[d].kind # "logout"
    BY <1>4, <2>1 DEF Whole, Still, Same, Only
  <2>3. /\ calls'[c].at # "denied"
        /\ calls'[c].at \in {"refresh", "read"} => calls'[c].cookie = cookie' /\ cookie' \in tokens'
    <3>1. CASE RefreshRead(c)
      <4>1. calls[c].at = "refresh" /\ calls[c].cookie = cookie /\ cookie \in tokens
        BY <1>3, <2>1, <3>1 DEF Whole, RefreshRead, Under
      <4>2. To(c, "read") /\ tokens' = tokens
        BY <3>1, <4>1 DEF RefreshRead, backendVars
      <4> QED
        BY <1>1, <4>1, <4>2, ToFacts DEF Still
    <3>2. CASE RefreshDelete(c)
      <4>1. calls'[c].at = "deleted"
        BY <1>1, <3>2, ToFacts DEF RefreshDelete
      <4> QED
        BY <4>1
    <3>3. CASE RefreshIssue(c)
      <4>1. calls'[c].at = "granted"
        BY <1>1, <3>3, GrantedFacts, IssueTypes DEF RefreshIssue
      <4> QED
        BY <4>1
    <3> QED
      BY <3>1, <3>2, <3>3
  <2>4. token' # 0 /\ Refreshing' # {}
    BY <1>1, <1>5, <2>1 DEF Whole
  <2> QED
    BY <1>5, <2>2, <2>3, <2>4 DEF Whole
<1> QED
  BY <1>5, <1>6 DEF Alone

LEMMA KeptRetries ==
  ASSUME TypeInv, NewTokens, Kept, NEW c \in Slots, Refuse(c) \/ Refreshed(c)
  PROVE  Kept'
<1>1. ClientTypeOK /\ CallOK(calls[c], mishaps)
  BY DEF TypeInv
<1>2. CASE Refuse(c)
  <2>1. /\ Same(c) /\ calls[c].at = "refused" /\ calls'[c].at = "refresh"
        /\ calls'[c].cookie = cookie
        /\ UNCHANGED <<token, cookie, tokens, signedIn>>
        /\ mishaps \subseteq mishaps'
        /\ Refreshing # {} => "together" \in mishaps'
    BY <1>1, <1>2, RefuseFacts DEF Refuse, backendVars, storageVars
  <2>2. SUFFICES ASSUME mishaps' \subseteq OfPages PROVE Alone' /\ (signedIn => Whole')
    BY <2>1 DEF Kept
  <2>3. Refreshing = {} /\ mishaps \subseteq OfPages
    BY <2>1, <2>2 DEF OfPages
  <2>4. Refreshing' = {c}
    BY <2>1, <2>3 DEF Refreshing, Under, Same, Only
  <2>5. ASSUME signedIn PROVE Whole'
    <3>1. Whole
      BY <2>3, <2>5 DEF Kept
    <3>2. \A d \in Slots : calls'[d] # Nothing => calls'[d].kind # "logout"
      BY <2>1, <3>1 DEF Whole, Same, Only
    <3> QED
      BY <2>1, <2>3, <2>4, <3>1, <3>2 DEF Whole
  <2> QED
    BY <2>4, <2>5 DEF Alone
<1>3. CASE Refreshed(c)
  <2>1. /\ Same(c) /\ calls[c].at = "granted" /\ calls'[c].at = "sent"
        /\ token' = calls[c].new /\ cookie' = calls[c].new
        /\ UNCHANGED <<tokens, signedIn, mishaps>>
    BY <1>1, <1>3, RefreshedFacts DEF Refreshed, backendVars, clientHistory
  <2>2. SUFFICES ASSUME mishaps \subseteq OfPages PROVE Alone' /\ (signedIn => Whole')
    BY <2>1 DEF Kept
  <2>3. Refreshing = {c}
    BY <2>1, <2>2 DEF Kept, Alone, Refreshing, Under, Same
  <2>4. Refreshing' = {}
    BY <2>1, <2>3 DEF Refreshing, Under, Same, Only
  <2>5. calls[c].new # 0 /\ calls[c].new \in tokens
    <3>1. calls[c].new # 0
      BY <1>1, <2>1 DEF CallOK, Same
    <3>2. mishaps \cap Unstored = {}
      BY <2>2 DEF OfPages, Unstored
    <3> QED
      BY <2>1, <3>1, <3>2 DEF NewTokens, Carries, Same
  <2>6. ASSUME signedIn PROVE Whole'
    <3>1. \A d \in Slots : calls'[d] # Nothing => calls'[d].kind # "logout"
      BY <2>1, <2>2, <2>6 DEF Kept, Whole, Same, Only
    <3> QED
      BY <2>1, <2>4, <2>5, <3>1 DEF Whole
  <2> QED
    BY <2>4, <2>6 DEF Alone
<1> QED
  BY <1>2, <1>3

LEMMA AgainSame ==
  ASSUME TypeInv, NEW c \in Slots, c \notin Refreshing, calls' = Again(c)
  PROVE  /\ calls'[c] = Request("list", token)
         /\ \A d \in Slots \ {c} :
               \/ calls'[d] = calls[d] /\ d \notin Waiting("list")
               \/ /\ d \in Waiting("list") /\ calls[d] \in Call
                  /\ calls'[d] = [calls[d] EXCEPT !.kind = "old"] /\ calls'[d] # Nothing
                  /\ calls'[d].kind = "old" /\ calls'[d].at = calls[d].at
                  /\ calls'[d].auth = calls[d].auth /\ calls'[d].cookie = calls[d].cookie
                  /\ calls'[d].again = calls[d].again
         /\ SameRefreshes
<1>1. ClientTypeOK /\ "list" \in Kinds /\ token \in 0 .. MaxIssued /\ "old" \in Kinds
  BY DEF TypeInv, ClientTypeOK, Kinds
<1>2. calls'[c] = Request("list", token)
  BY DEF Again
<1>3. calls'[c].kind = "list" /\ calls'[c].at = "sent"
  BY <1>1, <1>2, RequestType
<1>4. ASSUME NEW d \in Slots \ {c}
      PROVE  \/ calls'[d] = calls[d] /\ d \notin Waiting("list")
             \/ /\ d \in Waiting("list") /\ calls[d] \in Call
                /\ calls'[d] = [calls[d] EXCEPT !.kind = "old"] /\ calls'[d] # Nothing
                /\ calls'[d].kind = "old" /\ calls'[d].at = calls[d].at
                /\ calls'[d].auth = calls[d].auth /\ calls'[d].cookie = calls[d].cookie
                /\ calls'[d].again = calls[d].again
  <2>1. CASE d \in Waiting("list")
    <3> DEFINE m == calls[d]
    <3>1. m # Nothing /\ m \in Call
      BY <1>1, <2>1 DEF Waiting, ClientTypeOK
    <3>2. calls'[d] = [m EXCEPT !.kind = "old"]
      BY <2>1 DEF Again
    <3>3. [m EXCEPT !.kind = "old"] \in Call
      BY <1>1, <3>1 DEF Call
    <3>4. [m EXCEPT !.kind = "old"] # Nothing
      BY <3>3, NothingAssumption
    <3> QED
      BY <2>1, <3>1, <3>2, <3>4 DEF Call
  <2>2. CASE d \notin Waiting("list")
    BY <2>2 DEF Again
  <2> QED
    BY <2>1, <2>2
<1>5. \A d \in Slots \ {c} :
         /\ calls'[d] = Nothing <=> calls[d] = Nothing
         /\ calls[d] # Nothing => calls'[d].at = calls[d].at /\ calls'[d].cookie = calls[d].cookie
                                  /\ (calls'[d].kind = "logout" => calls[d].kind = "logout")
  BY <1>4 DEF Waiting
<1>6. SameRefreshes
  <2>1. calls'[c].at \notin InRefresh /\ calls'[c].kind # "logout"
    BY <1>3 DEF InRefresh
  <2>2. ASSUME NEW d \in Slots
        PROVE  d \in Refreshing' <=> d \in Refreshing
    <3>1. CASE d = c
      BY <2>1, <3>1 DEF Refreshing, Under, InRefresh
    <3>2. CASE d # c
      BY <1>5, <3>2 DEF Refreshing, Under
    <3> QED
      BY <3>1, <3>2
  <2>3. Refreshing' = Refreshing
    BY <2>2 DEF Refreshing
  <2>4. \A d \in Refreshing : d \in Slots \ {c} /\ calls[d] # Nothing
    BY DEF Refreshing, Under
  <2> QED
    BY <1>5, <2>1, <2>3, <2>4 DEF SameRefreshes
<1> QED
  BY <1>2, <1>4, <1>6

LEMMA KeptSucceed ==
  ASSUME TypeInv, Kept, NEW c \in Slots, Succeed(c)
  PROVE  Kept'
<1>1. /\ ClientTypeOK /\ calls[c] # Nothing /\ calls[c].at = "ok" /\ calls[c] \in Call
      /\ calls[c].kind \in {"me", "user", "list", "old", "delete", "plan"}
      /\ token \in 0 .. MaxIssued
      /\ UNCHANGED <<tokens, token, cookie, signedIn>>
  BY DEF Succeed, Heard, Under, TypeInv, ClientTypeOK, Call, Kinds, storageVars, backendVars
<1>2. /\ mishaps \subseteq mishaps'
      /\ calls' = Gone(c) \/ calls' = Again(c) \/ calls' = [calls EXCEPT ![c] = Request("user", token)]
  BY <1>1 DEF Succeed, Planned
<1>3. c \notin Refreshing
  BY <1>1 DEF Refreshing, Under
<1>4. CASE calls' = [calls EXCEPT ![c] = Request("user", token)]
  <2>1. "user" \in Kinds
    BY DEF Kinds
  <2>2. Fresh(c, "user", token)
    BY <1>1, <1>4, <2>1, FreshFacts
  <2>3. SameRefreshes
    BY <1>3, <2>2, OnlySame DEF Fresh, InRefresh
  <2> QED
    BY <1>1, <1>2, <2>3, KeptSame
<1>5. CASE calls' = Gone(c) \/ calls' = Again(c)
  <2>1. SameRefreshes
    BY <1>3, <1>5, GoneSame, AgainSame
  <2> QED
    BY <1>1, <1>2, <2>1, KeptSame
<1> QED
  BY <1>2, <1>4, <1>5

\* What every success has in common.
LEMMA SucceedFacts ==
  ASSUME TypeInv, NEW c \in Slots, Succeed(c)
  PROVE  /\ calls[c] # Nothing /\ calls[c].at = "ok" /\ calls[c].heard /\ calls[c] \in Call
         /\ calls[c].kind \in {"me", "user", "list", "old", "delete", "plan"}
         /\ UNCHANGED <<tokens, issued, fresh, plan, surveyRow, token, cookie, path, leaving,
                        signedIn, signedOut>>
         /\ mishaps \subseteq mishaps'
<1>1. /\ calls[c] # Nothing /\ calls[c].at = "ok" /\ calls[c].heard /\ calls[c] \in Call
      /\ calls[c].kind \in {"me", "user", "list", "old", "delete", "plan"}
  BY DEF Succeed, Heard, Under, TypeInv, ClientTypeOK, Call, Kinds
<1>2. mishaps \subseteq mishaps'
  BY <1>1 DEF Succeed, Planned
<1> QED
  BY <1>1, <1>2 DEF Succeed, backendVars, storageVars

\* After a sign-in nothing else is under way.
LEMMA LoggedInAlone ==
  ASSUME TypeInv, NEW c \in Slots, LoggedIn(c)
  PROVE  /\ calls[c] # Nothing /\ calls[c].at = "ok" /\ calls[c].kind = "login" /\ calls[c].heard
         /\ calls[c].new # 0 /\ calls[c].says \in Plans /\ calls[c].says # Nothing
         /\ calls' = Gone(c)
         /\ token' = calls[c].new /\ cookie' = calls[c].new
         /\ path' = "app" /\ globalUser' = calls[c].says /\ guard' = calls[c].says
         /\ mishaps \subseteq mishaps'
         /\ "late" \notin mishaps' =>
               mishaps' = mishaps /\ \A d \in Slots : (d # c => calls[d] = Nothing) /\ calls'[d] = Nothing
<1>1. ClientTypeOK /\ calls[c] # Nothing /\ CallOK(calls[c], mishaps)
      /\ calls[c].at = "ok" /\ calls[c].kind = "login" /\ calls[c].heard
  BY DEF TypeInv, LoggedIn, Heard, Under
<1>2. calls[c].new # 0 /\ calls[c].says \in Plans
  BY <1>1 DEF CallOK
<1>3. calls[c].says # Nothing
  BY <1>2, NothingAssumption
<1>4. calls' = Gone(c) /\ path' = "app" /\ globalUser' = calls[c].says /\ guard' = calls[c].says
  BY <1>3 DEF LoggedIn, AtGuard
<1>5. ASSUME "late" \notin mishaps'
      PROVE  mishaps' = mishaps /\ \A d \in Slots : (d # c => calls[d] = Nothing) /\ calls'[d] = Nothing
  <2>1. Others(c) = {} /\ mishaps' = mishaps
    BY <1>5 DEF LoggedIn
  <2>2. \A d \in Slots \ {c} : calls[d] = Nothing
    BY <2>1 DEF Others
  <2> QED
    BY <1>1, <1>4, <2>1, <2>2, GoneFacts
<1> QED
  BY <1>1, <1>2, <1>3, <1>4, <1>5 DEF LoggedIn

LEMMA LoggedOutAlone ==
  ASSUME TypeInv, NEW c \in Slots, LoggedOut(c)
  PROVE  /\ calls[c] # Nothing /\ calls[c].at \in {"ok", "error"} /\ calls[c].kind = "logout"
         /\ calls' = Gone(c)
         /\ token' = 0 /\ (calls[c].at = "ok" => cookie' = 0)
         /\ path' = "login" /\ globalUser' = Nothing /\ guard' = Nothing
         /\ mishaps \subseteq mishaps'
         /\ "late" \notin mishaps' =>
               mishaps' = mishaps /\ \A d \in Slots : (d # c => calls[d] = Nothing) /\ calls'[d] = Nothing
<1>1. ClientTypeOK /\ calls[c] # Nothing /\ calls[c].at \in {"ok", "error"}
      /\ calls[c].kind = "logout"
  BY DEF TypeInv, LoggedOut, Heard, Under
<1>2. AtLogin(Nothing, 0, c, Gone(c))
  BY DEF LoggedOut
<1>3. calls' = Gone(c)
  BY <1>1, <1>2, GoneFacts DEF AtLogin, Asks
<1>4. ASSUME "late" \notin mishaps'
      PROVE  mishaps' = mishaps /\ \A d \in Slots : (d # c => calls[d] = Nothing) /\ calls'[d] = Nothing
  <2>1. Others(c) = {} /\ mishaps' = mishaps
    BY <1>4 DEF LoggedOut
  <2>2. \A d \in Slots \ {c} : calls[d] = Nothing
    BY <2>1 DEF Others
  <2> QED
    BY <1>1, <1>3, <2>1, <2>2, GoneFacts
<1> QED
  BY <1>1, <1>2, <1>3, <1>4 DEF LoggedOut, AtLogin

LEMMA KeptAccess ==
  ASSUME TypeInv, NewTokens, Kept, NEW c \in Slots, LoggedIn(c) \/ LoggedOut(c)
  PROVE  Kept'
<1>1. CASE LoggedIn(c)
  <2>1. SUFFICES ASSUME mishaps' \subseteq OfPages PROVE Alone' /\ Whole'
    BY DEF Kept
  <2>2. "late" \notin mishaps' /\ mishaps \cap Unstored = {}
    BY <1>1, <2>1, LoggedInAlone DEF OfPages, Unstored
  <2>3. \A d \in Slots : calls'[d] = Nothing
    BY <1>1, <2>2, LoggedInAlone
  <2>4. calls[c].new \in tokens
    BY <1>1, <2>2, LoggedInAlone DEF NewTokens, Carries
  <2>5. Refreshing' = {}
    BY <2>3 DEF Refreshing, Under
  <2>6. tokens' = tokens
    BY <1>1 DEF LoggedIn, backendVars
  <2> QED
    BY <1>1, <2>3, <2>4, <2>5, <2>6, LoggedInAlone DEF Alone, Whole
<1>2. CASE LoggedOut(c)
  <2>1. Refreshing' \subseteq Refreshing
    BY <1>2, LoggedOutAlone, GoneFacts DEF TypeInv, Refreshing, Under
  <2> QED
    BY <1>2, <2>1, LoggedOutAlone, KeptBefore DEF LoggedOut
<1> QED
  BY <1>1, <1>2

LEMMA FailsSame ==
  ASSUME TypeInv, NEW c \in Slots, NEW t \in 0 .. MaxIssued, Fails(c, t), c \notin Refreshing
  PROVE  SameRefreshes
BY GoneSame, AppearsSame DEF Fails

LEMMA KeptFailed ==
  ASSUME TypeInv, Kept, NEW c \in Slots, Failed(c) \/ RefreshDenied(c)
  PROVE  Kept'
<1>1. /\ ClientTypeOK /\ calls[c] # Nothing /\ token \in 0 .. MaxIssued /\ 0 \in 0 .. MaxIssued
      /\ UNCHANGED <<tokens, cookie, signedIn>> /\ mishaps \subseteq mishaps'
  BY ClientAssumption
  DEF TypeInv, ClientTypeOK, Failed, RefreshDenied, Heard, Under, backendVars, storageVars
<1>2. CASE Failed(c)
  <2>1. Fails(c, token) /\ token' = token
    BY <1>1, <1>2, FailFails DEF Failed, storageVars
  <2>2. c \notin Refreshing
    BY <1>2 DEF Failed, Heard, Under, Refreshing
  <2> QED
    BY <1>1, <2>1, <2>2, FailsSame, KeptSame
<1>3. CASE RefreshDenied(c)
  <2>1. Fails(c, 0) /\ c \in Refreshing /\ calls[c].at = "denied"
    BY <1>1, <1>3, FailFails DEF RefreshDenied, Heard, Under, Refreshing
  <2>2. mishaps' \subseteq OfPages => ~signedIn'
    BY <1>1, <2>1 DEF Kept, Whole
  <2>3. Refreshing' \subseteq Refreshing
    <3>1. \A d \in Slots : calls'[d] # Nothing => calls'[d] = calls[d] \/ calls'[d].at = "sent"
      <4>1. CASE calls' = Gone(c)
        BY <1>1, <4>1, GoneFacts
      <4>2. CASE Appears(Nothing, 0, c, Gone(c))
        BY <1>1, <4>2, GoneFacts DEF Appears, Asks
      <4> QED
        BY <2>1, <4>1, <4>2 DEF Fails
    <3> QED
      BY <3>1 DEF Refreshing, Under
  <2> QED
    BY <1>1, <2>2, <2>3, KeptBefore
<1> QED
  BY <1>2, <1>3

LEMMA KeptUnanswered ==
  ASSUME TypeInv, Kept, NEW c \in Slots, Unanswered(c)
  PROVE  Kept'
<1>1. /\ ClientTypeOK /\ CallOK(calls[c], mishaps) /\ calls[c] # Nothing /\ ~calls[c].heard
      /\ calls' = Gone(c) /\ UNCHANGED <<tokens, token, signedIn, mishaps>>
  BY DEF TypeInv, Unanswered, Under, backendVars, clientHistory
<1>2. SUFFICES ASSUME mishaps \subseteq OfPages PROVE Kept'
  BY <1>1 DEF Kept
<1>3. "left" \notin mishaps
  BY <1>2 DEF OfPages
<1>4. calls[c].at \notin InRefresh /\ calls[c].kind \notin {"login", "logout"}
  BY <1>1, <1>3 DEF CallOK
<1>5. calls[c].new = 0
  BY <1>1, <1>4 DEF CallOK, InRefresh
<1>6. cookie' = cookie
  BY <1>4, <1>5 DEF Unanswered
<1>7. c \notin Refreshing
  BY <1>4 DEF Refreshing, Under, InRefresh
<1> QED
  BY <1>1, <1>6, <1>7, GoneSame, KeptSame

LEMMA KeptPages ==
  ASSUME TypeInv, Kept,
         \/ \E c \in Slots, kind \in Kinds : Calling(c, kind)
         \/ \E c \in Slots : Lose(c) \/ RefreshFails(c)
         \/ Open \/ Depart \/ GoBack
         \/ Expire \/ SessionExpires \/ ResetPassword \/ UNCHANGED clientVars
  PROVE  Kept'
<1>1. ClientTypeOK /\ token \in 0 .. MaxIssued
  BY DEF TypeInv, ClientTypeOK
<1>2. CASE \E c \in Slots, kind \in Kinds : Calling(c, kind)
  <2>1. PICK c \in Slots, kind \in Kinds : Calling(c, kind)
    BY <1>2
  <2>2. /\ Fresh(c, kind, token) /\ calls[c] = Nothing /\ UNCHANGED <<token, tokens, cookie>>
        /\ mishaps \subseteq mishaps' /\ signedIn' = IF kind = "logout" THEN FALSE ELSE signedIn
    BY <2>1, CallMade DEF Calling
  <2>3. SameRefreshes
    <3>1. c \notin Refreshing
      BY <2>2 DEF Refreshing, Under
    <3> QED
      BY <2>2, <3>1, OnlySame DEF Fresh, InRefresh
  <2> QED
    BY <2>2, <2>3, KeptSame
<1>3. CASE Open \/ Depart
  <2>1. /\ UNCHANGED <<token, tokens, cookie, signedIn>> /\ mishaps' = mishaps \cup Parting
    BY <1>3 DEF Open, Depart, backendVars, storageVars
  <2>2. SUFFICES ASSUME mishaps' \subseteq OfPages PROVE Kept'
    BY DEF Kept
  <2>3. Refreshing = {} /\ mishaps \subseteq OfPages
    <3>1. "left" \notin Parting
      BY <2>1, <2>2 DEF OfPages
    <3>2. Refreshing \cup Waiting("login") \cup Waiting("logout") = {}
      BY <3>1 DEF Parting
    <3> QED
      BY <2>1, <2>2, <3>2
  <2>4. Unheard(calls) \in [Slots -> Call \cup {Nothing}]
    BY <1>1, UnheardFacts
  <2>5. PICK c \in Slots : Appears(Nothing, token, c, Unheard(calls))
    BY <1>3, <2>4, PageAppears, LoginAppears DEF Open, Depart
  <2>6. \A d \in Slots : calls'[d] # Nothing =>
           \/ calls[d] # Nothing /\ calls'[d].at = calls[d].at /\ calls'[d].kind = calls[d].kind
           \/ calls'[d].at = "sent" /\ calls'[d].kind = "me"
    <3>1. CASE calls' = Unheard(calls)
      BY <1>1, <3>1, UnheardFacts
    <3>2. CASE calls' = [Unheard(calls) EXCEPT ![c] = Request("me", token)]
      <4>1. "me" \in Kinds
        BY DEF Kinds
      <4>2. calls'[c] = Request("me", token) /\ \A d \in Slots \ {c} : calls'[d] = Unheard(calls)[d]
        BY <2>4, <3>2
      <4>3. calls'[c].at = "sent" /\ calls'[c].kind = "me"
        BY <1>1, <4>1, <4>2, RequestType
      <4> QED
        BY <1>1, <4>2, <4>3, UnheardFacts
    <3> QED
      BY <2>5, <3>1, <3>2 DEF Appears
  <2>7. SameRefreshes
    BY <2>3, <2>6 DEF SameRefreshes, Refreshing, Under
  <2>8. mishaps \subseteq mishaps'
    BY <2>1
  <2> QED
    BY <2>1, <2>7, <2>8, KeptSame
<1>4. CASE GoBack
  <2>1. UNCHANGED <<token, tokens, cookie, signedIn, mishaps>>
    BY <1>4 DEF GoBack, backendVars, storageVars, clientHistory
  <2>2. PICK c \in Slots : /\ Appears(globalUser, token, c, calls)
                           /\ Asks(globalUser, token) => Free(c)
    BY <1>1, <1>4, PageAppears DEF GoBack, ClientTypeOK
  <2>3. CASE c \notin Refreshing
    BY <1>1, <2>1, <2>2, <2>3, AppearsSame, KeptSame
  <2>4. CASE c \in Refreshing
    <3>1. calls' = calls
      BY <2>2, <2>4 DEF Appears, Refreshing, Under, Free
    <3>2. SameRefreshes
      BY <3>1 DEF SameRefreshes, Refreshing, Under
    <3> QED
      BY <2>1, <3>2, KeptSame
  <2> QED
    BY <2>3, <2>4
<1>5. CASE Expire \/ UNCHANGED clientVars
  <2>1. UNCHANGED <<token, tokens, cookie, signedIn, mishaps, calls>>
    BY <1>5 DEF Expire, clientVars, backendVars, storageVars, clientHistory
  <2>2. SameRefreshes
    BY <2>1 DEF SameRefreshes, Refreshing, Under
  <2> QED
    BY <2>1, <2>2, KeptSame
<1>6. CASE SessionExpires \/ ResetPassword \/ \E c \in Slots : Lose(c) \/ RefreshFails(c)
  <2>1. \E mishap \in {"reset", "expired", "lost", "failed"} : mishap \in mishaps'
    BY <1>6 DEF SessionExpires, ResetPassword, Lose, RefreshFails
  <2> QED
    BY <2>1 DEF Kept, OfPages
<1> QED
  BY <1>2, <1>3, <1>4, <1>5, <1>6

LEMMA KeptStep == TypeInv /\ NewTokens /\ Kept /\ [ClientNext]_clientVars => Kept'
<1> SUFFICES ASSUME TypeInv, NewTokens, Kept, [ClientNext]_clientVars PROVE Kept'
  OBVIOUS
<1>1. ASSUME NEW c \in Slots,
             \/ Serve(c) \/ ServeLogin(c) \/ ServeLogout(c)
             \/ RefreshRead(c) \/ RefreshDelete(c) \/ RefreshIssue(c)
             \/ Refuse(c) \/ Refreshed(c) \/ Succeed(c) \/ LoggedIn(c) \/ LoggedOut(c)
             \/ Failed(c) \/ RefreshDenied(c) \/ Unanswered(c)
      PROVE  Kept'
  BY <1>1, KeptServe, KeptRefresh, KeptRetries, KeptSucceed, KeptAccess, KeptFailed,
     KeptUnanswered
<1> QED
  BY <1>1, Steps, KeptPages

LEMMA KeptInit == ClientInit => Kept
<1> SUFFICES ASSUME ClientInit PROVE Kept
  OBVIOUS
<1>1. PICK n \in {0, 1} : tokens = 1 .. n /\ token = n /\ cookie = n /\ signedIn = (n = 1)
  BY Zenon DEF ClientInit
<1>2. \A c \in Slots : calls[c] = Nothing
  BY DEF ClientInit
<1>3. Refreshing = {}
  BY <1>2 DEF Refreshing, Under
<1>4. CASE n = 0
  <2>1. n # 1
    BY <1>4
  <2>2. ~signedIn
    BY <1>1, <2>1, Zenon
  <2> QED
    BY <1>3, <2>2 DEF Kept, Alone
<1>5. CASE n = 1
  <2>1. token = 1 /\ cookie = 1 /\ tokens = 1 .. 1
    BY <1>1, <1>5, Zenon
  <2>2. token # 0 /\ cookie \in tokens
    BY <2>1
  <2> QED
    BY <1>2, <1>3, <2>2 DEF Kept, Alone, Whole
<1> QED
  BY <1>4, <1>5


-----------------------------------------------------------------------------
(* The session ends.                                                       *)

\* A sign-in sent without a token, which nothing will refresh.
Lone(m) == m.kind = "login" /\ m.auth = 0 /\ ~m.again /\ m.at \notin InRefresh

\* After a sign-out with nothing else under way: the sign-in page, and sign-ins.
Ended ==
    signedOut /\ "late" \notin mishaps =>
        /\ token = 0 /\ globalUser = Nothing /\ path = "login"
        /\ cookie = 0 \/ mishaps \cap {"lost", "left"} # {}
        /\ \A c \in Slots : calls[c] # Nothing => Lone(calls[c])

\* Without a token, likewise for what the page still listens to.
Tokenless ==
    token = 0 /\ ~leaving /\ mishaps \cap {"late", "away"} = {} =>
        /\ path = "login" /\ globalUser = Nothing
        /\ \A c \in Slots : calls[c] # Nothing /\ calls[c].heard => Lone(calls[c])

EndInv == Ended /\ Tokenless

\* Nothing is asked that was not asked before, but for sign-ins.
NothingNew ==
    \A d \in Slots : calls'[d] # Nothing =>
        /\ ~Lone(calls'[d]) => calls[d] # Nothing /\ ~Lone(calls[d])
        /\ ~Lone(calls'[d]) /\ calls'[d].heard => calls[d].heard

LEMMA EndSame ==
  ASSUME EndInv, NothingNew, mishaps \subseteq mishaps',
         cookie' \in {cookie, 0},
         UNCHANGED <<token, signedOut, path, globalUser, leaving>>
  PROVE  EndInv'
<1>1. Ended'
  BY DEF EndInv, Ended, NothingNew
<1>2. Tokenless'
  BY DEF EndInv, Tokenless, NothingNew
<1> QED
  BY <1>1, <1>2 DEF EndInv

\* Who listens to another call has a token and has not signed out.
LEMMA NotEnded ==
  ASSUME EndInv, NEW c \in Slots, calls[c] # Nothing, calls[c].heard, ~Lone(calls[c]),
         mishaps \subseteq mishaps', signedOut' = signedOut,
         \/ token' = token /\ leaving' = leaving
         \/ token' # 0 \/ "away" \in mishaps' \/ leaving'
  PROVE  EndInv'
<1>1. Ended'
  BY DEF EndInv, Ended
<1>2. Tokenless'
  BY DEF EndInv, Tokenless
<1> QED
  BY <1>1, <1>2 DEF EndInv

LEMMA StillLone ==
  ASSUME NEW c \in Slots, Still(c), calls'[c].at \in InRefresh => calls[c].at \in InRefresh
  PROVE  NothingNew
BY DEF Still, Same, Only, NothingNew, Lone

LEMMA GoneLone ==
  ASSUME TypeInv, NEW c \in Slots, calls' = Gone(c)
  PROVE  NothingNew
BY GoneFacts DEF NothingNew, TypeInv

LEMMA EndServe ==
  ASSUME TypeInv, EndInv, NEW c \in Slots,
         \/ Serve(c) \/ ServeLogin(c) \/ ServeLogout(c)
         \/ RefreshRead(c) \/ RefreshDelete(c) \/ RefreshIssue(c) \/ RefreshFails(c) \/ Lose(c)
  PROVE  EndInv'
<1> USE DEF CallPhases
<1>1. /\ ClientTypeOK /\ Values /\ calls[c] # Nothing
      /\ plan \in Plans /\ surveyRow \in {"there", "gone"}
  BY TypeParts
  DEF TypeInv, ClientTypeOK, Serve, ServeLogin, ServeLogout, RefreshRead, RefreshDelete,
      RefreshIssue, RefreshFails, Lose, Under
<1>2. /\ UNCHANGED <<token, cookie, signedOut, path, globalUser, leaving>>
      /\ mishaps \subseteq mishaps'
  BY StoreFacts
  DEF Serve, ServeLogin, ServeLogout, RefreshRead, RefreshDelete, RefreshIssue, RefreshFails,
      Lose, storageVars, userVars, clientHistory
<1>3. \/ \E phase \in {"ok", "refused", "error"} : To(c, phase)
      \/ Answer(c, plan) \/ Answer(c, surveyRow)
      \/ Issued /\ calls' = [calls EXCEPT ![c].at = "ok", ![c].new = Issue, ![c].says = plan]
      \/ Issued /\ calls' = [calls EXCEPT ![c].at = "granted", ![c].new = Issue]
         /\ calls[c].at = "deleted"
      \/ calls[c].at \in InRefresh /\ \E phase \in InRefresh : To(c, phase)
  <2>1. CASE Serve(c) \/ ServeLogin(c) \/ ServeLogout(c)
    BY <2>1 DEF Serve, ServeLogin, ServeLogout
  <2>2. CASE RefreshRead(c) \/ RefreshDelete(c) \/ RefreshIssue(c) \/ RefreshFails(c)
    BY <2>2 DEF RefreshRead, RefreshDelete, RefreshIssue, RefreshFails, Under, InRefresh
  <2>3. CASE Lose(c)
    BY <2>3 DEF Lose, InRefresh
  <2> QED
    BY <2>1, <2>2, <2>3
<1>4. Still(c) /\ (calls'[c].at \in InRefresh => calls[c].at \in InRefresh)
  <2>1. CASE \E phase \in {"ok", "refused", "error"} : To(c, phase)
    BY <1>1, <2>1, ToFacts DEF InRefresh
  <2>2. CASE Answer(c, plan) \/ Answer(c, surveyRow)
    BY <1>1, <2>2, AnswerFacts DEF InRefresh
  <2>3. CASE Issued /\ calls' = [calls EXCEPT ![c].at = "ok", ![c].new = Issue, ![c].says = plan]
    <3>1. Issue \in 0 .. MaxIssued
      BY <1>1, <2>3, IssueTypes
    <3>2. Still(c) /\ calls'[c].at = "ok"
      BY <1>1, <2>3, <3>1, GivenFacts, Zenon
    <3> QED
      BY <3>2 DEF InRefresh
  <2>4. CASE Issued /\ calls' = [calls EXCEPT ![c].at = "granted", ![c].new = Issue]
             /\ calls[c].at = "deleted"
    BY <1>1, <2>4, GrantedFacts, IssueTypes DEF InRefresh
  <2>5. CASE calls[c].at \in InRefresh /\ \E phase \in InRefresh : To(c, phase)
    BY <1>1, <2>5, ToFacts DEF InRefresh
  <2> QED
    BY <1>3, <2>1, <2>2, <2>3, <2>4, <2>5
<1> QED
  BY <1>2, <1>4, StillLone, EndSame


LEMMA EndAnswers ==
  ASSUME TypeInv, EndInv, NEW c \in Slots,
         Refuse(c) \/ Refreshed(c) \/ Succeed(c) \/ Failed(c) \/ RefreshDenied(c)
  PROVE  EndInv'
<1>1. /\ ClientTypeOK /\ CallOK(calls[c], mishaps) /\ calls[c] # Nothing /\ calls[c].heard
      /\ signedOut' = signedOut /\ mishaps \subseteq mishaps'
  <2>1. ClientTypeOK /\ CallOK(calls[c], mishaps)
    BY DEF TypeInv
  <2>2. calls[c] # Nothing /\ calls[c].heard
    BY DEF Refuse, Refreshed, Succeed, Failed, RefreshDenied, Heard, Under
  <2>3. signedOut' = signedOut
    BY DEF Refuse, Refreshed, Succeed, Failed, RefreshDenied, clientHistory
  <2>4. mishaps \subseteq mishaps'
    <3>1. CASE Refuse(c) \/ Refreshed(c) \/ Failed(c) \/ RefreshDenied(c)
      BY <3>1 DEF Refuse, Refreshed, Failed, RefreshDenied, clientHistory
    <3>2. CASE Succeed(c)
      BY <3>2, SucceedFacts
    <3> QED
      BY <3>1, <3>2
  <2> QED
    BY <2>1, <2>2, <2>3, <2>4
<1>2. CASE Refuse(c)
  <2>1. ~Lone(calls[c])
    BY <1>2 DEF Refuse, Lone
  <2> QED
    BY <1>1, <1>2, <2>1, NotEnded DEF Refuse, storageVars, userVars
<1>3. CASE Refreshed(c)
  <2>1. ~Lone(calls[c]) /\ calls[c].at = "granted"
    BY <1>3 DEF Refreshed, Heard, Under, Lone, InRefresh
  <2>2. token' # 0
    BY <1>1, <1>3, <2>1 DEF Refreshed, CallOK
  <2> QED
    BY <1>1, <2>1, <2>2, NotEnded
<1>4. CASE Succeed(c)
  <2>1. ~Lone(calls[c])
    BY <1>4 DEF Succeed, Lone
  <2> QED
    BY <1>1, <1>4, <2>1, NotEnded DEF Succeed, storageVars
<1>5. CASE Failed(c)
  <2>1. UNCHANGED <<token, cookie, leaving>> /\ token \in 0 .. MaxIssued
    BY <1>1, <1>5 DEF Failed, storageVars, ClientTypeOK
  <2>2. CASE ~Lone(calls[c])
    BY <1>1, <2>1, <2>2, NotEnded
  <2>3. CASE Lone(calls[c])
    <3>1. Fails(c, token) /\ calls[c].kind = "login"
      BY <1>1, <1>5, <2>1, <2>3, FailFails DEF Failed, Lone
    <3>2. calls' = Gone(c) /\ UNCHANGED <<path, globalUser>>
      BY <3>1 DEF Fails
    <3> QED
      BY <1>1, <2>1, <3>2, GoneLone, EndSame
  <2> QED
    BY <2>2, <2>3
<1>6. CASE RefreshDenied(c)
  <2>1. ~Lone(calls[c])
    BY <1>6 DEF RefreshDenied, Heard, Under, Lone, InRefresh
  <2>2. leaving' \/ "away" \in mishaps'
    BY <1>1, <1>6 DEF RefreshDenied, ClientTypeOK
  <2> QED
    BY <1>1, <2>1, <2>2, NotEnded
<1> QED
  BY <1>2, <1>3, <1>4, <1>5, <1>6

LEMMA EndAccess ==
  ASSUME TypeInv, EndInv, NEW c \in Slots, LoggedIn(c) \/ LoggedOut(c) \/ Unanswered(c)
  PROVE  EndInv'
<1>1. CASE LoggedIn(c)
  <2>1. token' # 0 /\ ~signedOut'
    BY <1>1, LoggedInAlone DEF LoggedIn
  <2> QED
    BY <2>1 DEF EndInv, Ended, Tokenless
<1>2. CASE LoggedOut(c)
  <2>1. token' = 0 /\ globalUser' = Nothing /\ path' = "login"
    BY <1>2, LoggedOutAlone
  <2>2. cookie' = 0 \/ "lost" \in mishaps'
    <3>1. CASE calls[c].at = "ok"
      BY <1>2, <3>1, LoggedOutAlone
    <3>2. CASE calls[c].at = "error"
      BY <1>2, <3>2, LoggedOutAlone DEF TypeInv, CallOK
    <3> QED
      BY <1>2, <3>1, <3>2, LoggedOutAlone
  <2>3. "late" \notin mishaps' => \A d \in Slots : calls'[d] = Nothing
    BY <1>2, LoggedOutAlone
  <2> QED
    BY <2>1, <2>2, <2>3 DEF EndInv, Ended, Tokenless
<1>3. CASE Unanswered(c)
  <2>1. /\ calls[c] # Nothing /\ ~calls[c].heard /\ CallOK(calls[c], mishaps) /\ calls' = Gone(c)
        /\ UNCHANGED <<token, signedOut, path, globalUser, leaving, mishaps>>
    BY <1>3 DEF TypeInv, Unanswered, Under, userVars, clientHistory
  <2>2. NothingNew
    BY <2>1, GoneLone
  <2>3. Tokenless'
    BY <2>1, <2>2 DEF EndInv, Tokenless, NothingNew
  <2>4. Ended'
    <3>1. SUFFICES ASSUME signedOut, "late" \notin mishaps PROVE Ended'
      BY <2>1 DEF Ended
    <3>2. calls[c].kind = "login"
      BY <2>1, <3>1 DEF EndInv, Ended, Lone
    <3>3. "left" \in mishaps
      BY <2>1, <3>2 DEF CallOK
    <3> QED
      BY <2>1, <2>2, <3>3 DEF EndInv, Ended, NothingNew
  <2> QED
    BY <2>3, <2>4 DEF EndInv
<1> QED
  BY <1>1, <1>2, <1>3

\* Without a user and a token only the sign-in page appears, and asks nothing.
LEMMA NobodyAppears ==
  ASSUME ClientTypeOK, NEW p \in {"login", "app"}, NEW on \in Slots,
         NEW left \in [Slots -> Call \cup {Nothing}], At(p, Nothing, 0, on, left)
  PROVE  path' = "login" /\ globalUser' = Nothing /\ calls' = left
BY PageAppears DEF Appears, Asks

LEMMA EndPages ==
  ASSUME TypeInv, EndInv,
         \/ \E c \in Slots, kind \in Kinds :
               Calling(c, kind) /\ (IF kind = "login" THEN path = "login" ELSE InApp)
         \/ Open \/ Depart \/ GoBack
         \/ Expire \/ SessionExpires \/ ResetPassword \/ UNCHANGED clientVars
  PROVE  EndInv'
<1>1. ClientTypeOK
  BY DEF TypeInv
<1>2. CASE \E c \in Slots, kind \in Kinds :
               Calling(c, kind) /\ (IF kind = "login" THEN path = "login" ELSE InApp)
  <2>1. PICK c \in Slots, kind \in Kinds :
               Calling(c, kind) /\ (IF kind = "login" THEN path = "login" ELSE InApp)
    BY <1>2
  <2>2. /\ Fresh(c, kind, token) /\ mishaps \subseteq mishaps'
        /\ UNCHANGED <<token, cookie, signedOut, path, globalUser, leaving>>
    BY <2>1, CallMade DEF Calling
  <2>3. CASE kind = "login" /\ token = 0
    <3>1. Lone(calls'[c])
      BY <2>2, <2>3 DEF Fresh, Lone, InRefresh
    <3>2. NothingNew
      BY <2>2, <3>1 DEF Fresh, Only, NothingNew
    <3> QED
      BY <2>2, <3>2, EndSame
  <2>4. CASE token # 0
    BY <2>2, <2>4 DEF EndInv, Ended, Tokenless
  <2>5. CASE kind # "login"
    <3>1. path # "login"
      BY <2>1, <2>5 DEF InApp
    <3> QED
      BY <2>2, <3>1 DEF EndInv, Ended, Tokenless
  <2> QED
    BY <2>3, <2>4, <2>5
<1>3. CASE Open \/ Depart
  <2>1. /\ UNCHANGED <<token, cookie, signedOut>> /\ mishaps \subseteq mishaps' /\ ~leaving'
    BY <1>3 DEF Open, Depart, storageVars
  <2>2. CASE token # 0
    BY <2>1, <2>2 DEF EndInv, Ended, Tokenless
  <2>3. CASE token = 0
    <3>1. \E c \in Slots, p \in {"login", "app"} : At(p, Nothing, 0, c, Unheard(calls))
      BY <1>3, <2>3 DEF Open, Depart, At
    <3>2. path' = "login" /\ globalUser' = Nothing /\ calls' = Unheard(calls)
      BY <1>1, <3>1, NobodyAppears, UnheardFacts
    <3>3. \A d \in Slots : calls'[d] # Nothing =>
            calls[d] # Nothing /\ ~calls'[d].heard /\ (Lone(calls[d]) => Lone(calls'[d]))
      BY <1>1, <3>2, UnheardFacts DEF Lone
    <3>4. Ended'
      BY <2>1, <3>2, <3>3 DEF EndInv, Ended
    <3>5. Tokenless'
      BY <2>1, <3>2, <3>3 DEF Tokenless
    <3> QED
      BY <3>4, <3>5 DEF EndInv
  <2> QED
    BY <2>2, <2>3
<1>4. CASE GoBack
  <2>1. UNCHANGED <<token, cookie, signedOut, leaving, mishaps>>
    BY <1>4 DEF GoBack, storageVars, clientHistory
  <2>2. CASE globalUser = Nothing /\ token = 0
    <3>1. path' = "login" /\ globalUser' = Nothing /\ calls' = calls
      BY <1>1, <1>4, <2>2, NobodyAppears DEF GoBack, ClientTypeOK
    <3> QED
      BY <2>1, <3>1 DEF EndInv, Ended, Tokenless
  <2>3. CASE ~(globalUser = Nothing /\ token = 0)
    BY <2>1, <2>3 DEF EndInv, Ended, Tokenless
  <2> QED
    BY <2>2, <2>3
<1>5. CASE Expire \/ SessionExpires \/ ResetPassword \/ UNCHANGED clientVars
  <2>1. /\ UNCHANGED <<token, signedOut, path, globalUser, leaving, calls>>
        /\ cookie' \in {cookie, 0} /\ mishaps \subseteq mishaps'
    BY <1>5
    DEF Expire, SessionExpires, ResetPassword, clientVars, storageVars, userVars, clientHistory
  <2>2. NothingNew
    BY <2>1 DEF NothingNew
  <2> QED
    BY <2>1, <2>2, EndSame
<1> QED
  BY <1>2, <1>3, <1>4, <1>5

LEMMA EndStep == TypeInv /\ EndInv /\ [ClientNext]_clientVars => EndInv'
<1> SUFFICES ASSUME TypeInv, EndInv, [ClientNext]_clientVars PROVE EndInv'
  OBVIOUS
<1> QED
  BY Steps, EndServe, EndAnswers, EndAccess, EndPages

LEMMA EndInit == ClientInit => EndInv
<1> SUFFICES ASSUME ClientInit PROVE EndInv
  OBVIOUS
<1>1. PICK n \in {0, 1} : /\ token = n
                          /\ path = IF n = 0 THEN "login" ELSE "app"
                          /\ globalUser = IF n = 0 THEN Nothing ELSE "FREE"
  BY Zenon DEF ClientInit
<1>2. ~signedOut /\ \A c \in Slots : calls[c] = Nothing
  BY DEF ClientInit
<1> QED
  BY <1>1, <1>2 DEF EndInv, Ended, Tokenless

\* Whoever has signed in stays so, whoever has signed out is, and the pages
\* behind the Guard have a token: apiFetch(), tryRefresh() and useAuth.ts, on refresh
\* tokens that expire, of which Go may give out one it has not stored.
THEOREM SessionIsWhole == ClientSpec => []SessionHolds
<1>1. TypeInv /\ Kept /\ EndInv => SessionHolds
  <2> SUFFICES ASSUME TypeInv, Kept, EndInv PROVE SessionHolds
    OBVIOUS
  <2>1. SessionKept
    BY DEF Kept, Whole, SessionKept
  <2>2. SignedOutIsGone
    BY DEF EndInv, Ended, SignedOutIsGone
  <2>3. AppHasToken
    BY DEF EndInv, Tokenless, AppHasToken, InApp
  <2> QED
    BY <2>1, <2>2, <2>3 DEF SessionHolds
<1> QED
  BY <1>1, TypeInit, TypeStep, TokensInit, TokensStep, KeptInit, KeptStep, EndInit, EndStep, PTL
  DEF ClientSpec


-----------------------------------------------------------------------------
(* The pages show what is stored.                                          *)

\* An answer still to be shown: of a list from before the deletion, or with
\* another plan than the one stored.
Stale(c) == Heard(c, {"ok"}) /\ calls[c].kind = "list" /\ calls[c].says = "there"
Wrong(c) == Heard(c, {"ok"}) /\ calls[c].kind \in {"me", "user", "login"}
            /\ calls[c].says # plan

\* Who will put the list right: the answer to the DELETE, or a list that was
\* asked for with a token and cannot hold the survey.
DeleteOk(c) == Heard(c, {"ok"}) /\ calls[c].kind = "delete"
ListDue(c) ==
    /\ calls[c] # Nothing /\ calls[c].heard /\ calls[c].kind = "list" /\ calls[c].auth # 0
    /\ calls[c].at = "ok" => calls[c].says = "gone"

\* Who will put the plan right: the answer to the change, or refreshUser().
PlanOk(c) == Heard(c, {"ok"}) /\ calls[c].kind = "plan"
UserDue(c) == calls[c] # Nothing /\ calls[c].heard /\ calls[c].kind = "user"
              /\ calls[c].auth # 0

ListsTrue ==
    surveyRow = "gone" /\ ~leaving =>
        /\ (\E c \in Slots : Stale(c)) => \E c \in Slots : DeleteOk(c)
        /\ listed = "there" => \E c \in Slots : DeleteOk(c) \/ ListDue(c)

Other(user) == user \in Plans /\ user # plan

PlanTrue ==
    /\ \A c \in Slots : ~Wrong(c)
    /\ ~leaving /\ (Other(globalUser) \/ Other(guard)) =>
          \E c \in Slots : PlanOk(c) \/ UserDue(c)

ShownInv == mishaps = {} => ListsTrue /\ PlanTrue

\* Whoever will put the lists or the plan right still will.
ListsOnward ==
    \A d \in Slots : /\ Stale(d)' => Stale(d)
                     /\ DeleteOk(d) => DeleteOk(d)'
                     /\ ListDue(d) => ListDue(d)'
PlanOnward ==
    \A d \in Slots : /\ Wrong(d)' => Wrong(d)
                     /\ PlanOk(d) => PlanOk(d)'
                     /\ UserDue(d) => UserDue(d)'

LEMMA ListsSame ==
  ASSUME ListsTrue, ListsOnward, UNCHANGED <<surveyRow, leaving, listed>>
  PROVE  ListsTrue'
BY DEF ListsTrue, ListsOnward

LEMMA PlanSame ==
  ASSUME PlanTrue, PlanOnward, UNCHANGED <<plan, leaving, globalUser, guard>>
  PROVE  PlanTrue'
BY DEF PlanTrue, PlanOnward, Other

\* A call on its way to an answer that tells what is stored.
LEMMA StillOnward ==
  ASSUME NEW c \in Slots, Same(c), calls[c].at # "ok", plan' = plan,
         calls[c].auth # 0 => calls'[c].auth # 0,
         calls'[c].at = "ok" =>
            /\ calls[c].kind \in {"me", "user", "login"} => calls'[c].says = plan
            /\ calls[c].kind = "list" => calls'[c].says = surveyRow
  PROVE  PlanOnward /\ (surveyRow = "gone" => ListsOnward)
<1>1. \A d \in Slots \ {c} : calls'[d] = calls[d]
  BY DEF Same, Only
<1>2. PlanOnward
  <2>1. ASSUME NEW d \in Slots \ {c}
        PROVE  (Wrong(d)' => Wrong(d)) /\ (PlanOk(d) => PlanOk(d)') /\ (UserDue(d) => UserDue(d)')
    BY <1>1, <2>1 DEF Wrong, PlanOk, UserDue, Heard, Under
  <2>2. (Wrong(c)' => Wrong(c)) /\ (PlanOk(c) => PlanOk(c)') /\ (UserDue(c) => UserDue(c)')
    BY DEF Same, Wrong, PlanOk, UserDue, Heard, Under
  <2> QED
    BY <2>1, <2>2 DEF PlanOnward
<1>3. ASSUME surveyRow = "gone" PROVE ListsOnward
  <2>1. ASSUME NEW d \in Slots \ {c}
        PROVE  (Stale(d)' => Stale(d)) /\ (DeleteOk(d) => DeleteOk(d)') /\ (ListDue(d) => ListDue(d)')
    BY <1>1, <2>1 DEF Stale, DeleteOk, ListDue, Heard, Under
  <2>2. (Stale(c)' => Stale(c)) /\ (DeleteOk(c) => DeleteOk(c)') /\ (ListDue(c) => ListDue(c)')
    BY <1>3 DEF Same, Stale, DeleteOk, ListDue, Heard, Under
  <2> QED
    BY <2>1, <2>2 DEF ListsOnward
<1> QED
  BY <1>2, <1>3

\* A call that would put nothing right goes, and another may take its slot.
LEMMA ReplacedOnward ==
  ASSUME NEW c \in Slots, Only(c), plan' = plan,
         calls'[c] # Nothing => calls'[c].at = "sent"
  PROVE  /\ ~PlanOk(c) /\ ~UserDue(c) => PlanOnward
         /\ ~DeleteOk(c) /\ ~ListDue(c) => ListsOnward
<1>1. \A d \in Slots \ {c} : calls'[d] = calls[d]
  BY DEF Only
<1>2. ASSUME NEW d \in Slots \ {c}
      PROVE  /\ (Wrong(d)' => Wrong(d)) /\ (PlanOk(d) => PlanOk(d)') /\ (UserDue(d) => UserDue(d)')
             /\ (Stale(d)' => Stale(d)) /\ (DeleteOk(d) => DeleteOk(d)')
             /\ (ListDue(d) => ListDue(d)')
  BY <1>1, <1>2 DEF Wrong, PlanOk, UserDue, Stale, DeleteOk, ListDue, Heard, Under
<1>3. ~Wrong(c)' /\ ~Stale(c)'
  BY DEF Wrong, Stale, Heard, Under
<1> QED
  BY <1>2, <1>3 DEF PlanOnward, ListsOnward

LEMMA GoneOnward ==
  ASSUME TypeInv, NEW c \in Slots, calls' = Gone(c), plan' = plan
  PROVE  /\ ~PlanOk(c) /\ ~UserDue(c) => PlanOnward
         /\ ~DeleteOk(c) /\ ~ListDue(c) => ListsOnward
<1>1. Only(c) /\ calls'[c] = Nothing
  BY GoneFacts DEF Only, TypeInv
<1> QED
  BY <1>1, ReplacedOnward

LEMMA ShownRetries ==
  ASSUME TypeInv, ShownInv, NEW c \in Slots,
         \/ ServeLogin(c) \/ ServeLogout(c) \/ RefreshRead(c) \/ RefreshDelete(c)
         \/ RefreshIssue(c) \/ Refuse(c) \/ Refreshed(c)
  PROVE  ShownInv'
<1> USE DEF CallPhases
<1>1. ClientTypeOK /\ Values /\ CallOK(calls[c], mishaps)
  BY TypeParts DEF TypeInv
<1>2. /\ calls[c] # Nothing /\ calls[c].at # "ok" /\ mishaps \subseteq mishaps'
      /\ UNCHANGED <<plan, surveyRow, globalUser, guard, leaving, listed>>
  <2>1. calls[c] # Nothing /\ calls[c].at # "ok"
    BY DEF ServeLogin, ServeLogout, RefreshRead, RefreshDelete, RefreshIssue, Refuse, Refreshed,
       Heard, Under
  <2>2. mishaps \subseteq mishaps' /\ UNCHANGED <<globalUser, guard, leaving, listed>>
    BY StoreFacts
    DEF ServeLogin, ServeLogout, RefreshRead, RefreshDelete, RefreshIssue, Refuse, Refreshed,
        clientHistory, userVars
  <2>3. UNCHANGED <<plan, surveyRow>>
    BY DEF ServeLogin, ServeLogout, RefreshRead, RefreshDelete, RefreshIssue, Refuse, Refreshed,
       backendVars
  <2> QED
    BY <2>1, <2>2, <2>3
<1>3. /\ Same(c) /\ (calls[c].auth # 0 => calls'[c].auth # 0)
      /\ calls'[c].at = "ok" =>
            \/ calls[c].kind = "logout"
            \/ calls[c].kind = "login" /\ calls'[c].says = plan
  <2>1. CASE ServeLogin(c)
    <3>1. CASE To(c, "refused")
      BY <1>1, <1>2, <3>1, ToFacts DEF Still
    <3>2. CASE Issued /\ calls' = [calls EXCEPT ![c].at = "ok", ![c].new = Issue, ![c].says = plan]
      <4>1. Issue \in 0 .. MaxIssued
        BY <1>1, <3>2, IssueTypes
      <4>2. Still(c) /\ calls'[c].says = plan
        BY <1>1, <1>2, <3>2, <4>1, GivenFacts, Zenon
      <4> QED
        BY <2>1, <4>2 DEF Still, ServeLogin
    <3> QED
      BY <2>1, <3>1, <3>2 DEF ServeLogin
  <2>2. CASE ServeLogout(c)
    BY <1>1, <1>2, <2>2, ToFacts DEF Still, ServeLogout
  <2>3. CASE RefreshRead(c) \/ RefreshDelete(c)
    <3>1. \E phase \in {"read", "denied", "deleted"} : To(c, phase)
      BY <2>3 DEF RefreshRead, RefreshDelete
    <3> QED
      BY <1>1, <1>2, <3>1, ToFacts DEF Still
  <2>4. CASE RefreshIssue(c)
    <3>1. Issue \in 0 .. MaxIssued
      BY <1>1, <2>4, IssueTypes DEF RefreshIssue
    <3>2. calls' = [calls EXCEPT ![c].at = "granted", ![c].new = Issue]
      BY <2>4 DEF RefreshIssue
    <3>3. Still(c) /\ calls'[c].at = "granted"
      BY <1>1, <1>2, <3>1, <3>2, GrantedFacts, Zenon
    <3> QED
      BY <3>3 DEF Still
  <2>5. CASE Refuse(c)
    BY <1>1, <2>5, RefuseFacts DEF Same
  <2>6. CASE Refreshed(c)
    <3>1. Same(c) /\ calls'[c].at = "sent" /\ calls'[c].auth = calls[c].new
          /\ calls[c].at = "granted"
      BY <1>1, <2>6, RefreshedFacts
    <3>2. calls[c].new # 0
      BY <1>1, <1>2, <3>1 DEF CallOK
    <3> QED
      BY <3>1, <3>2
  <2> QED
    BY <2>1, <2>2, <2>3, <2>4, <2>5, <2>6
<1>4. PlanOnward /\ (surveyRow = "gone" => ListsOnward)
  BY <1>2, <1>3, StillOnward
<1>5. ASSUME mishaps' = {} PROVE ListsTrue' /\ PlanTrue'
  <2>1. ListsTrue /\ PlanTrue
    BY <1>2, <1>5 DEF ShownInv
  <2>2. CASE surveyRow = "gone"
    BY <1>2, <1>4, <2>1, <2>2, ListsSame, PlanSame
  <2>3. CASE surveyRow # "gone"
    BY <1>2, <1>4, <2>1, <2>3, PlanSame DEF ListsTrue
  <2> QED
    BY <2>2, <2>3
<1> QED
  BY <1>5 DEF ShownInv


LEMMA ShownServe ==
  ASSUME TypeInv, ShownInv, NEW c \in Slots, Serve(c)
  PROVE  ShownInv'
<1> USE DEF CallPhases
<1>1. /\ ClientTypeOK /\ Values /\ CallOK(calls[c], mishaps)
      /\ calls[c] # Nothing /\ calls[c].at = "sent"
      /\ calls[c].kind \in Kinds \ {"login", "logout"}
      /\ plan \in Plans /\ surveyRow \in {"there", "gone"}
  BY TypeParts DEF TypeInv, ClientTypeOK, Serve, Under, Call
<1>2. UNCHANGED <<globalUser, guard, leaving, listed>> /\ mishaps \subseteq mishaps'
  BY DEF Serve, userVars
<1> SUFFICES ASSUME mishaps' = {} PROVE ListsTrue' /\ PlanTrue'
  BY DEF ShownInv
<1>3. ListsTrue /\ PlanTrue /\ mishaps = {}
  BY <1>2 DEF ShownInv
<1>4. ASSUME Same(c), UNCHANGED <<plan, surveyRow>>, calls[c].auth # 0 => calls'[c].auth # 0,
             calls'[c].at = "ok" =>
                /\ calls[c].kind \in {"me", "user", "login"} => calls'[c].says = plan
                /\ calls[c].kind = "list" => calls'[c].says = surveyRow
      PROVE  ListsTrue' /\ PlanTrue'
  <2>1. PlanOnward /\ (surveyRow = "gone" => ListsOnward)
    BY <1>1, <1>4, StillOnward
  <2>2. PlanTrue'
    BY <1>2, <1>3, <1>4, <2>1, PlanSame
  <2>3. ListsTrue'
    BY <1>2, <1>3, <1>4, <2>1, ListsSame DEF ListsTrue
  <2> QED
    BY <2>2, <2>3
<1>5. CASE calls[c].auth \notin fresh
  <2>1. To(c, "refused") /\ UNCHANGED <<plan, surveyRow>>
    BY <1>5 DEF Serve
  <2> QED
    BY <1>1, <1>4, <2>1, ToFacts DEF Still
<1>6. CASE calls[c].kind \in {"me", "user"} /\ Answer(c, plan) /\ UNCHANGED <<plan, surveyRow>>
  BY <1>1, <1>4, <1>6, AnswerFacts DEF Still
<1>7. CASE calls[c].kind \in {"list", "old"} /\ Answer(c, surveyRow)
           /\ UNCHANGED <<plan, surveyRow>>
  BY <1>1, <1>4, <1>7, AnswerFacts DEF Still
<1>8. CASE /\ calls[c].kind = "delete" /\ To(c, IF surveyRow = "there" THEN "ok" ELSE "error")
           /\ surveyRow' = "gone" /\ plan' = plan
  <2>1. CASE surveyRow = "gone"
    <3>1. To(c, "error")
      BY <1>8, <2>1
    <3> QED
      BY <1>1, <1>4, <1>8, <2>1, <3>1, ToFacts DEF Still
  <2>2. CASE surveyRow = "there"
    <3>1. Still(c) /\ calls'[c].at = "ok"
      BY <1>1, <1>8, <2>2, ToFacts
    <3>2. calls[c].heard
      BY <1>1, <1>3, <1>8 DEF CallOK
    <3>3. DeleteOk(c)'
      BY <1>8, <3>1, <3>2 DEF Still, Same, DeleteOk, Heard, Under
    <3>4. PlanOnward
      BY <1>1, <1>8, <3>1, StillOnward DEF Still
    <3>5. PlanTrue'
      BY <1>2, <1>3, <1>8, <3>4, PlanSame
    <3> QED
      BY <3>3, <3>5 DEF ListsTrue
  <2> QED
    BY <1>1, <2>1, <2>2
<1>9. CASE /\ calls[c].kind = "plan" /\ plan' = calls[c].says /\ To(c, "ok")
           /\ surveyRow' = surveyRow
           /\ mishaps' = mishaps \cup (IF TellOther(plan') # {} THEN {"crossed"} ELSE {})
  <2>1. Still(c) /\ calls'[c].at = "ok" /\ calls[c].heard
    BY <1>1, <1>3, <1>9, ToFacts DEF CallOK
  <2>2. \A d \in Slots \ {c} : calls'[d] = calls[d]
    BY <2>1 DEF Still, Same, Only
  <2>3. PlanOk(c)'
    BY <1>9, <2>1 DEF Still, Same, PlanOk, Heard, Under
  <2>4. TellOther(plan') = {}
    BY <1>9
  <2>5. ASSUME NEW d \in Slots PROVE ~Wrong(d)'
    <3>1. CASE d = c
      BY <1>9, <2>1, <3>1 DEF Still, Same, Wrong
    <3>2. CASE d # c
      BY <2>2, <2>4, <3>2 DEF Wrong, TellOther, Heard, Under
    <3> QED
      BY <3>1, <3>2
  <2>6. PlanTrue'
    BY <2>3, <2>5 DEF PlanTrue
  <2>7. ListsOnward
    <3>1. ASSUME NEW d \in Slots
          PROVE  (Stale(d)' => Stale(d)) /\ (DeleteOk(d) => DeleteOk(d)') /\ (ListDue(d) => ListDue(d)')
      <4>1. CASE d = c
        BY <1>9, <2>1, <4>1 DEF Still, Same, Stale, DeleteOk, ListDue
      <4>2. CASE d # c
        BY <2>2, <4>2 DEF Stale, DeleteOk, ListDue, Heard, Under
      <4> QED
        BY <4>1, <4>2
    <3> QED
      BY <3>1 DEF ListsOnward
  <2>8. ListsTrue'
    BY <1>2, <1>3, <1>9, <2>7, ListsSame
  <2> QED
    BY <2>6, <2>8
<1> QED
  BY <1>1, <1>5, <1>6, <1>7, <1>8, <1>9 DEF Serve

LEMMA ShownAccess ==
  ASSUME TypeInv, ShownInv, NEW c \in Slots, LoggedIn(c) \/ LoggedOut(c)
  PROVE  ShownInv'
<1> SUFFICES ASSUME mishaps' = {} PROVE ListsTrue' /\ PlanTrue'
  BY DEF ShownInv
<1>1. /\ mishaps = {} /\ ListsTrue /\ PlanTrue
      /\ \A d \in Slots : (d # c => calls[d] = Nothing) /\ calls'[d] = Nothing
      /\ calls[c] # Nothing /\ calls[c].kind \in {"login", "logout"}
      /\ UNCHANGED <<plan, surveyRow, leaving, listed>>
  <2>1. mishaps \subseteq mishaps' /\ calls[c] # Nothing /\ calls[c].kind \in {"login", "logout"}
    BY LoggedInAlone, LoggedOutAlone
  <2>2. \A d \in Slots : (d # c => calls[d] = Nothing) /\ calls'[d] = Nothing
    BY LoggedInAlone, LoggedOutAlone
  <2> QED
    BY <2>1, <2>2 DEF ShownInv, LoggedIn, LoggedOut, backendVars
<1>2. ListsTrue'
  <2>1. \A d \in Slots : ~Stale(d)' /\ ~DeleteOk(d) /\ ~ListDue(d)
    BY <1>1 DEF Stale, DeleteOk, ListDue, Heard, Under
  <2> QED
    BY <1>1, <2>1 DEF ListsTrue
<1>3. PlanTrue'
  <2>1. \A d \in Slots : ~Wrong(d)'
    BY <1>1 DEF Wrong, Heard, Under
  <2>2. globalUser' \in {Nothing, plan} /\ guard' \in {Nothing, plan}
    <3>1. CASE LoggedIn(c)
      <4>1. ~Wrong(c)
        BY <1>1 DEF PlanTrue
      <4> QED
        BY <1>1, <3>1, <4>1, LoggedInAlone DEF Wrong, Heard, Under
    <3>2. CASE LoggedOut(c)
      BY <3>2, LoggedOutAlone
    <3> QED
      BY <3>1, <3>2
  <2> QED
    BY <1>1, <2>1, <2>2, NothingAssumption DEF PlanTrue, Other
<1> QED
  BY <1>2, <1>3


LEMMA ShownSucceed ==
  ASSUME TypeInv, EndInv, ShownInv, NEW c \in Slots, Succeed(c)
  PROVE  ShownInv'
<1> SUFFICES ASSUME mishaps' = {} PROVE ListsTrue' /\ PlanTrue'
  BY DEF ShownInv
<1>1. /\ ClientTypeOK /\ CallOK(calls[c], mishaps) /\ token \in 0 .. MaxIssued
      /\ calls[c] # Nothing /\ calls[c].at = "ok" /\ calls[c].heard /\ calls[c] \in Call
      /\ calls[c].kind \in {"me", "user", "list", "old", "delete", "plan"}
      /\ UNCHANGED <<plan, surveyRow, path, leaving>> /\ mishaps \subseteq mishaps'
  BY SucceedFacts DEF TypeInv, ClientTypeOK
<1>2. ListsTrue /\ PlanTrue /\ mishaps = {} /\ ~Wrong(c)
  BY <1>1 DEF ShownInv, PlanTrue
<1>3. ~leaving => token # 0
  BY <1>1, <1>2 DEF EndInv, Tokenless, Lone
<1>4. CASE calls[c].kind \in {"me", "user"}
  <2>1. /\ calls' = Gone(c) /\ listed' = listed /\ globalUser' = calls[c].says
        /\ guard' \in {guard, calls[c].says, Nothing}
    BY <1>1, <1>4 DEF Succeed
  <2>2. calls[c].kind = "user" => guard' \in {calls[c].says, Nothing}
    BY <1>1, <1>4 DEF Succeed
  <2>3. calls[c].says = plan
    BY <1>1, <1>2, <1>4 DEF Wrong, Heard, Under
  <2>4. ListsTrue'
    <3>1. ~DeleteOk(c) /\ ~ListDue(c)
      BY <1>4 DEF DeleteOk, ListDue
    <3> QED
      BY <1>1, <1>2, <2>1, <3>1, GoneOnward, ListsSame
  <2>5. ~PlanOk(c) /\ (calls[c].kind = "me" => ~UserDue(c))
    BY <1>4 DEF PlanOk, UserDue
  <2>6. \A d \in Slots : ~Wrong(d)'
    BY <1>1, <1>2, <2>1, GoneFacts DEF PlanTrue, Wrong, Heard, Under
  <2>7. CASE calls[c].kind = "me"
    <3>1. PlanOnward
      BY <1>1, <2>1, <2>5, <2>7, GoneOnward
    <3>2. Other(globalUser)' \/ Other(guard)' => Other(guard)
      BY <1>1, <2>1, <2>3, NothingAssumption DEF Other
    <3> QED
      BY <1>1, <1>2, <2>4, <2>6, <3>1, <3>2 DEF PlanTrue, PlanOnward
  <2>8. CASE calls[c].kind = "user"
    <3>1. ~Other(globalUser)' /\ ~Other(guard)'
      BY <1>1, <2>1, <2>2, <2>3, <2>8, NothingAssumption DEF Other
    <3> QED
      BY <2>4, <2>6, <3>1 DEF PlanTrue
  <2> QED
    BY <1>4, <2>7, <2>8
<1>5. CASE calls[c].kind \in {"list", "old"}
  <2>1. /\ calls' = Gone(c) /\ UNCHANGED <<globalUser, guard>>
        /\ listed' = IF calls[c].kind = "list" THEN calls[c].says ELSE listed
    BY <1>1, <1>5 DEF Succeed
  <2>2. ~PlanOk(c) /\ ~UserDue(c) /\ ~DeleteOk(c)
    BY <1>5 DEF PlanOk, UserDue, DeleteOk
  <2>3. PlanTrue'
    BY <1>1, <1>2, <2>1, <2>2, GoneOnward, PlanSame
  <2>4. CASE calls[c].kind = "old"
    <3>1. ~ListDue(c)
      BY <2>4 DEF ListDue
    <3> QED
      BY <1>1, <1>2, <2>1, <2>2, <2>3, <2>4, <3>1, GoneOnward, ListsSame
  <2>5. CASE calls[c].kind = "list"
    <3>1. \A d \in Slots : /\ Stale(d)' => Stale(d)
                           /\ DeleteOk(d) => DeleteOk(d)'
      BY <1>1, <2>1, <2>2, GoneFacts DEF Stale, DeleteOk, Heard, Under
    <3>2. listed' = "there" => Stale(c)
      BY <1>1, <2>1, <2>5 DEF Stale, Heard, Under
    <3>3. ListsTrue'
      BY <1>1, <1>2, <3>1, <3>2 DEF ListsTrue
    <3> QED
      BY <2>3, <3>3
  <2> QED
    BY <1>5, <2>4, <2>5
<1>6. CASE calls[c].kind = "plan"
  <2>1. /\ calls' = [calls EXCEPT ![c] = Request("user", token)]
        /\ UNCHANGED <<globalUser, guard, listed>>
    BY <1>1, <1>6 DEF Succeed, Planned
  <2>2. Fresh(c, "user", token) /\ "user" \in Kinds
    BY <1>1, <2>1, FreshFacts DEF Kinds
  <2>3. ~DeleteOk(c) /\ ~ListDue(c)
    BY <1>6 DEF DeleteOk, ListDue
  <2>4. ListsTrue'
    BY <1>1, <1>2, <2>1, <2>2, <2>3, ReplacedOnward, ListsSame DEF Fresh
  <2>5. \A d \in Slots : ~Wrong(d)'
    BY <1>1, <1>2, <2>2 DEF PlanTrue, Wrong, Heard, Under, Fresh, Only
  <2>6. ~leaving' => UserDue(c)'
    BY <1>1, <1>3, <2>2 DEF UserDue, Fresh
  <2> QED
    BY <2>4, <2>5, <2>6 DEF PlanTrue
<1>7. CASE calls[c].kind = "delete"
  <2>1. /\ calls' = IF InApp THEN Again(c) ELSE Gone(c)
        /\ listed' = (IF InApp THEN listed ELSE "gone")
        /\ UNCHANGED <<globalUser, guard>>
        /\ ~InApp => Waiting("list") = {}
    BY <1>1, <1>7 DEF Succeed
  <2>2. ~PlanOk(c) /\ ~UserDue(c) /\ ~Stale(c) /\ c \notin Refreshing
    BY <1>1, <1>7 DEF PlanOk, UserDue, Stale, Refreshing, Under
  <2>3. CASE ~InApp
    <3>1. PlanTrue'
      BY <1>1, <1>2, <2>1, <2>2, <2>3, GoneOnward, PlanSame
    <3>2. \A d \in Slots : ~Stale(d)
      BY <2>1, <2>3 DEF Stale, Heard, Under, Waiting
    <3>3. \A d \in Slots : ~Stale(d)'
      BY <1>1, <2>1, <2>3, <3>2, GoneFacts DEF Stale, Heard, Under
    <3>4. ListsTrue'
      BY <2>1, <2>3, <3>3 DEF ListsTrue
    <3> QED
      BY <3>1, <3>4
  <2>4. CASE InApp
    <3>1. /\ calls'[c] = Request("list", token)
          /\ \A d \in Slots \ {c} :
                \/ calls'[d] = calls[d] /\ d \notin Waiting("list")
                \/ d \in Waiting("list") /\ calls'[d] # Nothing /\ calls'[d].kind = "old"
      BY <2>1, <2>2, <2>4, AgainSame
    <3>2. "list" \in Kinds
      BY DEF Kinds
    <3>3. /\ calls'[c] # Nothing /\ calls'[c].kind = "list" /\ calls'[c].at = "sent"
          /\ calls'[c].auth = token /\ calls'[c].heard
      BY <1>1, <3>1, <3>2, RequestType
    <3>4. \A d \in Slots : /\ ~Stale(d)'
                           /\ Wrong(d)' => Wrong(d)
                           /\ PlanOk(d) => PlanOk(d)'
                           /\ UserDue(d) => UserDue(d)'
      <4>1. ASSUME NEW d \in Slots \ {c}, calls'[d] = calls[d], d \notin Waiting("list")
            PROVE  ~Stale(d)' /\ (Wrong(d)' => Wrong(d)) /\ (PlanOk(d) => PlanOk(d)')
                   /\ (UserDue(d) => UserDue(d)')
        BY <1>1, <4>1 DEF Stale, Wrong, PlanOk, UserDue, Waiting, Heard, Under
      <4>2. ASSUME NEW d \in Slots \ {c}, d \in Waiting("list"), calls'[d].kind = "old"
            PROVE  ~Stale(d)' /\ (Wrong(d)' => Wrong(d)) /\ (PlanOk(d) => PlanOk(d)')
                   /\ (UserDue(d) => UserDue(d)')
        BY <4>2 DEF Stale, Wrong, PlanOk, UserDue, Waiting
      <4>3. ~Stale(c)' /\ ~Wrong(c)' /\ ~PlanOk(c) /\ ~UserDue(c)
        BY <2>2, <3>3 DEF Stale, Wrong, Heard, Under
      <4> QED
        BY <3>1, <4>1, <4>2, <4>3
    <3>5. PlanTrue'
      BY <1>1, <1>2, <2>1, <3>4, PlanSame DEF PlanOnward
    <3>6. ~leaving' => ListDue(c)'
      BY <1>1, <1>3, <3>3 DEF ListDue
    <3>7. ListsTrue'
      BY <3>4, <3>6 DEF ListsTrue
    <3> QED
      BY <3>5, <3>7
  <2> QED
    BY <2>3, <2>4
<1> QED
  BY <1>1, <1>4, <1>5, <1>6, <1>7


LEMMA ShownFailed ==
  ASSUME TypeInv, ShownInv, NEW c \in Slots, Failed(c) \/ RefreshDenied(c) \/ Unanswered(c)
  PROVE  ShownInv'
<1> SUFFICES ASSUME mishaps' = {} PROVE ListsTrue' /\ PlanTrue'
  BY DEF ShownInv
<1>1. /\ ClientTypeOK /\ CallOK(calls[c], mishaps) /\ calls[c] # Nothing
      /\ token \in 0 .. MaxIssued /\ 0 \in 0 .. MaxIssued
      /\ UNCHANGED <<plan, surveyRow, listed>> /\ mishaps \subseteq mishaps'
  BY ClientAssumption DEF TypeInv, ClientTypeOK, Failed, RefreshDenied, Unanswered, Heard, Under,
     backendVars, clientHistory
<1>2. ListsTrue /\ PlanTrue /\ mishaps = {}
  BY <1>1 DEF ShownInv
<1>3. CASE Unanswered(c)
  <2>1. /\ calls' = Gone(c) /\ ~calls[c].heard
        /\ UNCHANGED <<leaving, globalUser, guard>>
    BY <1>3 DEF Unanswered, userVars
  <2>2. ~PlanOk(c) /\ ~UserDue(c) /\ ~DeleteOk(c) /\ ~ListDue(c)
    BY <2>1 DEF PlanOk, UserDue, DeleteOk, ListDue, Heard
  <2> QED
    BY <1>1, <1>2, <2>1, <2>2, GoneOnward, ListsSame, PlanSame
<1>4. ASSUME NEW t \in 0 .. MaxIssued, Fails(c, t)
      PROVE  /\ Only(c) /\ (calls'[c] # Nothing => calls'[c].at = "sent")
             /\ globalUser' \in {globalUser, Nothing} /\ guard' \in {guard, Nothing}
  <2>1. CASE calls' = Gone(c) /\ guard' = guard /\ globalUser' \in {globalUser, Nothing}
    BY <1>1, <2>1, GoneFacts DEF Only
  <2>2. CASE Appears(Nothing, t, c, Gone(c))
    <3>1. "me" \in Kinds
      BY DEF Kinds
    <3>2. calls' = Gone(c) \/ calls' = [Gone(c) EXCEPT ![c] = Request("me", t)]
      BY <2>2 DEF Appears
    <3>3. Only(c) /\ (calls'[c] # Nothing => calls'[c].at = "sent")
      BY <1>1, <3>1, <3>2, GoneFacts, RequestType DEF Only
    <3> QED
      BY <2>2, <3>3 DEF Appears
  <2> QED
    BY <1>4, <2>1, <2>2 DEF Fails
<1>5. CASE Failed(c)
  <2>1. Fails(c, token) /\ leaving' = leaving
    BY <1>1, <1>5, FailFails DEF Failed
  <2>2. /\ Only(c) /\ (calls'[c] # Nothing => calls'[c].at = "sent")
        /\ globalUser' \in {globalUser, Nothing} /\ guard' \in {guard, Nothing}
    BY <1>4, <2>1, <1>1
  <2>3. ~calls[c].again
    BY <1>5 DEF Failed
  <2>4. calls[c].at = "error" \/ (calls[c].at = "refused" /\ calls[c].auth = 0)
    BY <1>5, <2>3 DEF Failed, Heard, Under
  <2>5. calls[c].at = "error" => calls[c].kind = "delete"
    BY <1>1, <1>2 DEF CallOK
  <2>6. ~PlanOk(c) /\ ~UserDue(c) /\ ~DeleteOk(c) /\ ~ListDue(c)
    BY <2>4, <2>5 DEF PlanOk, UserDue, DeleteOk, ListDue, Heard, Under
  <2>7. ListsTrue'
    BY <1>1, <1>2, <2>1, <2>2, <2>6, ReplacedOnward, ListsSame
  <2>8. PlanOnward
    BY <1>1, <2>2, <2>6, ReplacedOnward
  <2>9. Other(globalUser)' \/ Other(guard)' => Other(globalUser) \/ Other(guard)
    BY <1>1, <2>2, NothingAssumption DEF Other
  <2>10. PlanTrue'
    BY <1>2, <2>1, <2>8, <2>9 DEF PlanTrue, PlanOnward
  <2> QED
    BY <2>7, <2>10
<1>6. CASE RefreshDenied(c)
  <2>1. Fails(c, 0) /\ leaving'
    <3>1. path = "app"
      BY <1>1, <1>6 DEF RefreshDenied, ClientTypeOK
    <3> QED
      BY <1>1, <1>6, <3>1, FailFails DEF RefreshDenied
  <2>2. Only(c) /\ (calls'[c] # Nothing => calls'[c].at = "sent")
    BY <1>1, <1>4, <2>1
  <2>3. calls[c].at = "denied"
    BY <1>6 DEF RefreshDenied, Heard, Under
  <2>4. \A d \in Slots : ~Wrong(d)'
    <3>1. ~Wrong(c)'
      BY <2>2 DEF Wrong, Heard, Under
    <3>2. \A d \in Slots \ {c} : calls'[d] = calls[d]
      BY <2>2 DEF Only
    <3> QED
      BY <1>1, <1>2, <3>1, <3>2 DEF PlanTrue, Wrong, Heard, Under
  <2> QED
    BY <2>1, <2>4 DEF ListsTrue, PlanTrue
<1> QED
  BY <1>3, <1>5, <1>6

LEMMA ShownPages ==
  ASSUME TypeInv, ShownInv,
         \/ \E c \in Slots : Lose(c) \/ RefreshFails(c)
         \/ \E c \in Slots, kind \in Kinds : Calling(c, kind)
         \/ Open \/ Depart \/ GoBack
         \/ Expire \/ SessionExpires \/ ResetPassword \/ UNCHANGED clientVars
  PROVE  ShownInv'
<1> SUFFICES ASSUME mishaps' = {} PROVE ListsTrue' /\ PlanTrue'
  BY DEF ShownInv
<1>1. ClientTypeOK /\ token \in 0 .. MaxIssued
  BY DEF TypeInv, ClientTypeOK
<1>2. CASE \E c \in Slots, kind \in Kinds : Calling(c, kind)
  <2>1. PICK c \in Slots, kind \in Kinds : Calling(c, kind)
    BY <1>2
  <2>2. /\ Fresh(c, kind, token) /\ calls[c] = Nothing /\ mishaps \subseteq mishaps'
        /\ UNCHANGED <<plan, surveyRow, globalUser, guard, leaving, listed>>
    BY <2>1, CallMade DEF Calling
  <2>3. ~PlanOk(c) /\ ~UserDue(c) /\ ~DeleteOk(c) /\ ~ListDue(c)
    BY <2>2 DEF PlanOk, UserDue, DeleteOk, ListDue, Heard, Under
  <2>4. ListsTrue /\ PlanTrue
    BY <2>2 DEF ShownInv
  <2> QED
    BY <2>2, <2>3, <2>4, ReplacedOnward, ListsSame, PlanSame DEF Fresh
<1>3. CASE Open \/ Depart
  <2>1. ~leaving' /\ listed' = "gone" /\ plan' = plan
    BY <1>3 DEF Open, Depart, backendVars
  <2>2. PICK c \in Slots : Appears(Nothing, token, c, Unheard(calls))
    BY <1>1, <1>3, PageAppears, LoginAppears, UnheardFacts DEF Open, Depart
  <2>3. \A d \in Slots : calls'[d] # Nothing => ~calls'[d].heard \/ calls'[d].at = "sent"
    <3>1. CASE calls' = Unheard(calls)
      BY <1>1, <3>1, UnheardFacts
    <3>2. CASE calls' = [Unheard(calls) EXCEPT ![c] = Request("me", token)]
      <4>1. "me" \in Kinds
        BY DEF Kinds
      <4> QED
        BY <1>1, <3>2, <4>1, UnheardFacts, RequestType
    <3> QED
      BY <2>2, <3>1, <3>2 DEF Appears
  <2>4. \A d \in Slots : ~Stale(d)' /\ ~Wrong(d)'
    BY <2>3 DEF Stale, Wrong, Heard, Under
  <2>5. globalUser' = Nothing /\ guard' = Nothing
    BY <2>2 DEF Appears
  <2> QED
    BY <2>1, <2>4, <2>5, NothingAssumption DEF ListsTrue, PlanTrue, Other
<1>4. CASE GoBack
  <2>1. UNCHANGED <<plan, surveyRow, leaving, listed, mishaps>>
    BY <1>4 DEF GoBack, backendVars, clientHistory
  <2>2. ListsTrue /\ PlanTrue
    BY <2>1 DEF ShownInv
  <2>3. PICK c \in Slots : /\ Appears(globalUser, token, c, calls)
                           /\ Asks(globalUser, token) => Free(c)
    BY <1>1, <1>4, PageAppears DEF GoBack, ClientTypeOK
  <2>4. ListsOnward /\ PlanOnward
    <3>1. CASE calls' = calls
      BY <2>1, <3>1 DEF ListsOnward, PlanOnward, Stale, DeleteOk, ListDue, Wrong, PlanOk, UserDue,
         Heard, Under
    <3>2. CASE Asks(globalUser, token) /\ calls' = [calls EXCEPT ![c] = Request("me", token)]
      <4>1. Fresh(c, "me", token) /\ calls[c] = Nothing
        BY <1>1, <2>3, <3>2, FreshFacts DEF Kinds, Free
      <4>2. ~PlanOk(c) /\ ~UserDue(c) /\ ~DeleteOk(c) /\ ~ListDue(c)
        BY <4>1 DEF PlanOk, UserDue, DeleteOk, ListDue, Heard, Under
      <4> QED
        BY <2>1, <4>1, <4>2, ReplacedOnward DEF Fresh
    <3> QED
      BY <2>3, <3>1, <3>2 DEF Appears
  <2>5. globalUser' = globalUser /\ guard' \in {globalUser, Nothing}
    BY <2>3 DEF Appears
  <2>6. Other(globalUser)' \/ Other(guard)' => Other(globalUser)
    BY <2>1, <2>5, NothingAssumption DEF Other
  <2>7. ListsTrue'
    BY <2>1, <2>2, <2>4, ListsSame
  <2>8. PlanTrue'
    BY <2>1, <2>2, <2>4, <2>6 DEF PlanTrue, PlanOnward
  <2> QED
    BY <2>7, <2>8
<1>5. CASE Expire \/ UNCHANGED clientVars
  <2>1. UNCHANGED <<plan, surveyRow, leaving, listed, globalUser, guard, calls, mishaps>>
    BY <1>5 DEF Expire, clientVars, userVars, clientHistory, backendVars
  <2>2. ListsTrue /\ PlanTrue
    BY <2>1 DEF ShownInv
  <2>3. ListsOnward /\ PlanOnward
    BY <2>1 DEF ListsOnward, PlanOnward, Stale, DeleteOk, ListDue, Wrong, PlanOk, UserDue, Heard,
       Under
  <2> QED
    BY <2>1, <2>2, <2>3, ListsSame, PlanSame
<1>6. CASE SessionExpires \/ ResetPassword \/ \E c \in Slots : Lose(c) \/ RefreshFails(c)
  BY <1>6 DEF SessionExpires, ResetPassword, Lose, RefreshFails
<1> QED
  BY <1>2, <1>3, <1>4, <1>5, <1>6

LEMMA ShownStep == TypeInv /\ EndInv /\ ShownInv /\ [ClientNext]_clientVars => ShownInv'
<1> SUFFICES ASSUME TypeInv, EndInv, ShownInv, [ClientNext]_clientVars PROVE ShownInv'
  OBVIOUS
<1> QED
  BY Steps, ShownServe, ShownRetries, ShownSucceed, ShownAccess, ShownFailed, ShownPages

LEMMA ShownInit == ClientInit => ShownInv
<1> SUFFICES ASSUME ClientInit PROVE ShownInv
  OBVIOUS
<1>1. globalUser \in {Nothing, "FREE"} /\ guard = globalUser /\ plan = "FREE"
      /\ surveyRow = "there" /\ \A c \in Slots : calls[c] = Nothing
  BY Zenon DEF ClientInit
<1>2. \A c \in Slots : ~Wrong(c)
  BY <1>1 DEF Wrong, Heard, Under
<1> QED
  BY <1>1, <1>2, NothingAssumption DEF ShownInv, ListsTrue, PlanTrue, Other

\* Once nothing is under way the list no longer shows a deleted survey and the
\* plan shown is the one stored: the queries of SurveysPage and switchPlan().
THEOREM PagesTellTheTruth == ClientSpec => []PagesCurrent
<1>1. TypeInv /\ ShownInv => PagesCurrent
  <2> SUFFICES ASSUME TypeInv, ShownInv, Settled, InApp, mishaps = {}
               PROVE  /\ ~(listed = "there" /\ surveyRow = "gone")
                      /\ guard = plan
    BY DEF PagesCurrent, DeletedIsNotListed, PlanIsShown
  <2>1. \A c \in Slots : ~DeleteOk(c) /\ ~ListDue(c) /\ ~PlanOk(c) /\ ~UserDue(c)
    BY DEF Settled, DeleteOk, ListDue, PlanOk, UserDue, Heard, Under
  <2>2. ~(listed = "there" /\ surveyRow = "gone")
    BY <2>1 DEF ShownInv, ListsTrue, Settled
  <2>3. guard \in Plans
    BY DEF TypeInv, ClientTypeOK, InApp
  <2>4. guard = plan
    BY <2>1, <2>3 DEF ShownInv, PlanTrue, Settled, Other
  <2> QED
    BY <2>2, <2>4
<1> QED
  BY <1>1, TypeInit, TypeStep, EndInit, EndStep, ShownInit, ShownStep, PTL DEF ClientSpec
-----------------------------------------------------------------------------
(* Both parts of MCPages.  The theorems above, and those of                *)
(* QuestionWidgetProofs, are about each part alone; each of its behaviours *)
(* is one of either.                                                       *)

\* A step of the one part is none of the other.
LEMMA PartsOfPages == AllSpec => Spec /\ ClientSpec
<1>1. AllInit => Init /\ ClientInit
  BY DEF AllInit
<1>2. [AllNext]_allVars => [Next]_vars /\ [ClientNext]_clientVars
  BY DEF AllNext, allVars
<1> QED
  BY <1>1, <1>2, PTL DEF AllSpec, Spec, ClientSpec

\* PagesTypeOK: the screens, recorders and captures of a respondent and the client of
\* a researcher keep their types, side by side.
THEOREM PagesTypeCorrect == AllSpec => []PagesTypeOK
<1>1. TypeOK /\ ClientTypeOK => PagesTypeOK
  BY DEF PagesTypeOK
<1> QED
  BY <1>1, PartsOfPages, TypeCorrect, ClientTypeCorrect, PTL

\* What holds of a question and of a session alone holds of the behaviours in which
\* both are there.
THEOREM PagesHold ==
  AllSpec => [](AsConfigured /\ RecordingsApart /\ CaptureShown /\ SessionHolds /\ PagesCurrent)
BY PartsOfPages, ConfiguredAsShown, RecordingsKeptApart, CaptureTruthful, SessionIsWhole,
   PagesTellTheTruth, PTL
=============================================================================
