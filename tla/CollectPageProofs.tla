-------------------------- MODULE CollectPageProofs --------------------------
(***************************************************************************)
(* Proofs about the collect page and the API behind it, for any survey,    *)
(* any number of starts, submissions and timers, and any number of calls   *)
(* that fail.                                                              *)
(*                                                                         *)
(* PageInv ties a submission to a session whose start is over.  On it rest *)
(* the button (SubmittingIsUnderway), the submissions that begin late      *)
(* (LateInv: with the Go backend they are never past the SELECT of         *)
(* SubmitResponse()), and the loop of next(): WholeInv says, for a         *)
(* submission at any call, what those before it have left in the store.    *)
(* DoneInv follows sessions and calls while none fails, and with WholeInv  *)
(* gives that the thanks are true.  The Go backend's answering before its  *)
(* Exec() has succeeded is a fault here, as in the model.                  *)
(***************************************************************************)
EXTENDS CollectPage, SequenceTheorems, WellFoundedInduction, TLAPS

CallType == [op : Ops \cup {"none"}, sid : Starts \cup {None}, q : 0 .. Total,
             value : Values \cup {None}]

(***************************************************************************)
(* What the callers ask for and which sessions they know.                  *)

\* Starts ask for sessions and submissions for the rest, and a submission that
\* completes its session asks for no question.
KindsOfCalls ==
    /\ \A s \in Starts : /\ req[s].op \in {"none", "session"}
                         /\ at[s] \notin {"checked", "refused"}
    /\ \A m \in Submits : /\ req[m].op # "session"
                          /\ req[m].op = "complete" => req[m].q = 0

\* Nothing knows a session before its start is over, and none is there before it
\* has been served.
SessionsBegun ==
    /\ \A s \in Starts : at[s] \in {"new", "sent"} => session[s] = "absent"
    /\ sid # None => at[sid] = "done"
    /\ \A i \in DOMAIN timers : timers[i].sid # None => at[timers[i].sid] = "done"
    /\ \A m \in Submits : at[m] # "new" => at[req[m].sid] = "done"

PageInv == TypeOK /\ KindsOfCalls /\ SessionsBegun

-----------------------------------------------------------------------------
(* The loop of a submission.                                               *)

\* Questions are numbered from 1.
LEMMA QuestionNumbers ==
  /\ \A q \in Questions : q \in Nat /\ q \in 0 .. Total /\ q # 0
  /\ \A q \in 0 .. Total : q \in Nat
  /\ Total \in Questions /\ Total \in Nat /\ 1 \in Questions
<1>1. Total \in Nat \ {0}
  BY CollectAssumption
<1> QED
  BY <1>1 DEF Questions

\* A set of numbers that is not empty has a least one.
LEMMA LeastNatural ==
  ASSUME NEW S, S \subseteq Nat, S # {}
  PROVE  \E m \in S : \A x \in S : m <= x
<1>1. IsWellFoundedOn(OpToRel(<, Nat), Nat)
  BY NatLessThanWellFounded
<1>2. PICK m \in S : \A y \in S : ~(<<y, m>> \in OpToRel(<, Nat))
  BY <1>1, WFMin
<1>3. \A y \in S : ~(y < m)
  BY <1>2 DEF OpToRel
<1> QED
  BY <1>3

\* Call c completes the session, with nothing answered after question q, or is for
\* the next question that is.
IsNext(c, as, q) ==
    \/ /\ c.op = "complete" /\ c.q = 0
       /\ \A p \in Questions : p > q => as[p] = None
    \/ /\ c.op = "response" /\ c.q \in Questions
       /\ c.value = as[c.q] /\ c.value \in Values
       /\ \A p \in Questions : p > q /\ p < c.q => as[p] = None

\* The call after question q is the next.
LEMMA NextCall ==
  ASSUME NEW s \in Starts, NEW as \in Answers, NEW q \in 0 .. Total
  PROVE  \E c \in CallType :
            c = CallAfter(s, as, q) /\ c.sid = s /\ c # NoCall /\ IsNext(c, as, q)
<1>1. CASE Following(as, q) = {}
  <2>1. CallAfter(s, as, q) = [op |-> "complete", sid |-> s, q |-> 0, value |-> None]
    BY <1>1 DEF CallAfter, Call
  <2>2. \A p \in Questions : p > q => as[p] = None
    BY <1>1 DEF Following
  <2>3. [op |-> "complete", sid |-> s, q |-> 0, value |-> None] \in CallType
    BY CollectAssumption DEF CallType, Ops
  <2> QED
    BY <2>1, <2>2, <2>3 DEF NoCall, Call, IsNext
<1>2. CASE Following(as, q) # {}
  <2>1. Following(as, q) \subseteq Nat /\ \A o \in Following(as, q) : o \in Questions
    BY QuestionNumbers DEF Following
  <2>2. \E p \in Following(as, q) : \A o \in Following(as, q) : p <= o
    BY <1>2, <2>1, LeastNatural
  <2>3. PICK p : p = CHOOSE x \in Following(as, q) : \A o \in Following(as, q) : x <= o
    OBVIOUS
  <2>4. p \in Following(as, q) /\ \A o \in Following(as, q) : p <= o
    BY <2>2, <2>3
  <2>5. p \in Questions /\ p > q /\ as[p] # None
    BY <2>4 DEF Following
  <2>6. as[p] \in Values
    BY <2>5 DEF Answers
  <2>7. CallAfter(s, as, q) = [op |-> "response", sid |-> s, q |-> p, value |-> as[p]]
    BY <1>2, <2>3 DEF CallAfter, Call
  <2>8. \A o \in Questions : o > q /\ o < p => as[o] = None
    <3> SUFFICES ASSUME NEW o \in Questions, o > q, o < p, as[o] # None PROVE FALSE
      OBVIOUS
    <3>1. o \in Following(as, q)
      BY DEF Following
    <3>2. p <= o /\ p \in Nat /\ o \in Nat
      BY <2>1, <2>4, <3>1
    <3> QED
      BY <3>2
  <2>9. PICK v : v = as[p]
    OBVIOUS
  <2>10. [op |-> "response", sid |-> s, q |-> p, value |-> v] \in CallType
    <3>1. p \in 0 .. Total /\ v \in Values
      BY <2>5, <2>6, <2>9, QuestionNumbers
    <3> QED
      BY <3>1 DEF CallType, Ops
  <2> QED
    BY <2>5, <2>6, <2>7, <2>8, <2>9, <2>10 DEF NoCall, Call, IsNext
<1> QED
  BY <1>1, <1>2

\* So is the first of the loop.
LEMMA FirstCall == \A s \in Starts, as \in Answers : IsNext(CallAfter(s, as, 0), as, 0)
<1> SUFFICES ASSUME NEW s \in Starts, NEW as \in Answers
             PROVE  IsNext(CallAfter(s, as, 0), as, 0)
  OBVIOUS
<1>1. 0 \in 0 .. Total
  BY QuestionNumbers
<1> QED
  BY <1>1, NextCall

-----------------------------------------------------------------------------
(* Types, kinds and sessions.                                              *)

\* The types of the variables one by one.
LEMMA Typed ==
  ASSUME TypeOK
  PROVE  /\ backend \in {"go", "fastapi"}
         /\ session \in [Starts -> {"absent", "IN_PROGRESS", "COMPLETED"}]
         /\ response \in [Submits -> Answers] /\ attached \in [Submits -> Answers]
         /\ req \in [Callers -> CallType]
         /\ at \in [Callers -> {"new", "sent", "checked", "done"} \cup Replies]
         /\ missed \in [Submits -> SUBSET Questions] /\ faults \in 0 .. MaxFaults
         /\ \A c \in Callers : req[c] = NoCall <=> at[c] = "new"
         /\ \A m \in Submits : at[m] # "new" => req[m].sid \in Starts
         /\ \A m \in Submits : req[m].op \in {"response", "slot", "audio", "image"} =>
               req[m].q \in Questions /\ req[m].value \in Values
         /\ snapshot \in [Submits -> Answers] /\ answers \in Answers
         /\ sid \in Starts \cup {None} /\ timers \in Seq(Render) /\ late \subseteq Submits
         /\ submitting \in BOOLEAN /\ step \in Nat
BY DEF TypeOK, ApiTypeOK, CallType, Answers

\* A step of the network or of a handler moves one call that is on its way.
LEMMA Moved ==
  ASSUME TypeOK, KindsOfCalls, NEW c \in Callers, Serving(c)
  PROVE  /\ req' = req /\ backend' = backend
         /\ at[c] \in {"sent", "checked", "ok"}
         /\ \E how \in {"checked", "ok", "refused", "failed"} :
               /\ at' = [at EXCEPT ![c] = how]
               /\ how \in {"checked", "refused"} => c \in Submits
<1>1. c \in Starts => req[c].op \in {"none", "session"}
  BY DEF KindsOfCalls
<1>2. c \in Starts \/ c \in Submits
  BY DEF Callers
<1>3. CASE Serve(c)
  BY <1>1, <1>2, <1>3
     DEF Serve, StartSession, CheckResponse, StoreResponse, CreateSlot, UploadAudio,
         UploadImage, CheckComplete, CompleteSession, Reply
<1>4. CASE Fails(c)
  BY <1>4 DEF Fails, Fault
<1>5. CASE Skips(c)
  BY <1>5 DEF Skips, Fault
<1> QED
  BY <1>3, <1>4, <1>5 DEF Serving

\* What a step of the network or of a handler writes.
LEMMA Written ==
  ASSUME TypeOK, KindsOfCalls, NEW c \in Callers, Serving(c)
  PROVE  /\ session' \in [Starts -> {"absent", "IN_PROGRESS", "COMPLETED"}]
         /\ response' \in [Submits -> Answers] /\ attached' \in [Submits -> Answers]
         /\ missed' \in [Submits -> SUBSET Questions] /\ faults' \in 0 .. MaxFaults
<1>1. c \in Starts \/ c \in Submits
  BY DEF Callers
<1>2. PICK d \in CallType : d = req[c]
  BY Typed
<1>3. c \in Submits /\ d.op \in {"response", "audio", "image"} =>
         d.q \in Questions /\ d.value \in Values
  BY <1>2, Typed
<1>4. d.op \in {"response", "audio", "image", "slot", "complete"} => c \in Submits
  BY <1>1, <1>2 DEF KindsOfCalls
<1>5. \A f \in [Submits -> Answers], q \in Questions, v \in Values :
         c \in Submits => [f EXCEPT ![c][q] = v] \in [Submits -> Answers]
  BY DEF Answers
<1>6. session' \in [Starts -> {"absent", "IN_PROGRESS", "COMPLETED"}]
  <2>1. session \in [Starts -> {"absent", "IN_PROGRESS", "COMPLETED"}]
    BY Typed
  <2>2. \/ session' = session \/ session' = [session EXCEPT ![c] = "IN_PROGRESS"]
        \/ session' = [session EXCEPT ![d.sid] = IF @ = "absent" THEN @ ELSE "COMPLETED"]
    BY <1>2 DEF Serving, Serve, StartSession, CheckResponse, StoreResponse, CreateSlot,
                UploadAudio, UploadImage, CheckComplete, CompleteSession, Fails, Skips, Fault
  <2> QED
    BY <2>1, <2>2
<1>7. response' \in [Submits -> Answers]
  <2>1. \/ response' = response
        \/ d.op = "response" /\ response' = [response EXCEPT ![c][d.q] = d.value]
    BY <1>2 DEF Serving, Serve, StartSession, CheckResponse, StoreResponse, CreateSlot,
                UploadAudio, UploadImage, CheckComplete, CompleteSession, Fails, Skips, Fault
  <2> QED
    BY <1>3, <1>4, <1>5, <2>1, Typed
<1>8. attached' \in [Submits -> Answers]
  <2>1. \/ attached' = attached
        \/ d.op \in {"audio", "image"} /\ attached' = [attached EXCEPT ![c][d.q] = d.value]
    BY <1>2 DEF Serving, Serve, StartSession, CheckResponse, StoreResponse, CreateSlot,
                UploadAudio, UploadImage, CheckComplete, CompleteSession, Fails, Skips, Fault
  <2> QED
    BY <1>3, <1>4, <1>5, <2>1, Typed
<1>9. missed' \in [Submits -> SUBSET Questions] /\ faults' \in 0 .. MaxFaults
  <2>1. \/ missed' = missed /\ faults' = faults
        \/ /\ missed' = IF c \in Submits /\ d.q \in Questions
                        THEN [missed EXCEPT ![c] = @ \cup {d.q}] ELSE missed
           /\ faults < MaxFaults /\ faults' = faults + 1
    BY <1>2 DEF Serving, Serve, StartSession, CheckResponse, StoreResponse, CreateSlot,
                UploadAudio, UploadImage, CheckComplete, CompleteSession, Fails, Skips, Fault,
                Reply
  <2>2. MaxFaults \in Nat
    BY CollectAssumption
  <2> QED
    BY <2>1, <2>2, Typed
<1> QED
  BY <1>6, <1>7, <1>8, <1>9

\* A session that is known has been begun, and its start does not come again.
LEMMA StartKept ==
  ASSUME PageInv, NEW c \in Callers, Serving(c)
  PROVE  \A s \in Starts : at[s] = "done" => at'[s] = "done"
<1>1. at[c] # "done"
  BY Moved DEF PageInv
<1> QED
  BY <1>1, Moved, Typed DEF PageInv, Callers

\* A session that is absent comes about by its own start only.
LEMMA StaysAbsent ==
  ASSUME TypeOK, NEW c \in Callers, Serving(c),
         NEW s \in Starts, s # c, session[s] = "absent"
  PROVE  session'[s] = "absent"
<1>1. session \in [Starts -> {"absent", "IN_PROGRESS", "COMPLETED"}]
  BY Typed
<1>2. PICK x : x = req[c].sid
  OBVIOUS
<1>3. \/ session' = session \/ session' = [session EXCEPT ![c] = "IN_PROGRESS"]
      \/ session' = [session EXCEPT ![x] = IF @ = "absent" THEN @ ELSE "COMPLETED"]
  BY <1>2 DEF Serving, Serve, StartSession, CheckResponse, StoreResponse, CreateSlot,
              UploadAudio, UploadImage, CheckComplete, CompleteSession, Fails, Skips, Fault
<1> QED
  BY <1>1, <1>3

\* The network and the handlers keep the types, the kinds of calls and what is known
\* of sessions.
LEMMA PageServes ==
  ASSUME PageInv, NEW c \in Callers, Serving(c), UNCHANGED pageVars
  PROVE  PageInv'
<1>1. TypeOK /\ KindsOfCalls /\ SessionsBegun
  BY DEF PageInv
<1>2. PICK how \in {"checked", "ok", "refused", "failed"} :
         /\ at' = [at EXCEPT ![c] = how]
         /\ how \in {"checked", "refused"} => c \in Submits
  BY <1>1, Moved
<1>3. req' = req /\ backend' = backend /\ at[c] \in {"sent", "checked", "ok"}
  BY <1>1, Moved
<1>4. at' \in [Callers -> {"new", "sent", "checked", "done"} \cup Replies]
      /\ \A x \in Callers : at'[x] = IF x = c THEN how ELSE at[x]
  BY <1>1, <1>2, Typed DEF Replies
<1>5. TypeOK'
  <2>1. ApiTypeOK'
    BY <1>1, <1>3, <1>4, Written, Typed DEF ApiTypeOK, CallType, Answers, Callers
  <2> QED
    BY <1>1, <2>1 DEF TypeOK, pageVars, Render
<1>6. KindsOfCalls'
  BY <1>1, <1>2, <1>3, <1>4, CollectAssumption DEF KindsOfCalls, Callers
<1>7. SessionsBegun'
  <2>1. \A s \in Starts : at'[s] \in {"new", "sent"} => session'[s] = "absent"
    BY <1>1, <1>4, StaysAbsent DEF SessionsBegun, Callers
  <2>2. \A s \in Starts : at[s] = "done" => at'[s] = "done"
    BY StartKept
  <2>3. sid' # None => at'[sid'] = "done"
    BY <1>1, <2>2, Typed DEF SessionsBegun, pageVars
  <2>4. \A i \in DOMAIN timers' : timers'[i].sid # None => at'[timers'[i].sid] = "done"
    <3>1. \A i \in DOMAIN timers : timers[i].sid \in Starts \cup {None}
      <4>1. \A i \in DOMAIN timers : timers[i] \in Render
        BY <1>1, Typed
      <4> QED
        BY <4>1 DEF Render
    <3> QED
      BY <1>1, <2>2, <3>1 DEF SessionsBegun, pageVars
  <2>5. \A m \in Submits : at'[m] # "new" => at'[req'[m].sid] = "done"
    <3> SUFFICES ASSUME NEW m \in Submits, at'[m] # "new"
                 PROVE  at'[req'[m].sid] = "done"
      OBVIOUS
    <3>1. at[m] # "new"
      BY <1>3, <1>4 DEF Callers
    <3> QED
      BY <1>1, <1>3, <2>2, <3>1, Typed DEF SessionsBegun
  <2> QED
    BY <2>1, <2>3, <2>4, <2>5 DEF SessionsBegun
<1> QED
  BY <1>5, <1>6, <1>7 DEF PageInv

\* Edits, choices, captures, steps back and the closing of the page ask for nothing.
LEMMA PageAnswers ==
  ASSUME PageInv,
         \/ \E v \in Values \cup {None} : Edit(v)
         \/ \E v \in Values : Choose(v)
         \/ Capture
         \/ \E q \in Questions : Captured(q)
         \/ Back
         \/ Close
  PROVE  PageInv'
<1>1. TypeOK /\ KindsOfCalls /\ SessionsBegun
  BY DEF PageInv
<1>2. UNCHANGED <<apiVars, survey, snapshot, late>>
  BY DEF Edit, Choose, Capture, Captured, Back, Close
<1>3. ApiTypeOK' /\ KindsOfCalls'
  BY <1>1, <1>2 DEF TypeOK, ApiTypeOK, KindsOfCalls, apiVars
<1>4. answers' \in Answers
  <2>1. \A q \in Questions, v \in Values \cup {None} :
           [answers EXCEPT ![q] = v] \in Answers
    BY <1>1, Typed DEF Answers
  <2>2. Shows("text") \/ Shows("image") \/ Shows("location") \/ Shows("audio")
           \/ Shows("choice") => step \in Questions
    BY DEF Shows
  <2>3. CASE \E v \in Values \cup {None} : Edit(v)
    BY <2>1, <2>2, <2>3 DEF Edit, Answer
  <2>4. CASE \E v \in Values : Choose(v)
    BY <2>1, <2>2, <2>4 DEF Choose, Answer
  <2>5. CASE \E q \in Questions : Captured(q)
    BY <1>1, <2>1, <2>5, Typed DEF Captured, Answer
  <2>6. CASE Capture \/ Back
    BY <1>1, <2>6, Typed DEF Capture, Back
  <2>7. CASE Close
    BY <2>7 DEF Close, Answers
  <2> QED
    BY <2>3, <2>4, <2>5, <2>6, <2>7
<1>5. /\ sid' \in Starts \cup {None} /\ step' \in Nat /\ open' \in BOOLEAN
      /\ submitting' \in BOOLEAN /\ capturing' \subseteq Questions
      /\ sid' # None => sid' = sid
  <2>1. CASE Close
    BY <1>1, <2>1 DEF Close, TypeOK
  <2>2. CASE Back
    <3>1. step' \in Nat
      BY <2>2, QuestionNumbers DEF Back
    <3> QED
      BY <1>1, <2>2, <3>1 DEF Back, TypeOK
  <2>3. CASE ~Close /\ ~Back
    BY <1>1, <2>3 DEF Edit, Choose, Capture, Captured, TypeOK, Shows
  <2> QED
    BY <2>1, <2>2, <2>3
<1>6. /\ timers' \in Seq(Render) /\ Len(timers') <= MaxTimers
      /\ \A i \in DOMAIN timers' : timers'[i].sid # None => at'[timers'[i].sid] = "done"
  <2>1. CASE timers' = timers
    BY <1>1, <1>2, <2>1 DEF TypeOK, SessionsBegun, apiVars
  <2>2. CASE timers' = <<>>
    BY <2>2, PageAssumption, EmptySeq
  <2>3. CASE /\ Shows("choice") /\ Len(timers) < MaxTimers
             /\ timers' = Append(timers, [step |-> step, sid |-> sid, answers |-> answers])
    <3>1. PICK r \in Render : r = [step |-> step, sid |-> sid, answers |-> answers]
      BY <1>1, <2>3, Typed DEF Shows, Render
    <3>2. r.sid = sid
      BY <3>1
    <3>3. /\ timers' \in Seq(Render) /\ Len(timers') = Len(timers) + 1
          /\ \A i \in 1 .. Len(timers) : timers'[i] = timers[i]
          /\ timers'[Len(timers) + 1] = r
      BY <1>1, <2>3, <3>1, Typed, AppendProperties
    <3>4. Len(timers') <= MaxTimers
      BY <1>1, <2>3, <3>3, PageAssumption, Typed
    <3>5. ASSUME NEW i \in DOMAIN timers', timers'[i].sid # None
          PROVE  at'[timers'[i].sid] = "done"
      <4>1. at' = at
        BY <1>2 DEF apiVars
      <4>2. CASE i = Len(timers) + 1
        BY <1>1, <3>2, <3>3, <3>5, <4>1, <4>2 DEF SessionsBegun
      <4>3. CASE i # Len(timers) + 1
        <5>1. i \in DOMAIN timers /\ timers'[i] = timers[i]
          BY <1>1, <3>3, <4>3, Typed
        <5> QED
          BY <1>1, <3>5, <4>1, <5>1 DEF SessionsBegun
      <4> QED
        BY <4>2, <4>3
    <3> QED
      BY <3>3, <3>4, <3>5
  <2> QED
    BY <2>1, <2>2, <2>3 DEF Edit, Choose, Capture, Captured, Back, Close
<1>7. TypeOK'
  BY <1>1, <1>2, <1>3, <1>4, <1>5, <1>6 DEF TypeOK
<1>8. SessionsBegun'
  BY <1>1, <1>2, <1>5, <1>6 DEF SessionsBegun, apiVars
<1> QED
  BY <1>3, <1>7, <1>8 DEF PageInv

\* A call a submission may make, of a session that has begun.
Proper(c) ==
    /\ c \in CallType /\ c # NoCall
    /\ c.op \in {"response", "slot", "audio", "image", "complete"}
    /\ c.op = "complete" => c.q = 0
    /\ c.op # "complete" => c.q \in Questions /\ c.value \in Values
    /\ c.sid \in Starts /\ at[c.sid] = "done"

\* A submission that makes such a call leaves the sessions and their starts alone.
LEMMA Sends ==
  ASSUME PageInv, NEW m \in Submits, NEW c, Proper(c), Send(m, c),
         UNCHANGED <<backend, session, response, attached, missed, faults>>
  PROVE  /\ ApiTypeOK' /\ KindsOfCalls'
         /\ \A s \in Starts : at'[s] = at[s]
         /\ \A n \in Submits : at'[n] # "new" => at'[req'[n].sid] = "done"
         /\ \A n \in Callers : /\ at'[n] = IF n = m THEN "sent" ELSE at[n]
                               /\ req'[n] = IF n = m THEN c ELSE req[n]
<1>1. TypeOK /\ KindsOfCalls /\ SessionsBegun
  BY DEF PageInv
<1>2. at' = [at EXCEPT ![m] = "sent"] /\ req' = [req EXCEPT ![m] = c]
  BY DEF Send
<1>3. m \in Callers /\ m \notin Starts
  BY CollectAssumption DEF Callers
<1>4. \A n \in Callers : /\ at'[n] = IF n = m THEN "sent" ELSE at[n]
                         /\ req'[n] = IF n = m THEN c ELSE req[n]
  BY <1>1, <1>2, Typed
<1>5. at' \in [Callers -> {"new", "sent", "checked", "done"} \cup Replies]
  BY <1>1, <1>2, Typed
<1>6. c \in CallType
  BY DEF Proper
<1>7. req' \in [Callers -> CallType]
  BY <1>1, <1>2, <1>6, Typed
<1>8. ApiTypeOK'
  <2>1. \A n \in Callers : req'[n] = NoCall <=> at'[n] = "new"
    BY <1>1, <1>4, Typed DEF Proper
  <2>2. \A n \in Submits : at'[n] # "new" => req'[n].sid \in Starts
    BY <1>1, <1>4, Typed DEF Proper, Callers
  <2>3. \A n \in Submits : req'[n].op \in {"response", "slot", "audio", "image"} =>
           req'[n].q \in Questions /\ req'[n].value \in Values
    BY <1>1, <1>4, Typed DEF Proper, Callers
  <2> QED
    BY <1>1, <1>5, <1>7, <2>1, <2>2, <2>3, Typed DEF ApiTypeOK, CallType, Answers
<1>9. \A s \in Starts : at'[s] = at[s] /\ req'[s] = req[s]
  BY <1>3, <1>4 DEF Callers
<1>10. KindsOfCalls'
  BY <1>1, <1>4, <1>9 DEF KindsOfCalls, Proper, Callers
<1>11. \A n \in Submits : at'[n] # "new" => at'[req'[n].sid] = "done"
  BY <1>1, <1>4, <1>9, Typed DEF SessionsBegun, Proper, Callers
<1> QED
  BY <1>4, <1>8, <1>9, <1>10, <1>11

\* next() sends a first call, or moves on and sends nothing.
LEMMA MovesOn ==
  ASSUME PageInv, NEW m \in Submits, NEW r \in Render, MoveOn(m, r),
         r.sid # None => at[r.sid] = "done"
  PROVE  \/ /\ r.sid \in Starts /\ at[m] = "new"
            /\ \E c : /\ Proper(c) /\ Send(m, c) /\ c = CallAfter(r.sid, r.answers, 0)
                      /\ c.sid = r.sid
            /\ snapshot' = [snapshot EXCEPT ![m] = r.answers] /\ r.answers \in Answers
            /\ late' = IF session[r.sid] = "COMPLETED" THEN late \cup {m} ELSE late
            /\ submitting' = TRUE /\ step' = step
         \/ /\ ~(r.step = Total /\ r.sid # None)
            /\ step' = step + 1
            /\ submitting' = IF r.step = Total THEN FALSE ELSE submitting
            /\ UNCHANGED <<snapshot, late, req, at>>
<1>1. CASE r.step = Total /\ r.sid # None
  <2>1. BeginSubmission(m, r)
    BY <1>1 DEF MoveOn
  <2>2. r.sid \in Starts /\ r.answers \in Answers /\ at[r.sid] = "done"
    BY <1>1 DEF Render
  <2>3. 0 \in 0 .. Total
    BY QuestionNumbers
  <2>4. PICK c \in CallType :
            /\ c = CallAfter(r.sid, r.answers, 0) /\ c.sid = r.sid /\ c # NoCall
            /\ \/ c.op = "complete" /\ c.q = 0
               \/ c.op = "response" /\ c.q \in Questions /\ c.value \in Values
    BY <2>2, <2>3, NextCall DEF IsNext
  <2>5. Proper(c)
    BY <2>2, <2>4 DEF Proper
  <2> QED
    BY <2>1, <2>2, <2>4, <2>5 DEF BeginSubmission
<1>2. CASE ~(r.step = Total /\ r.sid # None)
  BY <1>2 DEF MoveOn
<1> QED
  BY <1>1, <1>2

\* The call that follows a call that has been answered.
LEMMA Continues ==
  ASSUME PageInv, NEW m \in Submits, at[m] \in Replies, req[m].op # "complete"
  PROVE  Proper(Continuation(m)) /\ Continuation(m).sid = req[m].sid
<1>1. TypeOK /\ KindsOfCalls /\ SessionsBegun
  BY DEF PageInv
<1>2. PICK c \in CallType : c = req[m]
  BY <1>1, Typed DEF Callers
<1>3. at[m] # "new"
  BY DEF Replies
<1>4. c.sid \in Starts /\ at[c.sid] = "done"
  BY <1>1, <1>2, <1>3, Typed DEF SessionsBegun
<1>5. c.op \in {"none", "response", "slot", "audio", "image"} /\ c.q \in 0 .. Total
  BY <1>1, <1>2 DEF KindsOfCalls, CallType, Ops
<1>6. c.op # "none" => c.q \in Questions /\ c.value \in Values
  BY <1>1, <1>2, <1>5, Typed
<1>7. \A op \in {"slot", "audio", "image"} :
         c.op # "none" => /\ Proper(Call(op, c.sid, c.q, c.value))
                          /\ Call(op, c.sid, c.q, c.value).sid = c.sid
  <2> SUFFICES ASSUME NEW op \in {"slot", "audio", "image"}, c.op # "none"
               PROVE  /\ Proper(Call(op, c.sid, c.q, c.value))
                      /\ Call(op, c.sid, c.q, c.value).sid = c.sid
    OBVIOUS
  <2>1. PICK s \in Starts, q \in Questions, v \in Values : s = c.sid /\ q = c.q /\ v = c.value
    BY <1>4, <1>6
  <2>2. PICK d : d = [op |-> op, sid |-> s, q |-> q, value |-> v]
    OBVIOUS
  <2>3. q \in 0 .. Total
    BY QuestionNumbers
  <2>4. d \in CallType /\ d # NoCall
    BY <2>2, <2>3 DEF CallType, Ops, NoCall, Call
  <2>5. Proper(d) /\ d.sid = s
    BY <1>4, <2>1, <2>2, <2>4 DEF Proper
  <2> QED
    BY <2>1, <2>2, <2>5 DEF Call
<1>8. Proper(CallAfter(c.sid, snapshot[m], c.q)) /\ CallAfter(c.sid, snapshot[m], c.q).sid = c.sid
  <2>1. snapshot[m] \in Answers
    BY <1>1, Typed
  <2>2. PICK d \in CallType :
            /\ d = CallAfter(c.sid, snapshot[m], c.q) /\ d.sid = c.sid /\ d # NoCall
            /\ \/ d.op = "complete" /\ d.q = 0
               \/ d.op = "response" /\ d.q \in Questions /\ d.value \in Values
    BY <1>4, <1>5, <2>1, NextCall DEF IsNext
  <2>3. Proper(d)
    BY <1>4, <2>2 DEF Proper
  <2> QED
    BY <2>2, <2>3
<1> QED
  BY <1>2, <1>5, <1>7, <1>8 DEF Continuation

\* A timer that fires is gone, and the others are as they were.
LEMMA TimerGone ==
  ASSUME NEW ts \in Seq(Render), NEW i \in DOMAIN ts
  PROVE  LET rest == SubSeq(ts, 1, i - 1) \o SubSeq(ts, i + 1, Len(ts))
         IN /\ rest \in Seq(Render) /\ Len(rest) <= Len(ts)
            /\ \A j \in DOMAIN rest : \E k \in DOMAIN ts : rest[j] = ts[k]
<1>1. i \in 1 .. Len(ts) /\ Len(ts) \in Nat
  OBVIOUS
<1>2. PICK f : f = SubSeq(ts, 1, i - 1)
  OBVIOUS
<1>3. PICK g : g = SubSeq(ts, i + 1, Len(ts))
  OBVIOUS
<1>4. f \in Seq(Render) /\ Len(f) = i - 1 /\ \A j \in 1 .. i - 1 : f[j] = ts[j]
  BY <1>1, <1>2
<1>5. g \in Seq(Render) /\ Len(g) = Len(ts) - i /\ \A j \in 1 .. Len(ts) - i : g[j] = ts[i + j]
  BY <1>1, <1>3
<1>6. PICK rest : rest = f \o g
  OBVIOUS
<1>7. /\ rest \in Seq(Render) /\ Len(rest) = Len(f) + Len(g)
      /\ \A j \in 1 .. Len(f) + Len(g) :
            rest[j] = IF j <= Len(f) THEN f[j] ELSE g[j - Len(f)]
  BY <1>4, <1>5, <1>6, ConcatProperties
<1>8. Len(rest) = Len(ts) - 1
  BY <1>1, <1>4, <1>5, <1>7
<1>9. ASSUME NEW j \in 1 .. Len(ts) - 1
      PROVE  \E k \in 1 .. Len(ts) : rest[j] = ts[k]
  <2>1. PICK n \in Nat : n = Len(ts)
    BY <1>1
  <2>2. j \in 1 .. Len(f) + Len(g) /\ Len(f) = i - 1
    BY <1>1, <1>4, <1>5
  <2>3. rest[j] = IF j <= i - 1 THEN f[j] ELSE g[j - (i - 1)]
    BY <1>7, <2>2
  <2>4. CASE j <= i - 1
    <3>1. j \in 1 .. i - 1 /\ j \in 1 .. Len(ts)
      BY <1>1, <2>1, <2>4
    <3> QED
      BY <1>4, <2>3, <2>4, <3>1
  <2>5. CASE ~(j <= i - 1)
    <3>1. j - (i - 1) \in 1 .. n - i /\ i + (j - (i - 1)) = j + 1 /\ j + 1 \in 1 .. n
      BY <1>1, <2>1, <2>5
    <3> QED
      BY <1>5, <2>1, <2>3, <2>5, <3>1
  <2> QED
    BY <2>4, <2>5
<1>10. DOMAIN rest = 1 .. Len(ts) - 1 /\ DOMAIN ts = 1 .. Len(ts) /\ Len(rest) <= Len(ts)
  BY <1>1, <1>7, <1>8
<1> QED
  BY <1>2, <1>3, <1>6, <1>7, <1>9, <1>10

\* The page begins: a session is asked for, and is known when its call is over.
LEMMA PageBegins ==
  ASSUME PageInv, NEW s \in Starts, ClickBegin(s) \/ Begun(s)
  PROVE  PageInv'
<1>1. TypeOK /\ KindsOfCalls /\ SessionsBegun
  BY DEF PageInv
<1>2. s \in Callers /\ s \notin Submits /\ \A m \in Submits : m \in Callers
  BY CollectAssumption DEF Callers
<1>3. UNCHANGED <<backend, session, response, attached, missed, faults, survey, open,
                  answers, submitting, timers, capturing, snapshot, late>>
  BY DEF ClickBegin, Begun, pageVars
<1>4. CASE ClickBegin(s)
  <2>1. at[s] = "new" /\ session[s] = "absent"
    BY <1>1, <1>4 DEF ClickBegin, SessionsBegun
  <2>2. PICK c \in CallType : c = [op |-> "session", sid |-> None, q |-> 0, value |-> None]
    <3>1. 0 \in 0 .. Total
      BY QuestionNumbers
    <3>2. [op |-> "session", sid |-> None, q |-> 0, value |-> None] \in CallType
      BY <3>1 DEF CallType, Ops
    <3> QED
      BY <3>2
  <2>3. c # NoCall /\ c.op = "session"
    BY <2>2 DEF NoCall, Call
  <2>4. at' = [at EXCEPT ![s] = "sent"] /\ req' = [req EXCEPT ![s] = c]
    BY <1>4, <2>2 DEF ClickBegin, Send, Call
  <2>5. /\ \A n \in Callers : /\ at'[n] = IF n = s THEN "sent" ELSE at[n]
                              /\ req'[n] = IF n = s THEN c ELSE req[n]
        /\ at' \in [Callers -> {"new", "sent", "checked", "done"} \cup Replies]
        /\ req' \in [Callers -> CallType]
    BY <1>1, <2>4, Typed
  <2>6. ApiTypeOK'
    <3>1. \A n \in Callers : req'[n] = NoCall <=> at'[n] = "new"
      BY <1>1, <2>3, <2>5, Typed
    <3>2. \A m \in Submits : req'[m] = req[m] /\ at'[m] = at[m]
      BY <1>2, <2>5
    <3> QED
      BY <1>1, <1>3, <2>5, <3>1, <3>2, Typed DEF ApiTypeOK, CallType, Answers
  <2>7. TypeOK'
    BY <1>1, <1>3, <1>4, <2>6 DEF TypeOK, ClickBegin, pageVars
  <2>8. KindsOfCalls'
    BY <1>1, <1>2, <2>3, <2>5 DEF KindsOfCalls, Callers
  <2>9. \A t \in Starts : at[t] = "done" => at'[t] = "done"
    BY <2>1, <2>5 DEF Callers
  <2>10. sid' = sid
    BY <1>4 DEF ClickBegin, pageVars
  <2>11. \A i \in DOMAIN timers : timers[i].sid \in Starts \cup {None}
    <3>1. \A i \in DOMAIN timers : timers[i] \in Render
      BY <1>1, Typed
    <3> QED
      BY <3>1 DEF Render
  <2>12. SessionsBegun'
    <3>1. \A t \in Starts : at'[t] \in {"new", "sent"} => session'[t] = "absent"
      BY <1>1, <1>3, <2>1, <2>5 DEF SessionsBegun, Callers
    <3>2. \A m \in Submits : at'[m] # "new" => at'[req'[m].sid] = "done"
      BY <1>1, <1>2, <2>5, <2>9, Typed DEF SessionsBegun
    <3> QED
      BY <1>1, <1>3, <2>9, <2>10, <2>11, <3>1, <3>2, Typed DEF SessionsBegun
  <2> QED
    BY <2>7, <2>8, <2>12 DEF PageInv
<1>5. CASE Begun(s)
  <2>1. /\ at[s] \in Replies /\ at' = [at EXCEPT ![s] = "done"] /\ req' = req
        /\ sid' \in {s, None} /\ step' = 1
    BY <1>5 DEF Begun
  <2>2. /\ \A n \in Callers : at'[n] = IF n = s THEN "done" ELSE at[n]
        /\ at' \in [Callers -> {"new", "sent", "checked", "done"} \cup Replies]
    BY <1>1, <2>1, Typed
  <2>3. at[s] # "new"
    BY <2>1 DEF Replies
  <2>4. ApiTypeOK'
    BY <1>1, <1>2, <1>3, <2>1, <2>2, <2>3, Typed DEF ApiTypeOK, CallType, Answers
  <2>5. TypeOK'
    BY <1>1, <1>3, <2>1, <2>4 DEF TypeOK
  <2>6. KindsOfCalls'
    BY <1>1, <1>2, <2>1, <2>2 DEF KindsOfCalls, Callers
  <2>7. \A t \in Starts : at[t] = "done" => at'[t] = "done"
    BY <2>2 DEF Callers
  <2>8. sid' # None => at'[sid'] = "done"
    BY <1>2, <2>1, <2>2
  <2>9. \A i \in DOMAIN timers : timers[i].sid \in Starts \cup {None}
    <3>1. \A i \in DOMAIN timers : timers[i] \in Render
      BY <1>1, Typed
    <3> QED
      BY <3>1 DEF Render
  <2>10. SessionsBegun'
    <3>1. \A t \in Starts : at'[t] \in {"new", "sent"} => session'[t] = "absent"
      BY <1>1, <1>3, <2>2 DEF SessionsBegun, Callers
    <3>2. \A m \in Submits : at'[m] # "new" => at'[req'[m].sid] = "done"
      BY <1>1, <1>2, <2>1, <2>2, <2>7, Typed DEF SessionsBegun
    <3> QED
      BY <1>1, <1>3, <2>7, <2>8, <2>9, <3>1, <3>2, Typed DEF SessionsBegun
  <2> QED
    BY <2>5, <2>6, <2>10 DEF PageInv
<1> QED
  BY <1>4, <1>5

\* A submission begins, or the page moves on, with the button or a timer of before.
LEMMA PageMovesOn ==
  ASSUME PageInv, NEW m \in Submits, NEW r \in Render, MoveOn(m, r),
         r.sid # None => at[r.sid] = "done",
         UNCHANGED <<backend, session, response, attached, missed, faults, survey,
                     open, answers, sid, capturing>>,
         timers' \in Seq(Render), Len(timers') <= MaxTimers,
         \A i \in DOMAIN timers' : \E j \in DOMAIN timers : timers'[i] = timers[j]
  PROVE  PageInv'
<1>1. TypeOK /\ KindsOfCalls /\ SessionsBegun
  BY DEF PageInv
<1>2. \/ /\ r.sid \in Starts /\ at[m] = "new"
         /\ \E c : Proper(c) /\ Send(m, c)
         /\ snapshot' = [snapshot EXCEPT ![m] = r.answers] /\ r.answers \in Answers
         /\ late' = IF session[r.sid] = "COMPLETED" THEN late \cup {m} ELSE late
         /\ submitting' = TRUE /\ step' = step
      \/ /\ step' = step + 1
         /\ submitting' = IF r.step = Total THEN FALSE ELSE submitting
         /\ UNCHANGED <<snapshot, late, req, at>>
  BY MovesOn
<1>3. /\ ApiTypeOK' /\ KindsOfCalls' /\ \A s \in Starts : at'[s] = at[s]
      /\ \A n \in Submits : at'[n] # "new" => at'[req'[n].sid] = "done"
  <2>1. CASE \E c : Proper(c) /\ Send(m, c)
    BY <2>1, Sends
  <2>2. CASE UNCHANGED <<req, at>>
    BY <1>1, <2>2 DEF TypeOK, ApiTypeOK, KindsOfCalls, SessionsBegun
  <2> QED
    BY <1>2, <2>1, <2>2
<1>4. TypeOK'
  <2>1. snapshot' \in [Submits -> Answers] /\ late' \subseteq Submits
    BY <1>1, <1>2, Typed
  <2>2. submitting' \in BOOLEAN
    BY <1>1, <1>2, Typed
  <2>3. step' \in Nat
    <3>1. step \in Nat /\ (step' = step \/ step' = step + 1)
      BY <1>1, <1>2, Typed
    <3> QED
      BY <3>1
  <2> QED
    BY <1>1, <1>3, <2>1, <2>2, <2>3 DEF TypeOK
<1>5. SessionsBegun'
  <2>1. ASSUME NEW i \in DOMAIN timers', timers'[i].sid # None
        PROVE  at'[timers'[i].sid] = "done"
    <3>1. PICK j \in DOMAIN timers : timers'[i] = timers[j]
      OBVIOUS
    <3>2. timers[j] \in Render
      BY <1>1, Typed
    <3>3. timers[j].sid \in Starts
      BY <2>1, <3>1, <3>2 DEF Render
    <3> QED
      BY <1>1, <1>3, <2>1, <3>1, <3>3 DEF SessionsBegun
  <2> QED
    BY <1>1, <1>3, <2>1, Typed DEF SessionsBegun
<1> QED
  BY <1>3, <1>4, <1>5 DEF PageInv

\* The render next() belongs to: of now, or of the timer.
LEMMA ProceedMoves ==
  ASSUME PageInv, NEW m \in Submits, Proceed(m)
  PROVE  \E r \in Render :
            /\ r.step = step /\ r.sid = sid /\ r.answers = answers /\ MoveOn(m, r)
            /\ r.sid # None => at[r.sid] = "done"
<1>1. TypeOK /\ KindsOfCalls /\ SessionsBegun
  BY DEF PageInv
<1>2. PICK r : r = [step |-> step, sid |-> sid, answers |-> answers]
  OBVIOUS
<1>3. r \in Render
  BY <1>1, <1>2, Typed DEF Render, Proceed
<1> QED
  BY <1>1, <1>2, <1>3 DEF Proceed, SessionsBegun

\* So does the timer of a choice, with the render it was set in.
LEMMA CommitMoves ==
  ASSUME PageInv, NEW m \in Submits, NEW i \in DOMAIN timers, Commit(m, i)
  PROVE  /\ timers[i] \in Render /\ MoveOn(m, timers[i])
         /\ timers[i].sid # None => at[timers[i].sid] = "done"
         /\ timers' \in Seq(Render) /\ Len(timers') <= MaxTimers
         /\ \A j \in DOMAIN timers' : \E k \in DOMAIN timers : timers'[j] = timers[k]
<1>1. TypeOK /\ KindsOfCalls /\ SessionsBegun
  BY DEF PageInv
<1>2. timers \in Seq(Render) /\ Len(timers) <= MaxTimers
  BY <1>1 DEF TypeOK
<1>3. timers' = SubSeq(timers, 1, i - 1) \o SubSeq(timers, i + 1, Len(timers))
  BY DEF Commit
<1>4. /\ timers' \in Seq(Render) /\ Len(timers') <= Len(timers)
      /\ \A j \in DOMAIN timers' : \E k \in DOMAIN timers : timers'[j] = timers[k]
  BY <1>2, <1>3, TimerGone
<1>5. Len(timers') <= MaxTimers
  <2>1. MaxTimers \in Nat /\ Len(timers) \in Nat /\ Len(timers') \in Nat
    BY <1>2, <1>4, PageAssumption
  <2> QED
    BY <1>2, <1>4, <2>1
<1>6. timers[i] \in Render
  BY <1>2
<1>7. MoveOn(m, timers[i])
  BY DEF Commit
<1>8. timers[i].sid # None => at[timers[i].sid] = "done"
  BY <1>1 DEF SessionsBegun
<1> QED
  BY <1>4, <1>5, <1>6, <1>7, <1>8

\* The button and the timers keep PageInv.
LEMMA PageProceeds ==
  ASSUME PageInv, NEW m \in Submits,
         Proceed(m) \/ \E i \in DOMAIN timers : Commit(m, i)
  PROVE  PageInv'
<1>1. CASE Proceed(m)
  <2>1. timers \in Seq(Render) /\ Len(timers) <= MaxTimers
    BY DEF PageInv, TypeOK
  <2> QED
    BY <1>1, <2>1, ProceedMoves, PageMovesOn DEF Proceed
<1>2. ASSUME NEW i \in DOMAIN timers, Commit(m, i)
      PROVE  PageInv'
  BY <1>2, CommitMoves, PageMovesOn DEF Commit
<1> QED
  BY <1>1, <1>2

\* The loop goes on, or comes to its end.
LEMMA PageContinues ==
  ASSUME PageInv, NEW m \in Submits, Continue(m) \/ Finish(m)
  PROVE  PageInv'
<1>1. TypeOK /\ KindsOfCalls /\ SessionsBegun
  BY DEF PageInv
<1>2. m \in Callers /\ m \notin Starts
  BY CollectAssumption DEF Callers
<1>3. CASE Continue(m)
  <2>1. /\ ApiTypeOK' /\ KindsOfCalls' /\ \A s \in Starts : at'[s] = at[s]
        /\ \A n \in Submits : at'[n] # "new" => at'[req'[n].sid] = "done"
    BY <1>3, Continues, Sends DEF Continue
  <2>2. TypeOK'
    BY <1>1, <1>3, <2>1 DEF Continue, TypeOK, pageVars
  <2>3. \A i \in DOMAIN timers : timers[i].sid \in Starts \cup {None}
    <3>1. \A i \in DOMAIN timers : timers[i] \in Render
      BY <1>1, Typed
    <3> QED
      BY <3>1 DEF Render
  <2>4. SessionsBegun'
    BY <1>1, <1>3, <2>1, <2>3, Typed DEF Continue, SessionsBegun, pageVars
  <2> QED
    BY <2>1, <2>2, <2>4 DEF PageInv
<1>4. CASE Finish(m)
  <2>1. /\ at[m] \in Replies /\ at' = [at EXCEPT ![m] = "done"] /\ req' = req
        /\ submitting' = FALSE /\ step' = step + 1
        /\ UNCHANGED <<backend, session, response, attached, missed, faults, survey, open,
                       answers, sid, timers, capturing, snapshot, late>>
    BY <1>4 DEF Finish
  <2>2. /\ \A n \in Callers : at'[n] = IF n = m THEN "done" ELSE at[n]
        /\ at' \in [Callers -> {"new", "sent", "checked", "done"} \cup Replies]
    BY <1>1, <2>1, Typed
  <2>3. at[m] # "new"
    BY <2>1 DEF Replies
  <2>4. ApiTypeOK'
    <3>1. \A n \in Callers : at'[n] = "new" <=> at[n] = "new"
      BY <2>2, <2>3
    <3> QED
      BY <1>1, <2>1, <2>2, <3>1, Typed DEF ApiTypeOK, CallType, Answers, Callers
  <2>5. TypeOK'
    <3>1. step' \in Nat
      BY <1>1, <2>1, Typed
    <3> QED
      BY <1>1, <2>1, <2>4, <3>1 DEF TypeOK
  <2>6. \A s \in Starts : at'[s] = at[s]
    BY <1>2, <2>2 DEF Callers
  <2>7. KindsOfCalls'
    BY <1>1, <2>1, <2>6 DEF KindsOfCalls
  <2>8. \A i \in DOMAIN timers : timers[i].sid \in Starts \cup {None}
    <3>1. \A i \in DOMAIN timers : timers[i] \in Render
      BY <1>1, Typed
    <3> QED
      BY <3>1 DEF Render
  <2>9. \A n \in Submits : at'[n] # "new" => at'[req'[n].sid] = "done"
    BY <1>1, <2>1, <2>2, <2>3, <2>6, Typed DEF SessionsBegun, Callers
  <2>10. SessionsBegun'
    BY <1>1, <2>1, <2>6, <2>8, <2>9, Typed DEF SessionsBegun
  <2> QED
    BY <2>5, <2>7, <2>10 DEF PageInv
<1> QED
  BY <1>3, <1>4

\* The page is shown with nothing called.
LEMMA PageInit == Init => PageInv
<1> SUFFICES ASSUME Init PROVE PageInv
  OBVIOUS
<1>1. <<>> \in Seq(Render) /\ Len(<<>>) = 0
  BY EmptySeq
<1>2. /\ MaxFaults \in Nat /\ MaxTimers \in Nat /\ NoCall \in CallType
      /\ NoCall.op = "none" /\ 0 \in 0 .. MaxFaults
  <2>1. NoCall = [op |-> "none", sid |-> None, q |-> 0, value |-> None]
    BY DEF NoCall, Call
  <2> QED
    BY <2>1, CollectAssumption, PageAssumption, QuestionNumbers DEF CallType
<1>3. ApiTypeOK
  BY <1>2 DEF Init, ApiInit, ApiTypeOK, CallType, Callers
<1>4. TypeOK
  <2>1. /\ open \in BOOLEAN /\ step \in Nat /\ sid \in Starts \cup {None}
        /\ submitting \in BOOLEAN /\ capturing \subseteq Questions /\ late \subseteq Submits
        /\ survey \in Surveys
    BY DEF Init
  <2>2. answers \in Answers /\ snapshot \in [Submits -> Answers]
    BY DEF Init, Answers
  <2>3. timers \in Seq(Render) /\ Len(timers) <= MaxTimers
    BY <1>1, <1>2 DEF Init
  <2> QED
    BY <1>3, <2>1, <2>2, <2>3 DEF TypeOK
<1>5. KindsOfCalls /\ SessionsBegun
  BY <1>1, <1>2 DEF Init, ApiInit, KindsOfCalls, SessionsBegun, Callers
<1> QED
  BY <1>4, <1>5 DEF PageInv

\* Every step keeps PageInv.
LEMMA PageStep == PageInv /\ [Next]_vars => PageInv'
<1> SUFFICES ASSUME PageInv, [Next]_vars PROVE PageInv'
  OBVIOUS
<1>1. CASE UNCHANGED vars
  BY <1>1 DEF vars, apiVars, pageVars, PageInv, TypeOK, ApiTypeOK, KindsOfCalls,
              SessionsBegun, Render
<1>2. CASE Page
  BY <1>2, PageBegins, PageAnswers, PageProceeds, PageContinues DEF Page
<1>3. ASSUME NEW c \in Callers, Serving(c), UNCHANGED pageVars
      PROVE  PageInv'
  BY <1>3, PageServes
<1> QED
  BY <1>1, <1>2, <1>3 DEF Next

\* Every variable of the page and of the API keeps its type, whatever is answered,
\* sent, refused and lost.
THEOREM TypeCorrect == Spec => []TypeOK
<1>1. PageInv => TypeOK
  BY DEF PageInv
<1> QED
  BY <1>1, PageInit, PageStep, PTL DEF Spec

-----------------------------------------------------------------------------
(* The button.                                                             *)

\* A call that is on its way or answered stays so, but for one that ends the page's wait.
LEMMA ButtonStep ==
  PageInv /\ SubmittingIsUnderway /\ [Next]_vars => SubmittingIsUnderway'
<1> SUFFICES ASSUME PageInv, SubmittingIsUnderway, [Next]_vars, submitting'
             PROVE  \E n \in Submits : at'[n] \notin {"new", "done"}
  BY DEF SubmittingIsUnderway, Underway
<1>1. TypeOK /\ KindsOfCalls
  BY DEF PageInv
<1>2. submitting => \E n \in Submits : n \in Callers /\ at[n] \notin {"new", "done"}
  BY DEF SubmittingIsUnderway, Underway, Callers
<1>3. ASSUME submitting' = submitting, at' = at
      PROVE  \E n \in Submits : at'[n] \notin {"new", "done"}
  BY <1>2, <1>3
<1>4. CASE UNCHANGED vars
  BY <1>3, <1>4 DEF vars, pageVars, apiVars
<1>5. ASSUME NEW s \in Starts, ClickBegin(s) \/ Begun(s)
      PROVE  \E n \in Submits : at'[n] \notin {"new", "done"}
  <2>1. submitting' = submitting /\ \A n \in Submits : at'[n] = at[n]
    BY <1>1, <1>5, Typed, CollectAssumption DEF ClickBegin, Begun, Send, pageVars, Callers
  <2> QED
    BY <1>2, <2>1
<1>6. CASE \/ \E v \in Values \cup {None} : Edit(v)
           \/ \E v \in Values : Choose(v)
           \/ Capture
           \/ \E q \in Questions : Captured(q)
           \/ Back
           \/ Close
  BY <1>3, <1>6 DEF Edit, Choose, Capture, Captured, Back, Close, apiVars
<1>7. ASSUME NEW m \in Submits, NEW r \in Render, MoveOn(m, r),
             r.sid # None => at[r.sid] = "done"
      PROVE  \E n \in Submits : at'[n] \notin {"new", "done"}
  <2>1. \/ \E c : Send(m, c)
        \/ submitting' = (IF r.step = Total THEN FALSE ELSE submitting) /\ at' = at
    BY <1>7, MovesOn
  <2>2. CASE \E c : Send(m, c)
    BY <1>1, <2>2, Typed DEF Send, Callers
  <2>3. CASE submitting' = (IF r.step = Total THEN FALSE ELSE submitting) /\ at' = at
    BY <1>3, <2>3
  <2> QED
    BY <2>1, <2>2, <2>3
<1>8. ASSUME NEW m \in Submits, Proceed(m) \/ \E i \in DOMAIN timers : Commit(m, i)
      PROVE  \E n \in Submits : at'[n] \notin {"new", "done"}
  BY <1>7, <1>8, ProceedMoves, CommitMoves
<1>9. ASSUME NEW m \in Submits, Continue(m) \/ Finish(m)
      PROVE  \E n \in Submits : at'[n] \notin {"new", "done"}
  BY <1>1, <1>9, Typed DEF Continue, Finish, Send, Callers
<1>10. ASSUME NEW c \in Callers, Serving(c), UNCHANGED pageVars
       PROVE  \E n \in Submits : at'[n] \notin {"new", "done"}
  <2>1. PICK how \in {"checked", "ok", "refused", "failed"} : at' = [at EXCEPT ![c] = how]
    BY <1>1, <1>10, Moved
  <2>2. \A n \in Callers : at'[n] = IF n = c THEN how ELSE at[n]
    BY <1>1, <2>1, Typed
  <2> QED
    BY <1>2, <1>10, <2>2 DEF pageVars
<1> QED
  BY <1>4, <1>5, <1>6, <1>8, <1>9, <1>10 DEF Next, Page

\* The button never says Submitting with no submission on its way: next() of CollectPage.tsx
\* ends its wait whatever the calls of its loop and completeSession() come to, with
\* submissions that overlap and the page gone back from.
THEOREM ButtonComesBack == Spec => []SubmittingIsUnderway
<1>1. Init => SubmittingIsUnderway
  BY DEF Init, SubmittingIsUnderway
<1> QED
  BY <1>1, PageInit, PageStep, ButtonStep, PTL DEF Spec

-----------------------------------------------------------------------------
(* What comes late.                                                        *)

\* A submission that has not begun has left nothing, and one that begins late is
\* never past the SELECT of SubmitResponse().
LateInv ==
    /\ \A m \in Submits : at[m] = "new" => \A q \in Questions : response[m][q] = None
    /\ backend = "go" =>
          \A m \in late : /\ at[m] \notin {"new", "checked"}
                          /\ session[req[m].sid] = "COMPLETED"
                          /\ \A q \in Questions : response[m][q] = None

\* A completed session stays so.
LEMMA StaysCompleted ==
  ASSUME PageInv, NEW c \in Callers, Serving(c),
         NEW s \in Starts, session[s] = "COMPLETED"
  PROVE  session'[s] = "COMPLETED"
<1>1. session \in [Starts -> {"absent", "IN_PROGRESS", "COMPLETED"}]
  BY Typed DEF PageInv
<1>2. PICK x : x = req[c].sid
  OBVIOUS
<1>3. \/ session' = session
      \/ at[c] = "sent" /\ session' = [session EXCEPT ![c] = "IN_PROGRESS"]
      \/ session' = [session EXCEPT ![x] = IF @ = "absent" THEN @ ELSE "COMPLETED"]
  BY <1>2 DEF Serving, Serve, StartSession, CheckResponse, StoreResponse, CreateSlot,
              UploadAudio, UploadImage, CheckComplete, CompleteSession, Fails, Skips, Fault
<1>4. at[s] # "sent"
  BY DEF PageInv, SessionsBegun
<1> QED
  BY <1>1, <1>3, <1>4

\* Handlers store nothing for a submission that begins late.
LEMMA LateServes ==
  ASSUME PageInv, LateInv, NEW c \in Callers, Serving(c), UNCHANGED pageVars
  PROVE  LateInv'
<1>1. TypeOK /\ KindsOfCalls /\ SessionsBegun
  BY DEF PageInv
<1>2. PICK how \in {"checked", "ok", "refused", "failed"} : at' = [at EXCEPT ![c] = how]
  BY <1>1, Moved
<1>3. /\ req' = req /\ backend' = backend /\ at[c] \in {"sent", "checked", "ok"}
      /\ \A n \in Callers : at'[n] = IF n = c THEN how ELSE at[n]
  BY <1>1, <1>2, Moved, Typed
<1>4. \/ response' = response
      \/ /\ at[c] = "checked" /\ \A m \in Submits : m # c => response'[m] = response[m]
  <2>1. PICK q, v : q = req[c].q /\ v = req[c].value
    OBVIOUS
  <2>2. \/ response' = response
        \/ at[c] = "checked" /\ response' = [response EXCEPT ![c][q] = v]
    BY <2>1 DEF Serving, Serve, StartSession, CheckResponse, StoreResponse, CreateSlot,
                UploadAudio, UploadImage, CheckComplete, CompleteSession, Fails, Skips, Fault
  <2> QED
    BY <1>1, <2>2, Typed
<1>5. ASSUME NEW m \in Submits, at'[m] = "new", NEW q \in Questions
      PROVE  response'[m][q] = None
  <2>1. m # c /\ at[m] = "new"
    BY <1>3, <1>5 DEF Callers
  <2> QED
    BY <1>4, <2>1 DEF LateInv
<1>6. ASSUME backend = "go", NEW m \in late
      PROVE  /\ at'[m] \notin {"new", "checked"}
             /\ session'[req[m].sid] = "COMPLETED"
             /\ \A q \in Questions : response'[m][q] = None
  <2>1. /\ m \in Submits /\ m \in Callers /\ at[m] \notin {"new", "checked"}
        /\ session[req[m].sid] = "COMPLETED"
        /\ \A q \in Questions : response[m][q] = None
    BY <1>1, <1>6, Typed DEF LateInv, Callers
  <2>2. req[m].sid \in Starts
    BY <1>1, <2>1, Typed
  <2>3. \A q \in Questions : response'[m][q] = None
    BY <1>4, <2>1
  <2>4. how = "checked" => c # m
    <3> SUFFICES ASSUME how = "checked", c = m PROVE FALSE
      OBVIOUS
    <3>1. at'[c] = "checked"
      BY <1>1, <1>2, Typed
    <3>2. CheckResponse(c) \/ CheckComplete(c)
      BY <1>1, <1>2, <3>1, Typed
         DEF Serving, Serve, StartSession, CheckResponse, StoreResponse, CreateSlot,
             UploadAudio, UploadImage, CheckComplete, CompleteSession, Fails, Skips, Fault,
             Reply
    <3> QED
      BY <1>1, <1>6, <2>1, <3>1, <3>2, Typed
         DEF CheckResponse, CheckComplete, Accepts, Reply
  <2> QED
    BY <1>3, <2>1, <2>2, <2>3, <2>4, StaysCompleted
<1> QED
  BY <1>3, <1>5, <1>6 DEF LateInv, pageVars

\* What a step of the page leaves of the calls: it makes one of a submission's, ends
\* the last of one, or touches none; the rest of the API is as it was.
SubmissionAsks(m, c) ==
    /\ Proper(c) /\ Send(m, c)
    /\ \/ /\ at[m] = "new" /\ c.sid \in Starts
          /\ \E as \in Answers : /\ snapshot' = [snapshot EXCEPT ![m] = as]
                                 /\ c = CallAfter(c.sid, as, 0)
          /\ late' = IF session[c.sid] = "COMPLETED" THEN late \cup {m} ELSE late
       \/ /\ at[m] \in Replies /\ req[m].op # "complete"
          /\ c = Continuation(m) /\ c.sid = req[m].sid
          /\ UNCHANGED <<snapshot, late>>

Ends(m) ==
    /\ at[m] \in Replies /\ req[m].op = "complete"
    /\ at' = [at EXCEPT ![m] = "done"] /\ req' = req
    /\ UNCHANGED <<snapshot, late>>

AsksNothing ==
    /\ \A m \in Submits : at'[m] = at[m] /\ req'[m] = req[m]
    /\ UNCHANGED <<snapshot, late>>

PageAsks ==
    /\ UNCHANGED <<backend, session, response, attached, missed, faults, survey>>
    /\ \/ AsksNothing
       \/ \E m \in Submits : \E c : SubmissionAsks(m, c)
       \/ \E m \in Submits : Ends(m)

\* The actions of the page do no more to the calls than that.
LEMMA PageCalls ==
  ASSUME PageInv, Page
  PROVE  PageAsks
<1>1. TypeOK
  BY DEF PageInv
<1>2. ASSUME NEW s \in Starts, ClickBegin(s) \/ Begun(s)
      PROVE  PageAsks
  <2>1. \A m \in Submits : at'[m] = at[m] /\ req'[m] = req[m]
    BY <1>1, <1>2, Typed, CollectAssumption DEF ClickBegin, Begun, Send, Callers
  <2> QED
    BY <1>2, <2>1 DEF ClickBegin, Begun, pageVars, PageAsks, AsksNothing
<1>3. CASE \/ \E v \in Values \cup {None} : Edit(v)
           \/ \E v \in Values : Choose(v)
           \/ Capture
           \/ \E q \in Questions : Captured(q)
           \/ Back
           \/ Close
  <2>1. UNCHANGED <<apiVars, survey, snapshot, late>>
    BY <1>3 DEF Edit, Choose, Capture, Captured, Back, Close
  <2> QED
    BY <2>1 DEF apiVars, PageAsks, AsksNothing
<1>4. ASSUME NEW m \in Submits, NEW r \in Render, MoveOn(m, r),
             r.sid # None => at[r.sid] = "done",
             UNCHANGED <<backend, session, response, attached, missed, faults, survey>>
      PROVE  PageAsks
  <2>1. \/ \E c : /\ Proper(c) /\ Send(m, c) /\ c = CallAfter(r.sid, r.answers, 0)
                  /\ c.sid = r.sid /\ r.sid \in Starts /\ at[m] = "new"
                  /\ snapshot' = [snapshot EXCEPT ![m] = r.answers] /\ r.answers \in Answers
                  /\ late' = IF session[r.sid] = "COMPLETED" THEN late \cup {m} ELSE late
        \/ UNCHANGED <<snapshot, late, req, at>>
    BY <1>4, MovesOn
  <2>2. CASE UNCHANGED <<snapshot, late, req, at>>
    BY <1>4, <2>2 DEF PageAsks, AsksNothing
  <2>3. CASE \E c : /\ Proper(c) /\ Send(m, c) /\ c = CallAfter(r.sid, r.answers, 0)
                    /\ c.sid = r.sid /\ r.sid \in Starts /\ at[m] = "new"
                    /\ snapshot' = [snapshot EXCEPT ![m] = r.answers] /\ r.answers \in Answers
                    /\ late' = IF session[r.sid] = "COMPLETED" THEN late \cup {m} ELSE late
    <3>1. PICK as \in Answers : as = r.answers
      BY <2>3
    <3>2. PICK c : /\ Proper(c) /\ Send(m, c) /\ c = CallAfter(c.sid, as, 0)
                   /\ c.sid \in Starts /\ at[m] = "new"
                   /\ snapshot' = [snapshot EXCEPT ![m] = as]
                   /\ late' = IF session[c.sid] = "COMPLETED" THEN late \cup {m} ELSE late
      BY <2>3, <3>1
    <3> QED
      BY <1>4, <3>2 DEF PageAsks, SubmissionAsks
  <2> QED
    BY <2>1, <2>2, <2>3
<1>5. ASSUME NEW m \in Submits, Proceed(m)
      PROVE  PageAsks
  BY <1>4, <1>5, ProceedMoves DEF Proceed
<1>6. ASSUME NEW m \in Submits, NEW i \in DOMAIN timers, Commit(m, i)
      PROVE  PageAsks
  BY <1>4, <1>6, CommitMoves DEF Commit
<1>7. ASSUME NEW m \in Submits, Continue(m)
      PROVE  PageAsks
  BY <1>7, Continues DEF Continue, pageVars, PageAsks, SubmissionAsks
<1>8. ASSUME NEW m \in Submits, Finish(m)
      PROVE  PageAsks
  BY <1>8 DEF Finish, PageAsks, Ends
<1>9. CASE \E s \in Starts : ClickBegin(s) \/ Begun(s)
  BY <1>2, <1>9
<1>10. CASE \E m \in Submits : \/ Proceed(m)
                               \/ \E i \in DOMAIN timers : Commit(m, i)
                               \/ Continue(m)
                               \/ Finish(m)
  BY <1>5, <1>6, <1>7, <1>8, <1>10
<1> QED
  BY <1>3, <1>9, <1>10 DEF Page

\* A submission is late from its first call, and no call it makes is accepted.
LEMMA LatePage ==
  ASSUME PageInv, LateInv, Page
  PROVE  LateInv'
<1>1. TypeOK
  BY DEF PageInv
<1>2. UNCHANGED <<backend, session, response, attached, missed, faults, survey>>
  BY PageCalls DEF PageAsks
<1>3. CASE AsksNothing
  BY <1>1, <1>2, <1>3, Typed DEF LateInv, AsksNothing
<1>4. ASSUME NEW m \in Submits, NEW c, SubmissionAsks(m, c)
      PROVE  LateInv'
  <2>0. \/ late' = late /\ c.sid = req[m].sid /\ at[m] # "new"
        \/ late' = (IF session[c.sid] = "COMPLETED" THEN late \cup {m} ELSE late) /\ at[m] = "new"
    BY <1>4 DEF SubmissionAsks, Replies
  <2>1. \A n \in Submits : /\ at'[n] = IF n = m THEN "sent" ELSE at[n]
                           /\ req'[n] = IF n = m THEN c ELSE req[n]
    BY <1>2, <1>4, Sends DEF Callers, SubmissionAsks
  <2>2. \A n \in Submits : at'[n] = "new" => \A q \in Questions : response'[n][q] = None
    BY <1>2, <2>1 DEF LateInv
  <2>3. ASSUME backend = "go", NEW n \in late'
        PROVE  /\ at'[n] \notin {"new", "checked"}
               /\ session'[req'[n].sid] = "COMPLETED"
               /\ \A q \in Questions : response'[n][q] = None
    <3>1. CASE n \in late
      <4>1. n \in Submits /\ n \notin {x \in Submits : at[x] = "new"}
        BY <1>1, <2>3, <3>1, Typed DEF LateInv
      <4> QED
        BY <1>2, <2>0, <2>1, <2>3, <3>1, <4>1 DEF LateInv
    <3>2. CASE n \notin late
      <4>1. n = m /\ at[m] = "new" /\ session[c.sid] = "COMPLETED"
        BY <2>0, <2>3, <3>2
      <4> QED
        BY <1>2, <2>1, <4>1 DEF LateInv
    <3> QED
      BY <3>1, <3>2
  <2> QED
    BY <1>2, <2>2, <2>3 DEF LateInv
<1>5. ASSUME NEW m \in Submits, Ends(m)
      PROVE  LateInv'
  <2>1. \A n \in Submits : at'[n] = (IF n = m THEN "done" ELSE at[n]) /\ n \in Callers
    BY <1>1, <1>5, Typed DEF Callers, Ends
  <2>2. at[m] # "new"
    BY <1>5 DEF Replies, Ends
  <2>3. late' = late /\ late \subseteq Submits
    BY <1>1, <1>5, Typed DEF Ends
  <2>4. \A n \in Submits : at'[n] = "new" => \A q \in Questions : response'[n][q] = None
    BY <1>2, <2>1, <2>2 DEF LateInv
  <2>5. ASSUME backend = "go", NEW n \in late
        PROVE  /\ at'[n] \notin {"new", "checked"}
               /\ session'[req'[n].sid] = "COMPLETED"
               /\ \A q \in Questions : response'[n][q] = None
    BY <1>2, <1>5, <2>1, <2>3, <2>5 DEF LateInv, Ends
  <2> QED
    BY <1>2, <2>3, <2>4, <2>5 DEF LateInv
<1> QED
  BY <1>3, <1>4, <1>5, PageCalls DEF PageAsks

\* With the Go backend a submission that began with its session completed stores no
\* answer: the UPDATE of CompleteSession() and the count of SubmitResponse() are what
\* keeps it out, wherever the calls of the others are.
THEOREM LateStoresNothing == Spec => []NothingAfterCompletion
<1>1. Init => LateInv
  BY DEF Init, ApiInit, LateInv
<1>2. PageInv /\ LateInv /\ [Next]_vars => LateInv'
  <2> SUFFICES ASSUME PageInv, LateInv, [Next]_vars PROVE LateInv'
    OBVIOUS
  <2>1. CASE UNCHANGED vars
    BY <2>1 DEF vars, apiVars, pageVars, LateInv
  <2>2. CASE Page
    BY <2>2, LatePage
  <2>3. ASSUME NEW c \in Callers, Serving(c), UNCHANGED pageVars
        PROVE  LateInv'
    BY <2>3, LateServes
  <2> QED
    BY <2>1, <2>2, <2>3 DEF Next
<1>3. LateInv => NothingAfterCompletion
  BY DEF LateInv, NothingAfterCompletion
<1> QED
  BY <1>1, <1>2, <1>3, PageInit, PageStep, PTL DEF Spec

-----------------------------------------------------------------------------
(* What a submission has stored.                                           *)

\* The answer to question q is stored with what is attached to it.
Kept(m, q) ==
    /\ response[m][q] = snapshot[m][q]
    /\ \/ survey[q].kind = "audio"
       \/ survey[q].kind = "image" /\ backend = "fastapi"
       => attached[m][q] = snapshot[m][q]

\* What the loop has left behind is kept, ...
Behind(m) ==
    \A q \in Questions \ missed[m] :
        snapshot[m][q] # None /\ (req[m].op = "complete" \/ q < req[m].q) => Kept(m, q)

\* ... and the question it is at has what its calls have brought so far.
Current(m) ==
    LET c == req[m] IN
    /\ c.op \in {"response", "slot", "audio", "image", "complete"}
    /\ c.op # "complete" => c.value = snapshot[m][c.q]
    /\ c.op \in {"slot", "audio"} => survey[c.q].kind = "audio"
    /\ c.op = "image" => survey[c.q].kind = "image"
    /\ at[m] = "failed" /\ c.op # "complete" => c.q \in missed[m]
    /\ c.op # "complete" /\ c.q \notin missed[m] =>
          /\ c.op # "response" \/ at[m] = "ok" => response[m][c.q] = c.value
          /\ c.op \in {"audio", "image"} /\ at[m] = "ok" => attached[m][c.q] = c.value
          /\ at[m] = "refused" => c.op = "image" /\ backend = "go"

Sending(m) == Behind(m) /\ Current(m)

\* While its session is in progress a submission is refused nothing but images.
WholeInv ==
    /\ \A m \in Submits :
          at[m] # "new" /\ session[req[m].sid] = "IN_PROGRESS" => Sending(m)
    /\ CompletedIsWhole

\* All of a submission is as it was, but for how far its call has come.
Untouched(m) ==
    /\ response'[m] = response[m] /\ attached'[m] = attached[m] /\ missed'[m] = missed[m]
    /\ req'[m] = req[m] /\ snapshot'[m] = snapshot[m]
    /\ survey' = survey /\ backend' = backend

\* A submission that is left alone is as far as it was ...
LEMMA UntouchedSending ==
  ASSUME NEW m \in Submits, Untouched(m), at'[m] = at[m], Sending(m)
  PROVE  Sending(m)'
<1>1. Behind(m)'
  BY DEF Untouched, Sending, Behind, Kept
<1>2. Current(m)'
  BY DEF Untouched, Sending, Current
<1> QED
  BY <1>1, <1>2 DEF Sending

\* ... and as whole.
LEMMA UntouchedWhole ==
  ASSUME NEW m \in Submits, Untouched(m), Whole(m)
  PROVE  Whole(m)'
BY DEF Untouched, Whole

\* What a handler or the network does to one call leaves other submissions alone.
LEMMA OthersUntouched ==
  ASSUME PageInv, NEW c \in Callers, Serving(c), UNCHANGED pageVars,
         NEW m \in Submits, m # c
  PROVE  Untouched(m) /\ at'[m] = at[m]
<1>1. TypeOK /\ KindsOfCalls
  BY DEF PageInv
<1>2. PICK q, v : q = req[c].q /\ v = req[c].value
  OBVIOUS
<1>3. \/ response' = response \/ response' = [response EXCEPT ![c][q] = v]
  BY <1>2 DEF Serving, Serve, StartSession, CheckResponse, StoreResponse, CreateSlot,
              UploadAudio, UploadImage, CheckComplete, CompleteSession, Fails, Skips, Fault
<1>4. \/ attached' = attached \/ attached' = [attached EXCEPT ![c][q] = v]
  BY <1>2 DEF Serving, Serve, StartSession, CheckResponse, StoreResponse, CreateSlot,
              UploadAudio, UploadImage, CheckComplete, CompleteSession, Fails, Skips, Fault
<1>5. \/ missed' = missed \/ missed' = [missed EXCEPT ![c] = @ \cup {q}]
  BY <1>2 DEF Serving, Serve, StartSession, CheckResponse, StoreResponse, CreateSlot,
              UploadAudio, UploadImage, CheckComplete, CompleteSession, Fails, Skips, Fault,
              Reply
<1>6. response'[m] = response[m] /\ attached'[m] = attached[m] /\ missed'[m] = missed[m]
  BY <1>1, <1>3, <1>4, <1>5, Typed
<1>7. at'[m] = at[m] /\ req' = req /\ backend' = backend
  <2>1. PICK how : at' = [at EXCEPT ![c] = how]
    BY <1>1, Moved
  <2> QED
    BY <1>1, <2>1, Moved, Typed DEF Callers
<1> QED
  BY <1>6, <1>7 DEF Untouched, pageVars

\* A session in progress was so before, if its start is over.
LEMMA WasInProgress ==
  ASSUME PageInv, NEW c \in Callers, Serving(c),
         NEW s \in Starts, at[s] = "done", session'[s] = "IN_PROGRESS"
  PROVE  session[s] = "IN_PROGRESS"
<1>1. session \in [Starts -> {"absent", "IN_PROGRESS", "COMPLETED"}]
  BY Typed DEF PageInv
<1>2. PICK x : x = req[c].sid
  OBVIOUS
<1>3. \/ session' = session
      \/ at[c] = "sent" /\ session' = [session EXCEPT ![c] = "IN_PROGRESS"]
      \/ session' = [session EXCEPT ![x] = IF @ = "absent" THEN @ ELSE "COMPLETED"]
  BY <1>2 DEF Serving, Serve, StartSession, CheckResponse, StoreResponse, CreateSlot,
              UploadAudio, UploadImage, CheckComplete, CompleteSession, Fails, Skips, Fault
<1> QED
  BY <1>1, <1>3

\* A handler that only answers, the call and the tables being as they were.
LEMMA OnlyAnswers ==
  ASSUME TypeOK, NEW m \in Submits, Untouched(m), Sending(m),
         at'[m] \in {"checked", "ok", "refused"},
         at'[m] = "ok" => req[m].op \in {"slot", "complete"},
         at'[m] = "refused" => \/ req[m].op = "complete"
                               \/ req[m].op = "image" /\ backend = "go"
                               \/ req[m].q \in missed[m]
  PROVE  Sending(m)'
<1>1. Behind(m)'
  BY DEF Untouched, Sending, Behind, Kept
<1>2. Current(m)'
  BY DEF Untouched, Sending, Current
<1> QED
  BY <1>1, <1>2 DEF Sending

\* A handler that stores the value of a call, and answers.
LEMMA Stores ==
  ASSUME PageInv, NEW m \in Submits, Sending(m), UNCHANGED pageVars,
         StoreResponse(m) \/ UploadAudio(m) \/ (UploadImage(m) /\ attached' # attached)
  PROVE  Sending(m)'
<1>1. TypeOK /\ m \in Callers
  BY DEF PageInv, Callers
<1>2. PICK q, v : q = req[m].q /\ v = req[m].value
  OBVIOUS
<1>3. req[m].op \in {"response", "audio", "image"}
  BY DEF StoreResponse, UploadAudio, UploadImage
<1>4. q \in Questions /\ v \in Values
  BY <1>1, <1>2, <1>3, Typed
<1>5. /\ req' = req /\ missed' = missed /\ backend' = backend /\ at'[m] = "ok"
      /\ snapshot' = snapshot /\ survey' = survey
  BY <1>1, Typed DEF StoreResponse, UploadAudio, UploadImage, Reply, pageVars
<1>6. \/ /\ req[m].op = "response" /\ attached' = attached
         /\ response' = [response EXCEPT ![m][q] = v]
      \/ /\ req[m].op \in {"audio", "image"} /\ response' = response
         /\ attached' = [attached EXCEPT ![m][q] = v]
  BY <1>2 DEF StoreResponse, UploadAudio, UploadImage
<1>7. /\ \A p \in Questions : p # q => /\ response'[m][p] = response[m][p]
                                       /\ attached'[m][p] = attached[m][p]
      /\ req[m].op = "response" => response'[m][q] = v
      /\ req[m].op # "response" => attached'[m][q] = v /\ response' = response
  BY <1>1, <1>4, <1>6, Typed DEF Answers
<1>8. Behind(m)'
  <2> SUFFICES ASSUME NEW p \in Questions \ missed[m], snapshot[m][p] # None, p < q
               PROVE  Kept(m, p)'
    BY <1>2, <1>3, <1>5 DEF Behind
  <2>1. Kept(m, p)
    BY <1>2 DEF Sending, Behind
  <2>2. p # q
    BY <1>4, QuestionNumbers
  <2> QED
    BY <1>5, <1>7, <2>1, <2>2 DEF Kept
<1>9. Current(m)'
  BY <1>2, <1>3, <1>5, <1>7 DEF Sending, Current
<1> QED
  BY <1>8, <1>9 DEF Sending

\* A call that fails, or a statement of Go that does, is missed.
LEMMA Misses ==
  ASSUME PageInv, NEW m \in Submits, Sending(m), UNCHANGED pageVars, Fails(m) \/ Skips(m)
  PROVE  Sending(m)'
<1>1. TypeOK /\ m \in Callers
  BY DEF PageInv, Callers
<1>2. PICK q : q = req[m].q
  OBVIOUS
<1>3. req[m].op # "complete" => q \in Questions
  BY <1>1, <1>2, Typed DEF Sending, Current
<1>4. /\ UNCHANGED <<backend, session, response, attached, req, survey, snapshot>>
      /\ at'[m] \in {"ok", "failed"}
  BY <1>1, Typed DEF Fails, Skips, Fault, pageVars
<1>5. missed' = IF q \in Questions THEN [missed EXCEPT ![m] = @ \cup {q}] ELSE missed
  BY <1>2 DEF Fails, Skips, Fault
<1>6. missed[m] \subseteq missed'[m] /\ (q \in Questions => q \in missed'[m])
  BY <1>1, <1>5, Typed
<1>7. Behind(m)'
  BY <1>4, <1>6 DEF Sending, Behind, Kept
<1>8. Current(m)'
  BY <1>2, <1>3, <1>4, <1>6 DEF Sending, Current
<1> QED
  BY <1>7, <1>8 DEF Sending

\* Each handler, and the network, leaves what is behind the loop kept, and what is
\* current as far as the answer says.
LEMMA SendingServed ==
  ASSUME PageInv, NEW m \in Submits, Serving(m), UNCHANGED pageVars, Sending(m),
         session[req[m].sid] = "IN_PROGRESS"
  PROVE  Sending(m)'
<1>1. TypeOK /\ m \in Callers /\ m \notin Starts
  BY CollectAssumption DEF PageInv, Callers
<1>2. req[m].op # "session" /\ KindsOfCalls
  BY DEF PageInv, KindsOfCalls
<1>3. survey' = survey /\ snapshot' = snapshot
  BY DEF pageVars
<1>4. \A how : at' = [at EXCEPT ![m] = how] => at'[m] = how
  BY <1>1, Typed
<1>5. CASE CheckResponse(m)
  <2>1. Accepts(req[m].sid)
    BY DEF Accepts
  <2>2. Untouched(m) /\ at'[m] = "checked"
    BY <1>3, <1>4, <1>5, <2>1 DEF CheckResponse, Reply, Untouched
  <2> QED
    BY <1>1, <2>2, OnlyAnswers
<1>6. CASE StoreResponse(m) \/ UploadAudio(m)
  <2>1. CASE StoreResponse(m)
    BY <2>1, Stores
  <2>2. CASE UploadAudio(m)
    BY <2>2, Stores
  <2> QED
    BY <1>6, <2>1, <2>2
<1>7. CASE CreateSlot(m)
  <2>1. Untouched(m) /\ at'[m] = "ok" /\ req[m].op = "slot"
    BY <1>3, <1>4, <1>7 DEF CreateSlot, Reply, Untouched
  <2> QED
    BY <1>1, <2>1, OnlyAnswers
<1>8. CASE UploadImage(m)
  <2>1. CASE attached' # attached
    BY <1>8, <2>1, Stores
  <2>2. CASE attached' = attached
    <3>1. Untouched(m) /\ req[m].op = "image" /\ req[m].q \in Questions /\ req[m].value \in Values
      BY <1>1, <1>3, <1>8, <2>2, Typed DEF UploadImage, Reply, Untouched
    <3>2. CASE at'[m] = "ok"
      <4>1. attached' = [attached EXCEPT ![m][req[m].q] = req[m].value]
        BY <1>4, <1>8, <3>2 DEF UploadImage, Reply
      <4>2. PICK q \in Questions, v \in Values : q = req[m].q /\ v = req[m].value
        BY <3>1
      <4>3. attached'[m][q] = v
        BY <1>1, <4>1, <4>2, Typed DEF Answers
      <4>4. attached[m][q] = v
        BY <2>2, <4>3
      <4>5. Behind(m)'
        BY <3>1 DEF Untouched, Sending, Behind, Kept
      <4>6. Current(m)'
        BY <3>1, <3>2, <4>2, <4>4 DEF Untouched, Sending, Current
      <4> QED
        BY <4>5, <4>6 DEF Sending
    <3>3. CASE at'[m] # "ok"
      <4>1. at'[m] = "refused" /\ (backend # "fastapi" \/ response[m][req[m].q] = None)
        BY <1>4, <1>8, <3>3 DEF UploadImage, Reply
      <4>2. req[m].q \notin missed[m] => response[m][req[m].q] = req[m].value
        BY <3>1 DEF Sending, Current
      <4>3. backend = "go" \/ req[m].q \in missed[m]
        BY <1>1, <3>1, <4>1, <4>2, Typed, CollectAssumption
      <4> QED
        BY <1>1, <3>1, <4>1, <4>3, OnlyAnswers
    <3> QED
      BY <3>2, <3>3
  <2> QED
    BY <2>1, <2>2
<1>9. CASE CheckComplete(m) \/ CompleteSession(m)
  <2>1. Untouched(m) /\ at'[m] \in {"checked", "ok", "refused"} /\ req[m].op = "complete"
    BY <1>3, <1>4, <1>9 DEF CheckComplete, CompleteSession, Reply, Untouched
  <2> QED
    BY <1>1, <2>1, OnlyAnswers
<1>10. CASE Fails(m) \/ Skips(m)
  BY <1>10, Misses
<1> QED
  BY <1>2, <1>5, <1>6, <1>7, <1>8, <1>9, <1>10 DEF Serving, Serve, StartSession

\* A session that becomes COMPLETED does so for a submission with all its calls behind.
LEMMA WholeServes ==
  ASSUME PageInv, WholeInv, NEW c \in Callers, Serving(c), UNCHANGED pageVars
  PROVE  WholeInv'
<1>1. TypeOK /\ KindsOfCalls /\ SessionsBegun
  BY DEF PageInv
<1>2. req' = req /\ at[c] # "new"
  BY <1>1, Moved
<1>3. ASSUME NEW m \in Submits, at'[m] # "new", session'[req'[m].sid] = "IN_PROGRESS"
      PROVE  Sending(m)'
  <2>1. at[m] # "new"
    BY <1>1, <1>2, <1>3, OthersUntouched
  <2>2. req[m].sid \in Starts /\ at[req[m].sid] = "done"
    BY <1>1, <2>1, Typed DEF SessionsBegun
  <2>3. session[req[m].sid] = "IN_PROGRESS"
    BY <1>2, <1>3, <2>2, WasInProgress
  <2>4. Sending(m)
    BY <2>1, <2>3 DEF WholeInv
  <2>5. CASE m = c
    BY <2>3, <2>4, <2>5, SendingServed
  <2>6. CASE m # c
    BY <2>4, <2>6, OthersUntouched, UntouchedSending
  <2> QED
    BY <2>5, <2>6
<1>4. ASSUME NEW m \in Submits, req[m].op = "complete", Whole(m)
      PROVE  Whole(m)'
  <2>1. CASE m # c
    BY <1>4, <2>1, OthersUntouched, UntouchedWhole
  <2>2. CASE m = c
    <3>1. req[m].q \notin Questions
      BY <1>1, <1>4, QuestionNumbers DEF KindsOfCalls
    <3>2. Untouched(m)
      BY <1>2, <1>4, <2>2, <3>1
         DEF Serving, Serve, StartSession, CheckResponse, StoreResponse, CreateSlot,
             UploadAudio, UploadImage, CheckComplete, CompleteSession, Fails, Skips, Fault,
             Reply, Untouched, pageVars
    <3> QED
      BY <1>4, <3>2, UntouchedWhole
  <2> QED
    BY <2>1, <2>2
<1>5. ASSUME NEW s \in Starts, session'[s] = "COMPLETED"
      PROVE  \E m \in Submits : req[m].sid = s /\ req[m].op = "complete" /\ Whole(m)'
  <2>1. CASE session[s] = "COMPLETED"
    BY <1>4, <2>1 DEF WholeInv, CompletedIsWhole
  <2>2. CASE session[s] # "COMPLETED"
    <3>1. session \in [Starts -> {"absent", "IN_PROGRESS", "COMPLETED"}]
      BY <1>1, Typed
    <3>2. PICK x : x = req[c].sid
      OBVIOUS
    <3>3. \/ session' = session \/ session' = [session EXCEPT ![c] = "IN_PROGRESS"]
          \/ /\ req[c].op = "complete"
             /\ session' = [session EXCEPT ![x] = IF @ = "absent" THEN @ ELSE "COMPLETED"]
      BY <3>2 DEF Serving, Serve, StartSession, CheckResponse, StoreResponse, CreateSlot,
                  UploadAudio, UploadImage, CheckComplete, CompleteSession, Fails, Skips, Fault
    <3>4. req[c].op = "complete" /\ x = s /\ session[s] = "IN_PROGRESS"
      BY <1>5, <2>2, <3>1, <3>3
    <3>5. c \in Submits
      BY <1>1, <3>4 DEF KindsOfCalls, Callers
    <3>6. Sending(c)
      BY <1>2, <3>2, <3>4, <3>5 DEF WholeInv
    <3>7. Whole(c)
      BY <3>4, <3>6 DEF Sending, Behind, Kept, Whole
    <3> QED
      BY <1>4, <3>2, <3>4, <3>5, <3>7
  <2> QED
    BY <2>1, <2>2
<1> QED
  BY <1>2, <1>3, <1>5 DEF WholeInv, CompletedIsWhole

\* Where the loop is past question q of an open session, what was sent for it is kept.
LEMMA PastKept ==
  ASSUME PageInv, NEW m \in Submits, Sending(m), at[m] \in Replies,
         req[m].op # "complete", req[m].q \notin missed[m],
         ~(req[m].op = "response" /\ at[m] = "ok" /\ survey[req[m].q].kind \in {"audio", "image"}),
         ~(req[m].op = "slot" /\ at[m] = "ok")
  PROVE  Kept(m, req[m].q)
<1> PICK c : c = req[m]
  OBVIOUS
<1>1. c.op \in {"response", "slot", "audio", "image"} /\ c.value = snapshot[m][c.q]
  BY DEF Sending, Current
<1>2. at[m] # "failed"
  BY DEF Sending, Current
<1>3. at[m] = "refused" => c.op = "image" /\ backend = "go"
  BY DEF Sending, Current
<1>4. at[m] \in {"ok", "refused"}
  BY <1>2 DEF Replies
<1>5. response[m][c.q] = c.value
  BY <1>3, <1>4 DEF Sending, Current
<1>6. c.op \in {"audio", "image"} /\ at[m] = "ok" => attached[m][c.q] = c.value
  BY DEF Sending, Current
<1>7. c.op = "image" => survey[c.q].kind = "image"
  BY DEF Sending, Current
<1> QED
  BY <1>1, <1>3, <1>4, <1>5, <1>6, <1>7 DEF Kept

\* The next call of the loop finds what it passed kept.
LEMMA GoesOn ==
  ASSUME PageInv, NEW m \in Submits, NEW c, SubmissionAsks(m, c), Sending(m),
         at[m] # "new",
         UNCHANGED <<backend, session, response, attached, missed, faults, survey>>
  PROVE  Sending(m)'
<1>1. TypeOK /\ m \in Callers
  BY DEF PageInv, Callers
<1>2. /\ at[m] \in Replies /\ req[m].op # "complete" /\ Send(m, c)
      /\ c = Continuation(m) /\ c.sid = req[m].sid /\ snapshot' = snapshot
  BY DEF SubmissionAsks
<1>3. at'[m] = "sent" /\ req'[m] = c
  BY <1>1, <1>2, Typed DEF Send
<1>4. PICK d : d = req[m]
  OBVIOUS
<1>5. d.op \in {"response", "slot", "audio", "image"} /\ d.value = snapshot[m][d.q]
  BY <1>2, <1>4 DEF Sending, Current
<1>6. d.q \in Questions /\ d.value \in Values
  BY <1>1, <1>4, <1>5, Typed
<1>7. d.sid \in Starts /\ snapshot[m] \in Answers
  BY <1>1, <1>4, Typed
<1>8. ASSUME NEW op \in {"slot", "audio", "image"}, c = Call(op, d.sid, d.q, d.value),
             op \in {"slot", "audio"} => survey[d.q].kind = "audio",
             op = "image" => survey[d.q].kind = "image",
             d.q \notin missed[m] => response[m][d.q] = d.value
      PROVE  Sending(m)'
  <2>1. c.op = op /\ c.q = d.q /\ c.value = d.value
    BY <1>8 DEF Call
  <2>2. Behind(m)'
    BY <1>2, <1>3, <1>4, <1>8, <2>1 DEF Sending, Behind, Kept
  <2>3. Current(m)'
    BY <1>2, <1>3, <1>5, <1>8, <2>1 DEF Current
  <2> QED
    BY <2>2, <2>3 DEF Sending
<1>9. CASE d.op = "response" /\ at[m] = "ok" /\ survey[d.q].kind = "audio"
  <2>1. c = Call("slot", d.sid, d.q, d.value)
    BY <1>2, <1>4, <1>9 DEF Continuation
  <2>2. d.q \notin missed[m] => response[m][d.q] = d.value
    BY <1>4, <1>9 DEF Sending, Current
  <2> QED
    BY <1>8, <1>9, <2>1, <2>2
<1>10. CASE d.op = "slot" /\ at[m] = "ok"
  <2>1. c = Call("audio", d.sid, d.q, d.value)
    BY <1>2, <1>4, <1>10 DEF Continuation
  <2>2. /\ survey[d.q].kind = "audio"
        /\ d.q \notin missed[m] => response[m][d.q] = d.value
    BY <1>4, <1>10 DEF Sending, Current
  <2> QED
    BY <1>8, <2>1, <2>2
<1>11. CASE d.op = "response" /\ at[m] = "ok" /\ survey[d.q].kind = "image"
  <2>1. c = Call("image", d.sid, d.q, d.value)
    BY <1>2, <1>4, <1>11 DEF Continuation
  <2>2. d.q \notin missed[m] => response[m][d.q] = d.value
    BY <1>4, <1>11 DEF Sending, Current
  <2> QED
    BY <1>8, <1>11, <2>1, <2>2
<1>12. CASE /\ ~(d.op = "response" /\ at[m] = "ok" /\ survey[d.q].kind \in {"audio", "image"})
            /\ ~(d.op = "slot" /\ at[m] = "ok")
  <2>1. c = CallAfter(d.sid, snapshot[m], d.q)
    BY <1>2, <1>4, <1>12 DEF Continuation
  <2>2. d.q \in 0 .. Total
    BY <1>6, QuestionNumbers
  <2>3. IsNext(c, snapshot[m], d.q)
    BY <1>7, <2>1, <2>2, NextCall
  <2>4. d.q \notin missed[m] => Kept(m, d.q)
    BY <1>2, <1>4, <1>12, PastKept
  <2>5. \A p \in Questions \ missed[m] : snapshot[m][p] # None /\ p <= d.q => Kept(m, p)
    <3> SUFFICES ASSUME NEW p \in Questions \ missed[m], snapshot[m][p] # None, p <= d.q
                 PROVE  Kept(m, p)
      OBVIOUS
    <3>1. p \in Nat /\ d.q \in Nat
      BY <1>6, QuestionNumbers
    <3>2. p = d.q \/ p < d.q
      BY <3>1
    <3> QED
      BY <1>4, <2>4, <3>2 DEF Sending, Behind
  <2>6. Behind(m)'
    <3> SUFFICES ASSUME NEW p \in Questions \ missed[m], snapshot[m][p] # None,
                        c.op = "complete" \/ p < c.q
                 PROVE  Kept(m, p)'
      BY <1>2, <1>3 DEF Behind
    <3>1. p \in Nat /\ d.q \in Nat
      BY <1>6, QuestionNumbers
    <3>2. ~(p > d.q)
      BY <2>3 DEF IsNext
    <3>3. p <= d.q
      BY <3>1, <3>2
    <3>4. Kept(m, p)
      BY <2>5, <3>3
    <3> QED
      BY <1>2, <3>4 DEF Kept
  <2>7. Current(m)'
    BY <1>2, <1>3, <2>3 DEF Current, IsNext
  <2> QED
    BY <2>6, <2>7 DEF Sending
<1> QED
  BY <1>9, <1>10, <1>11, <1>12

\* The first call of a submission has left nothing behind it.
LEMMA SetsOut ==
  ASSUME PageInv, NEW m \in Submits, NEW c, SubmissionAsks(m, c), at[m] = "new",
         UNCHANGED <<backend, session, response, attached, missed, faults, survey>>
  PROVE  Sending(m)'
<1>1. TypeOK /\ m \in Callers
  BY DEF PageInv, Callers
<1>2. c.sid \in Starts /\ Send(m, c)
  BY DEF SubmissionAsks, Proper
<1>3. PICK s \in Starts : s = c.sid
  BY <1>2
<1>4. \A as \in Answers : c = CallAfter(s, as, 0) => IsNext(c, as, 0)
  <2> SUFFICES ASSUME NEW as \in Answers, c = CallAfter(s, as, 0) PROVE IsNext(c, as, 0)
    OBVIOUS
  <2>1. IsNext(CallAfter(s, as, 0), as, 0)
    BY FirstCall
  <2> QED
    BY <2>1
<1>5. PICK as \in Answers : snapshot' = [snapshot EXCEPT ![m] = as] /\ IsNext(c, as, 0)
  BY <1>3, <1>4 DEF SubmissionAsks, Replies
<1>6. at'[m] = "sent" /\ req'[m] = c /\ snapshot'[m] = as
  BY <1>1, <1>2, <1>5, Typed DEF Send
<1>7. \A p \in Questions : p > 0
  <2> SUFFICES ASSUME NEW p \in Questions PROVE p > 0
    OBVIOUS
  <2>1. p \in Nat /\ p # 0
    BY QuestionNumbers
  <2> QED
    BY <2>1
<1>8. Behind(m)'
  BY <1>5, <1>6, <1>7 DEF Behind, IsNext
<1>9. Current(m)'
  BY <1>5, <1>6 DEF Current, IsNext
<1> QED
  BY <1>8, <1>9 DEF Sending

\* The page sends on what it has, and completes a session at the end of the loop.
LEMMA WholePage ==
  ASSUME PageInv, WholeInv, Page
  PROVE  WholeInv'
<1>1. TypeOK
  BY DEF PageInv
<1>2. UNCHANGED <<backend, session, response, attached, missed, faults, survey>>
  BY PageCalls DEF PageAsks
<1>3. ASSUME NEW m \in Submits, req'[m] = req[m], snapshot'[m] = snapshot[m]
      PROVE  /\ Whole(m) => Whole(m)'
             /\ Sending(m) /\ at'[m] = at[m] => Sending(m)'
  <2>1. Untouched(m)
    BY <1>2, <1>3 DEF Untouched
  <2> QED
    BY <2>1, UntouchedWhole, UntouchedSending
<1>4. CASE AsksNothing
  <2>1. \A m \in Submits : req'[m] = req[m] /\ at'[m] = at[m] /\ snapshot'[m] = snapshot[m]
    BY <1>4 DEF AsksNothing
  <2>2. \A m \in Submits : (Whole(m) => Whole(m)') /\ (Sending(m) => Sending(m)')
    BY <1>3, <2>1
  <2> QED
    BY <1>2, <2>1, <2>2 DEF WholeInv, CompletedIsWhole
<1>5. ASSUME NEW m \in Submits, NEW c, SubmissionAsks(m, c)
      PROVE  WholeInv'
  <2>1. \A n \in Submits : /\ at'[n] = IF n = m THEN "sent" ELSE at[n]
                           /\ req'[n] = IF n = m THEN c ELSE req[n]
    BY <1>2, <1>5, Sends DEF Callers, SubmissionAsks
  <2>2. \A n \in Submits : n # m => snapshot'[n] = snapshot[n]
    BY <1>1, <1>5, Typed DEF SubmissionAsks
  <2>3. \A n \in Submits : n # m => (Whole(n) => Whole(n)') /\ (Sending(n) => Sending(n)')
    BY <1>3, <2>1, <2>2
  <2>4. req[m].op # "complete"
    <3>1. CASE at[m] = "new"
      BY <1>1, <3>1, Typed DEF NoCall, Call, Callers
    <3>2. CASE at[m] # "new"
      BY <1>5, <3>2 DEF SubmissionAsks
    <3> QED
      BY <3>1, <3>2
  <2>5. CompletedIsWhole'
    BY <1>2, <2>1, <2>3, <2>4 DEF WholeInv, CompletedIsWhole
  <2>6. ASSUME session[c.sid] = "IN_PROGRESS"
        PROVE  Sending(m)'
    <3>1. CASE at[m] = "new"
      BY <1>2, <1>5, <3>1, SetsOut
    <3>2. CASE at[m] # "new"
      <4>1. Sending(m)
        BY <1>5, <2>6, <3>2 DEF SubmissionAsks, WholeInv
      <4> QED
        BY <1>2, <1>5, <3>2, <4>1, GoesOn
    <3> QED
      BY <3>1, <3>2
  <2>7. ASSUME NEW n \in Submits, at'[n] # "new", session'[req'[n].sid] = "IN_PROGRESS"
        PROVE  Sending(n)'
    <3>1. CASE n = m
      BY <1>2, <2>1, <2>6, <2>7, <3>1
    <3>2. CASE n # m
      BY <1>2, <2>1, <2>3, <2>7, <3>2 DEF WholeInv
    <3> QED
      BY <3>1, <3>2
  <2> QED
    BY <2>5, <2>7 DEF WholeInv
<1>6. ASSUME NEW m \in Submits, Ends(m)
      PROVE  WholeInv'
  <2>1. /\ req' = req /\ snapshot' = snapshot
        /\ \A n \in Submits : at'[n] = IF n = m THEN "done" ELSE at[n]
    BY <1>1, <1>6, Typed DEF Ends, Callers
  <2>2. \A n \in Submits : /\ Whole(n) => Whole(n)'
                           /\ n # m => (Sending(n) => Sending(n)')
    BY <1>3, <2>1
  <2>3. CompletedIsWhole'
    BY <1>2, <2>1, <2>2 DEF WholeInv, CompletedIsWhole
  <2>4. at[m] # "new" /\ req[m].op = "complete"
    BY <1>6 DEF Ends, Replies
  <2>5. Sending(m) => Sending(m)'
    <3> SUFFICES ASSUME Sending(m) PROVE Sending(m)'
      OBVIOUS
    <3>1. Behind(m)'
      BY <1>2, <2>1 DEF Sending, Behind, Kept
    <3>2. Current(m)'
      BY <1>2, <2>1, <2>4 DEF Current
    <3> QED
      BY <3>1, <3>2 DEF Sending
  <2>6. ASSUME NEW n \in Submits, at'[n] # "new", session'[req'[n].sid] = "IN_PROGRESS"
        PROVE  Sending(n)'
    BY <1>2, <2>1, <2>2, <2>4, <2>5, <2>6 DEF WholeInv
  <2> QED
    BY <2>3, <2>6 DEF WholeInv
<1> QED
  BY <1>4, <1>5, <1>6, PageCalls DEF PageAsks

\* Nothing is sent or completed at first.
LEMMA WholeInit == Init => WholeInv
BY DEF Init, ApiInit, WholeInv, CompletedIsWhole, Callers

\* Every step keeps WholeInv.
LEMMA WholeStep == PageInv /\ WholeInv /\ [Next]_vars => WholeInv'
<1> SUFFICES ASSUME PageInv, WholeInv, [Next]_vars PROVE WholeInv'
  OBVIOUS
<1>1. CASE UNCHANGED vars
  <2>1. \A m \in Submits : Untouched(m) /\ at'[m] = at[m]
    BY <1>1 DEF vars, apiVars, pageVars, Untouched
  <2>2. \A m \in Submits : (Whole(m) => Whole(m)') /\ (Sending(m) => Sending(m)')
    BY <2>1, UntouchedWhole, UntouchedSending
  <2> QED
    BY <1>1, <2>2 DEF vars, apiVars, WholeInv, CompletedIsWhole
<1>2. CASE Page
  BY <1>2, WholePage
<1>3. ASSUME NEW c \in Callers, Serving(c), UNCHANGED pageVars
      PROVE  WholeInv'
  BY <1>3, WholeServes
<1> QED
  BY <1>1, <1>2, <1>3 DEF Next

\* A session is COMPLETED with a whole submission behind it: the loop of next() comes to
\* completeSession() only when every answer, recording and image before has been stored
\* or has failed, with submissions that overlap, calls that are refused, and the page left.
THEOREM CompletionIsWhole == Spec => []CompletedIsWhole
<1>1. WholeInv => CompletedIsWhole
  BY DEF WholeInv
<1> QED
  BY <1>1, WholeInit, WholeStep, PageInit, PageStep, PTL DEF Spec

-----------------------------------------------------------------------------
(* The thanks.                                                             *)

NoChoice == \A q \in Questions : survey[q].kind # "choice"

Submitted == open /\ \E m \in Submits : at[m] # "new"

\* With no call failing, a start leaves a session, and a submission is over when its
\* session is COMPLETED; with no question that moves on by itself, a page past the intro
\* or with a submission has a session, and only the end of a submission leads past the
\* last question.
DoneInv ==
    faults = 0 =>
        /\ \A c \in Callers : at[c] # "failed"
        /\ \A s \in Starts : at[s] \in {"ok", "done"} => session[s] # "absent"
        /\ \A m \in Submits : req[m].op = "complete" /\ at[m] \in {"ok", "refused", "done"}
                                 => session[req[m].sid] = "COMPLETED"
        /\ NoChoice => /\ timers = <<>>
                       /\ step > 0 \/ Submitted => sid # None
                       /\ step > Total => \E s \in Starts : session[s] = "COMPLETED"

\* A session that is there stays there.
LEMMA StaysThere ==
  ASSUME PageInv, NEW c \in Callers, Serving(c), NEW s \in Starts, session[s] # "absent"
  PROVE  session'[s] # "absent"
<1>1. session \in [Starts -> {"absent", "IN_PROGRESS", "COMPLETED"}]
  BY Typed DEF PageInv
<1>2. PICK x : x = req[c].sid
  OBVIOUS
<1>3. \/ session' = session \/ session' = [session EXCEPT ![c] = "IN_PROGRESS"]
      \/ session' = [session EXCEPT ![x] = IF @ = "absent" THEN @ ELSE "COMPLETED"]
  BY <1>2 DEF Serving, Serve, StartSession, CheckResponse, StoreResponse, CreateSlot,
              UploadAudio, UploadImage, CheckComplete, CompleteSession, Fails, Skips, Fault
<1> QED
  BY <1>1, <1>3

\* A call that is served without a fault is answered for a reason.
LEMMA Answered ==
  ASSUME PageInv, NEW c \in Callers, Serving(c), faults' = 0
  PROVE  /\ faults = 0 /\ at'[c] # "failed"
         /\ c \in Starts => at'[c] = "ok" /\ session'[c] = "IN_PROGRESS"
         /\ /\ c \in Submits /\ req[c].op = "complete"
            /\ at'[c] \in {"ok", "refused", "done"} /\ session[req[c].sid] # "absent"
            => session'[req[c].sid] = "COMPLETED"
<1>1. TypeOK /\ KindsOfCalls
  BY DEF PageInv
<1>2. faults \in Nat /\ MaxFaults \in Nat
  BY <1>1, Typed, CollectAssumption
<1>3. ~Fails(c) /\ ~Skips(c)
  BY <1>2 DEF Fails, Skips, Fault
<1>4. Serve(c)
  BY <1>3 DEF Serving
<1>5. faults' = faults
  BY <1>4 DEF Serve, StartSession, CheckResponse, StoreResponse, CreateSlot, UploadAudio,
              UploadImage, CheckComplete, CompleteSession, Reply
<1>6. \A how : at' = [at EXCEPT ![c] = how] => at'[c] = how
  BY <1>1, Typed
<1>7. session \in [Starts -> {"absent", "IN_PROGRESS", "COMPLETED"}]
  BY <1>1, Typed
<1>8. at'[c] # "failed"
  BY <1>4, <1>6
     DEF Serve, StartSession, CheckResponse, StoreResponse, CreateSlot, UploadAudio,
         UploadImage, CheckComplete, CompleteSession, Reply
<1>9. ASSUME c \in Starts
      PROVE  at'[c] = "ok" /\ session'[c] = "IN_PROGRESS"
  <2>1. StartSession(c)
    BY <1>1, <1>4, <1>9
       DEF KindsOfCalls, Serve, CheckResponse, StoreResponse, CreateSlot, UploadAudio,
           UploadImage, CheckComplete, CompleteSession
  <2> QED
    BY <1>6, <1>7, <1>9, <2>1 DEF StartSession, Reply
<1>10. ASSUME c \in Submits, req[c].op = "complete", at'[c] \in {"ok", "refused", "done"},
              session[req[c].sid] # "absent"
       PROVE  session'[req[c].sid] = "COMPLETED"
  <2>1. CASE CheckComplete(c)
    BY <1>6, <1>10, <2>1 DEF CheckComplete, Reply
  <2>2. CASE CompleteSession(c)
    <3>1. at[c] # "new"
      BY <2>2 DEF CompleteSession
    <3>2. PICK s \in Starts : s = req[c].sid
      BY <1>1, <1>10, <3>1, Typed
    <3>3. session' = [session EXCEPT ![s] = IF @ = "absent" THEN @ ELSE "COMPLETED"]
      BY <2>2, <3>2 DEF CompleteSession
    <3> QED
      BY <1>7, <1>10, <3>2, <3>3
  <2> QED
    BY <1>4, <1>10, <2>1, <2>2
       DEF Serve, StartSession, CheckResponse, StoreResponse, CreateSlot, UploadAudio,
           UploadImage
<1> QED
  BY <1>5, <1>8, <1>9, <1>10

\* Handlers keep DoneInv: what is answered has been done.
LEMMA DoneServes ==
  ASSUME PageInv, DoneInv, NEW c \in Callers, Serving(c), UNCHANGED pageVars
  PROVE  DoneInv'
<1> SUFFICES ASSUME faults' = 0 PROVE DoneInv'
  BY DEF DoneInv
<1>1. TypeOK /\ KindsOfCalls /\ SessionsBegun
  BY DEF PageInv
<1>2. faults = 0 /\ at'[c] # "failed"
  BY Answered
<1>3. /\ req' = req /\ at[c] # "new" /\ at[c] # "done"
      /\ \A x \in Callers : x # c => at'[x] = at[x]
  BY <1>1, Moved, Typed
<1>4. \A x \in Callers : at'[x] # "failed"
  BY <1>2, <1>3 DEF DoneInv
<1>5. ASSUME NEW s \in Starts, at'[s] \in {"ok", "done"}
      PROVE  session'[s] # "absent"
  <2>1. CASE s = c
    BY <2>1, Answered
  <2>2. CASE s # c
    BY <1>2, <1>3, <1>5, <2>2, StaysThere DEF DoneInv, Callers
  <2> QED
    BY <2>1, <2>2
<1>6. ASSUME NEW m \in Submits, req'[m].op = "complete", at'[m] \in {"ok", "refused", "done"}
      PROVE  session'[req'[m].sid] = "COMPLETED"
  <2>1. m \in Callers
    BY DEF Callers
  <2>2. at[m] # "new"
    BY <1>3, <1>6, <2>1
  <2>3. PICK s \in Starts : s = req[m].sid
    BY <1>1, <2>2, Typed
  <2>4. at[s] = "done" /\ session[s] # "absent"
    BY <1>1, <1>2, <2>2, <2>3 DEF SessionsBegun, DoneInv
  <2>5. CASE m = c
    BY <1>3, <1>6, <2>3, <2>4, <2>5, Answered
  <2>6. CASE m # c
    BY <1>2, <1>3, <1>6, <2>1, <2>3, <2>6, StaysCompleted DEF DoneInv
  <2> QED
    BY <2>5, <2>6
<1>7. UNCHANGED <<survey, step, sid, timers>>
  BY DEF pageVars
<1>8. (\E s \in Starts : session[s] = "COMPLETED") => \E s \in Starts : session'[s] = "COMPLETED"
  BY StaysCompleted
<1>9. NoChoice' => /\ timers' = <<>>
                   /\ step' > 0 \/ Submitted' => sid' # None
                   /\ step' > Total => \E s \in Starts : session'[s] = "COMPLETED"
  <2>1. Submitted' => Submitted
    BY <1>3 DEF pageVars, Submitted, Callers
  <2> QED
    BY <1>2, <1>7, <1>8, <2>1 DEF DoneInv, NoChoice
<1> QED
  BY <1>4, <1>5, <1>6, <1>9 DEF DoneInv


\* The sessions and the calls of starts in a step of the page: a start sets out, or ends
\* and leaves its session known, or nothing of it moves.
LEMMA DoneBegins ==
  ASSUME PageInv, DoneInv, faults = 0, NEW s \in Starts, ClickBegin(s) \/ Begun(s)
  PROVE  DoneInv'
<1>1. TypeOK /\ KindsOfCalls /\ s \in Callers /\ s \notin Submits
  BY CollectAssumption DEF PageInv, Callers
<1>2. /\ UNCHANGED <<session, faults, survey, timers>>
      /\ \A x \in Callers : x # s => at'[x] = at[x] /\ req'[x] = req[x]
      /\ at'[s] = "sent" \/ (at'[s] = "done" /\ at[s] \in Replies)
  BY <1>1, Typed DEF ClickBegin, Begun, Send, pageVars
<1>3. \A x \in Callers : at'[x] # "failed"
  BY <1>2 DEF DoneInv
<1>4. at[s] \in Replies => at[s] = "ok"
  BY <1>1 DEF DoneInv, KindsOfCalls, Replies
<1>5. \A t \in Starts : at'[t] \in {"ok", "done"} => session'[t] # "absent"
  BY <1>2, <1>4 DEF DoneInv, Callers
<1>6. NoChoice' => (step' > 0 \/ Submitted' => sid' # None)
  <2>1. CASE ClickBegin(s)
    <3>1. Submitted' => Submitted
      BY <1>1, <1>2, <2>1 DEF ClickBegin, pageVars, Submitted, Callers
    <3> QED
      BY <2>1, <3>1 DEF ClickBegin, pageVars, DoneInv, NoChoice
  <2>2. CASE Begun(s)
    BY <1>4, <2>2, CollectAssumption DEF Begun
  <2> QED
    BY <2>1, <2>2
<1>7. \A m \in Submits : req'[m].op = "complete" /\ at'[m] \in {"ok", "refused", "done"}
                            => session'[req'[m].sid] = "COMPLETED"
  BY <1>1, <1>2 DEF DoneInv, Callers
<1>8. step' > Total => step > Total
  <2>1. CASE ClickBegin(s)
    BY <2>1 DEF ClickBegin, pageVars
  <2>2. CASE Begun(s)
    <3>1. Total \in Nat \ {0}
      BY CollectAssumption
    <3> QED
      BY <2>2, <3>1 DEF Begun
  <2> QED
    BY <2>1, <2>2
<1>9. NoChoice' => /\ timers' = <<>>
                   /\ step' > 0 \/ Submitted' => sid' # None
                   /\ step' > Total => \E t \in Starts : session'[t] = "COMPLETED"
  BY <1>2, <1>6, <1>8 DEF DoneInv, NoChoice
<1> QED
  BY <1>3, <1>5, <1>7, <1>9 DEF DoneInv

\* Any other step of the page makes or ends a call of a submission, and leaves the rest.
LEMMA DoneMoves ==
  ASSUME PageInv, DoneInv, faults = 0,
         UNCHANGED <<session, faults, survey>>,
         \A s \in Starts : at'[s] = at[s],
         \A m \in Submits : \/ at'[m] = at[m] /\ req'[m] = req[m]
                            \/ at'[m] = "sent"
                            \/ at'[m] = "done" /\ at[m] \in Replies /\ req'[m] = req[m],
         NoChoice => /\ timers' = <<>>
                     /\ step' > 0 \/ Submitted' => sid' # None
                     /\ step' > Total => \E s \in Starts : session[s] = "COMPLETED"
  PROVE  DoneInv'
<1>1. \A c \in Callers : at'[c] # "failed"
  BY DEF DoneInv, Callers
<1>2. \A s \in Starts : at'[s] \in {"ok", "done"} => session'[s] # "absent"
  BY DEF DoneInv
<1>3. ASSUME NEW m \in Submits, req'[m].op = "complete", at'[m] \in {"ok", "refused", "done"}
      PROVE  session'[req'[m].sid] = "COMPLETED"
  <2>1. at[m] # "failed"
    BY DEF DoneInv, Callers
  <2>2. req'[m] = req[m] /\ at[m] \in {"ok", "refused", "done"}
    BY <1>3, <2>1 DEF Replies
  <2> QED
    BY <1>3, <2>2 DEF DoneInv
<1>4. NoChoice' => NoChoice
  BY DEF NoChoice
<1> QED
  BY <1>1, <1>2, <1>3, <1>4 DEF DoneInv

\* Answering, going back and closing move no call.
LEMMA DoneAnswers ==
  ASSUME PageInv, DoneInv, faults = 0,
         \/ \E v \in Values \cup {None} : Edit(v)
         \/ \E v \in Values : Choose(v)
         \/ Capture
         \/ \E q \in Questions : Captured(q)
         \/ Back
         \/ Close
  PROVE  DoneInv'
<1>1. step \in Nat /\ Total \in Nat \ {0}
  BY CollectAssumption DEF PageInv, TypeOK
<1>2. UNCHANGED <<session, faults, survey, at, req>>
  BY DEF Edit, Choose, Capture, Captured, Back, Close, apiVars
<1>3. ASSUME NoChoice, NEW v \in Values PROVE ~Choose(v)
  BY <1>3 DEF NoChoice, Choose, Shows
<1>4. \/ UNCHANGED <<timers, sid, step>> /\ (Submitted' => Submitted)
      \/ \E v \in Values : Choose(v)
      \/ UNCHANGED <<timers, sid>> /\ step > 0 /\ step' = step - 1
      \/ timers' = <<>> /\ step' = 0 /\ ~Submitted'
  <2>1. CASE Back
    <3>1. step \in Nat /\ step # 0
      BY <2>1, QuestionNumbers DEF Back
    <3> QED
      BY <2>1, <3>1 DEF Back
  <2>2. CASE Close
    BY <2>2 DEF Close, Submitted
  <2>3. CASE \/ \E v \in Values \cup {None} : Edit(v)
             \/ Capture
             \/ \E q \in Questions : Captured(q)
    <3>1. UNCHANGED <<timers, sid, step, open, at>>
      BY <2>3 DEF Edit, Capture, Captured, apiVars
    <3> QED
      BY <3>1 DEF Submitted
  <2> QED
    BY <2>1, <2>2, <2>3
<1>5. NoChoice => /\ timers' = <<>>
                  /\ step' > 0 \/ Submitted' => sid' # None
                  /\ step' > Total => \E s \in Starts : session[s] = "COMPLETED"
  <2> SUFFICES ASSUME NoChoice
               PROVE  /\ timers' = <<>>
                      /\ step' > 0 \/ Submitted' => sid' # None
                      /\ step' > Total => \E s \in Starts : session[s] = "COMPLETED"
    OBVIOUS
  <2>1. /\ timers = <<>>
        /\ step > 0 \/ Submitted => sid # None
        /\ step > Total => \E s \in Starts : session[s] = "COMPLETED"
    BY DEF DoneInv
  <2>2. CASE UNCHANGED <<timers, sid, step>> /\ (Submitted' => Submitted)
    BY <2>1, <2>2
  <2>3. CASE UNCHANGED <<timers, sid>> /\ step > 0 /\ step' = step - 1
    <3>1. step' > Total => step > Total
      BY <1>1, <2>3
    <3> QED
      BY <2>1, <2>3, <3>1
  <2>4. CASE timers' = <<>> /\ step' = 0 /\ ~Submitted'
    BY <1>1, <2>4
  <2> QED
    BY <1>3, <1>4, <2>2, <2>3, <2>4
<1> QED
  BY <1>2, <1>5, DoneMoves

\* next() without its submission goes past the last question only without a session.
LEMMA DoneProceeds ==
  ASSUME PageInv, DoneInv, faults = 0, NEW m \in Submits, Proceed(m)
  PROVE  DoneInv'
<1>1. PICK r \in Render :
         /\ r.step = step /\ r.sid = sid /\ r.answers = answers /\ MoveOn(m, r)
         /\ r.sid # None => at[r.sid] = "done"
  BY ProceedMoves
<1>2. UNCHANGED <<session, faults, survey, sid, timers>>
  BY DEF Proceed
<1>3. TypeOK /\ m \in Callers /\ m \notin Starts
  BY CollectAssumption DEF PageInv, Callers
<1>4. /\ \A c \in Callers : c # m => at'[c] = at[c] /\ req'[c] = req[c]
      /\ at'[m] = "sent" \/ (at'[m] = at[m] /\ req'[m] = req[m])
  BY <1>1, <1>3, Typed DEF MoveOn, BeginSubmission, Send
<1>5. step \in Nat /\ step # 0 /\ step <= Total /\ Total \in Nat
  <2>1. step \in Questions /\ Total \in Nat
    BY QuestionNumbers DEF Proceed
  <2>2. step \in 1 .. Total
    BY <2>1 DEF Questions
  <2> QED
    BY <2>1, <2>2
<1>6. NoChoice => timers = <<>> /\ sid # None
  BY <1>5 DEF DoneInv
<1>7. sid # None => step' = step \/ (step' = step + 1 /\ step # Total)
  BY <1>1 DEF MoveOn, BeginSubmission
<1>8. sid # None => step' <= Total
  BY <1>5, <1>7
<1>9. NoChoice => timers' = <<>> /\ sid' # None /\ ~(step' > Total)
  <2>1. step' \in Nat
    <3>1. step' = step \/ step' = step + 1
      BY <1>1 DEF MoveOn, BeginSubmission
    <3> QED
      BY <1>5, <3>1
  <2> QED
    BY <1>2, <1>5, <1>6, <1>8, <2>1
<1> QED
  BY <1>2, <1>3, <1>4, <1>9, DoneMoves DEF Callers

\* Every action of the page keeps DoneInv.
LEMMA DonePage ==
  ASSUME PageInv, DoneInv, Page
  PROVE  DoneInv'
<1> SUFFICES ASSUME faults' = 0 PROVE DoneInv'
  BY DEF DoneInv
<1>1. faults = 0 /\ UNCHANGED <<session, faults, survey>>
  BY PageCalls DEF PageAsks
<1>2. ASSUME NEW s \in Starts, ClickBegin(s) \/ Begun(s)
      PROVE  DoneInv'
  BY <1>1, <1>2, DoneBegins
<1>3. CASE \/ \E v \in Values \cup {None} : Edit(v)
           \/ \E v \in Values : Choose(v)
           \/ Capture
           \/ \E q \in Questions : Captured(q)
           \/ Back
           \/ Close
  BY <1>1, <1>3, DoneAnswers
<1>4. ASSUME NEW m \in Submits, Proceed(m)
      PROVE  DoneInv'
  BY <1>1, <1>4, DoneProceeds
<1>5. TypeOK /\ \A m \in Submits : m \in Callers /\ m \notin Starts
  BY CollectAssumption DEF PageInv, Callers
<1>6. ASSUME NEW m \in Submits, NEW i \in DOMAIN timers, Commit(m, i)
      PROVE  DoneInv'
  <2>1. ~NoChoice
    <3> SUFFICES ASSUME NoChoice PROVE FALSE
      OBVIOUS
    <3>1. timers = <<>>
      BY <1>1 DEF DoneInv
    <3> QED
      BY <1>6, <3>1
  <2>2. PICK r : r = timers[i] /\ MoveOn(m, r)
    BY <1>6 DEF Commit
  <2>3. /\ \A c \in Callers : c # m => at'[c] = at[c] /\ req'[c] = req[c]
        /\ at'[m] = "sent" \/ (at'[m] = at[m] /\ req'[m] = req[m])
    BY <1>5, <2>2, Typed DEF MoveOn, BeginSubmission, Send
  <2> QED
    BY <1>1, <1>5, <2>1, <2>3, DoneMoves DEF Callers
<1>7. ASSUME NEW m \in Submits, Continue(m)
      PROVE  DoneInv'
  <2>1. /\ \A c \in Callers : c # m => at'[c] = at[c] /\ req'[c] = req[c]
        /\ at'[m] = "sent"
    BY <1>5, <1>7, Typed DEF Continue, Send
  <2>2. UNCHANGED <<step, sid, timers>> /\ (Submitted' => Submitted)
    BY <1>7 DEF Continue, pageVars, Submitted, Replies
  <2>3. NoChoice => /\ timers' = <<>>
                    /\ step' > 0 \/ Submitted' => sid' # None
                    /\ step' > Total => \E s \in Starts : session[s] = "COMPLETED"
    BY <1>1, <2>2 DEF DoneInv
  <2> QED
    BY <1>1, <1>5, <2>1, <2>3, DoneMoves DEF Callers
<1>8. ASSUME NEW m \in Submits, Finish(m)
      PROVE  DoneInv'
  <2>1. /\ \A c \in Callers : c # m => at'[c] = at[c]
        /\ at'[m] = "done" /\ at[m] \in Replies /\ req' = req /\ req[m].op = "complete"
    BY <1>5, <1>8, Typed DEF Finish
  <2>2. session[req[m].sid] = "COMPLETED" /\ req[m].sid \in Starts
    BY <1>1, <1>5, <2>1, Typed DEF DoneInv, Replies
  <2>3. UNCHANGED <<sid, timers>> /\ Submitted
    BY <1>8, <2>1 DEF Finish, Submitted, Replies
  <2>4. NoChoice => /\ timers' = <<>>
                    /\ step' > 0 \/ Submitted' => sid' # None
                    /\ step' > Total => \E s \in Starts : session[s] = "COMPLETED"
    BY <1>1, <2>2, <2>3 DEF DoneInv
  <2> QED
    BY <1>1, <1>5, <2>1, <2>4, DoneMoves DEF Callers
<1>9. CASE \E s \in Starts : ClickBegin(s) \/ Begun(s)
  BY <1>2, <1>9
<1>10. CASE \E m \in Submits : \/ Proceed(m)
                               \/ \E i \in DOMAIN timers : Commit(m, i)
                               \/ Continue(m)
                               \/ Finish(m)
  BY <1>4, <1>6, <1>7, <1>8, <1>10
<1> QED
  BY <1>3, <1>9, <1>10 DEF Page

\* Every step keeps DoneInv.
LEMMA DoneStep == PageInv /\ DoneInv /\ [Next]_vars => DoneInv'
<1> SUFFICES ASSUME PageInv, DoneInv, [Next]_vars PROVE DoneInv'
  OBVIOUS
<1>1. CASE UNCHANGED vars
  BY <1>1 DEF vars, apiVars, pageVars, DoneInv, NoChoice, Submitted
<1>2. CASE Page
  BY <1>2, DonePage
<1>3. ASSUME NEW c \in Callers, Serving(c), UNCHANGED pageVars
      PROVE  DoneInv'
  BY <1>3, DoneServes
<1> QED
  BY <1>1, <1>2, <1>3 DEF Next

\* The thanks are true on a page without choices while no call fails: a session is
\* COMPLETED and has all that one submission had to send.
THEOREM ThanksAreTrue == Spec => []DoneIsRecorded
<1>1. Init => DoneInv
  <2>1. Init => /\ step = 0 /\ timers = <<>>
                /\ \A c \in Callers : at[c] = "new" /\ req[c] = NoCall
    BY DEF Init, ApiInit
  <2>2. NoCall.op = "none" /\ Total \in Nat
    BY CollectAssumption DEF NoCall, Call
  <2> QED
    BY <2>1, <2>2 DEF DoneInv, Submitted, Callers
<1>2. PageInv /\ DoneInv /\ CompletedIsWhole => DoneIsRecorded
  <2> SUFFICES ASSUME PageInv, DoneInv, CompletedIsWhole, step > Total, faults = 0, NoChoice
               PROVE  \E m \in Submits : /\ at[m] # "new" /\ Whole(m)
                                         /\ session[req[m].sid] = "COMPLETED"
    BY DEF DoneIsRecorded, NoChoice
  <2>1. PICK s \in Starts : session[s] = "COMPLETED"
    BY DEF DoneInv
  <2>2. PICK m \in Submits : req[m].sid = s /\ req[m].op = "complete" /\ Whole(m)
    BY <2>1 DEF CompletedIsWhole
  <2>3. at[m] # "new"
    <3>1. m \in Callers /\ NoCall.op = "none"
      BY DEF Callers, NoCall, Call
    <3> QED
      BY <2>2, <3>1, Typed DEF PageInv
  <2> QED
    BY <2>1, <2>2, <2>3
<1> QED
  BY <1>1, <1>2, DoneStep, CompletionIsWhole, PageInit, PageStep, PTL DEF Spec
==============================================================================
