----------------------------- MODULE AudioWidget -----------------------------
(***************************************************************************)
(* CollectPage.tsx, AudioWidget: the recorder of a voice question.         *)
(*                                                                         *)
(* start() waits for the microphone and then makes a recorder; the parts   *)
(* it hands over, the seconds that pass and the recorder itself are held   *)
(* in refs, one of each for the widget.  stop() asks the recorder to end,  *)
(* and onstop, a little later, makes the answer from what the refs hold by *)
(* then.  The meters are left out.                                         *)
(***************************************************************************)
EXTENDS QuestionScreen, FiniteSets

CONSTANTS
    Recorders,  \* recorders, in the order in which they are made
    MaxSeconds  \* bound: how long is recorded

ASSUME AudioAssumption ==
    /\ IsFiniteSet(Recorders) /\ Recorders = 1..Cardinality(Recorders)
    /\ MaxSeconds \in Nat

VARIABLES
    state,      \* "idle", "recording" or "done"
    asking,     \* starts that wait for the microphone
    recorder,   \* "none", "recording", "left" so, "stopping" or "over", for each
    mrRef,      \* the recorder stop() will stop
    chunks,     \* recorders whose parts are in the array
    timerRef,   \* the recorder whose interval stop() will clear
    ticking,    \* recorders whose interval counts the seconds
    seconds,    \* durationRef
    stray,      \* a microphone was given to a start that failed then: nobody closes it
    twice,      \* history: started again before the microphone was given
    hurried     \* history: reset before onstop

audioVars == <<state, asking, recorder, mrRef, chunks, timerRef, ticking, seconds,
               stray, twice, hurried>>

Recording == [by : Recorders, parts : SUBSET Recorders, seconds : 0..MaxSeconds]

ASSUME RecordingAssumption == None \notin Recording

\* Every variable has its type.
AudioTypeOK ==
    /\ state \in {"idle", "recording", "done"}
    /\ asking \in 0..Cardinality(Recorders)
    /\ recorder \in [Recorders -> {"none", "recording", "left", "stopping", "over"}]
    /\ mrRef \in Recorders \cup {None} /\ timerRef \in Recorders \cup {None}
    /\ chunks \subseteq Recorders /\ ticking \subseteq Recorders
    /\ seconds \in 0..MaxSeconds
    /\ stray \in BOOLEAN /\ twice \in BOOLEAN /\ hurried \in BOOLEAN

AudioInit ==
    /\ state = "idle" /\ asking = 0
    /\ recorder = [r \in Recorders |-> "none"]
    /\ mrRef = None /\ timerRef = None
    /\ chunks = {} /\ ticking = {} /\ seconds = 0
    /\ stray = FALSE /\ twice = FALSE /\ hurried = FALSE

In(phase) == {r \in Recorders : recorder[r] = phase}
Made == Recorders \ In("none")

\* The button, which stays while the browser asks for the microphone.
Start ==
    /\ shown /\ state = "idle"
    /\ asking + Cardinality(Made) < Cardinality(Recorders)
    /\ asking' = asking + 1
    /\ twice' = (twice \/ asking > 0)
    /\ UNCHANGED <<state, recorder, mrRef, chunks, timerRef, ticking, seconds,
                   stray, hurried, screenVars>>

\* The rest of start(), wherever the respondent is by now.  What it puts into the
\* refs of a screen that has gone nobody reads.
Granted ==
    /\ asking > 0 /\ asking' = asking - 1
    /\ LET r == Cardinality(Made) + 1 IN
       /\ recorder' = [recorder EXCEPT ![r] = "recording"]
       /\ mrRef' = r /\ timerRef' = r
       /\ chunks' = {}
       /\ ticking' = ticking \cup {r}
       /\ state' = IF shown THEN "recording" ELSE state
    /\ seconds' = 0
    /\ UNCHANGED <<stray, twice, hurried, screenVars>>

\* No microphone.
Denied ==
    /\ asking > 0 /\ asking' = asking - 1
    /\ UNCHANGED <<state, recorder, mrRef, chunks, timerRef, ticking, seconds,
                   stray, twice, hurried, screenVars>>

\* A later line of start() throws: the audio context, the recorder or its start.
\* The message is that of Denied, but nobody ends the stream that was given.
GrantedInVain ==
    /\ asking > 0 /\ asking' = asking - 1
    /\ stray' = TRUE
    /\ chunks' \in {chunks, {}}
    /\ UNCHANGED <<state, recorder, mrRef, timerRef, ticking, seconds, twice, hurried,
                   screenVars>>

\* ondataavailable, every quarter of a second.
Part(r) ==
    /\ recorder[r] = "recording" /\ r \notin chunks
    /\ chunks' = chunks \cup {r}
    /\ UNCHANGED <<state, asking, recorder, mrRef, timerRef, ticking, seconds,
                   stray, twice, hurried, screenVars>>

\* One of the intervals.
Tick ==
    /\ ticking # {} /\ seconds < MaxSeconds
    /\ seconds' = seconds + 1
    /\ UNCHANGED <<state, asking, recorder, mrRef, chunks, timerRef, ticking, stray,
                   twice, hurried, screenVars>>

Stop ==
    /\ shown /\ state = "recording"
    /\ state' = "done"
    /\ recorder' = [recorder EXCEPT ![mrRef] = "stopping"]
    /\ ticking' = ticking \ {timerRef}
    /\ timerRef' = None
    /\ UNCHANGED <<asking, mrRef, chunks, seconds, stray, twice, hurried,
                   screenVars>>

\* Mutant: the parts of earlier recordings are kept.
PartsKept(r) == chunks \cup {r} \cup {p \in Recorders : p < r}

\* The array when onstop runs, the last part included.
Parts(r) == chunks \cup {r}

\* onstop: the answer, and the microphone given back.
OnStop(r) ==
    /\ recorder[r] = "stopping"
    /\ recorder' = [recorder EXCEPT ![r] = "over"]
    /\ chunks' = Parts(r)
    /\ answer' = [by |-> r, parts |-> Parts(r), seconds |-> seconds]
    /\ UNCHANGED <<state, asking, mrRef, timerRef, ticking, seconds, stray, twice,
                   hurried, shown, leaves>>

\* Re-record.
Reset ==
    /\ shown /\ state = "done"
    /\ answer' = None
    /\ state' = "idle"
    /\ seconds' = 0
    /\ hurried' = (hurried \/ In("stopping") # {})
    /\ UNCHANGED <<asking, recorder, mrRef, chunks, timerRef, ticking, stray, twice,
                   shown, leaves>>

\* The effect of unmounting clears the interval and not the recorder.
LeaveAudio ==
    /\ LeaveScreen
    /\ ticking' = ticking \ {timerRef}
    /\ timerRef' = None
    /\ UNCHANGED <<state, asking, recorder, mrRef, chunks, seconds, stray, twice,
                   hurried>>

\* Another widget with other refs, once all is over that the first has asked for.
ReturnToAudio ==
    /\ ReturnToScreen
    /\ asking = 0 /\ In("stopping") = {}
    /\ state' = IF answer = None THEN "idle" ELSE "done"
    /\ seconds' = IF answer = None THEN 0 ELSE answer.seconds
    /\ mrRef' = None /\ timerRef' = None
    /\ chunks' = {} /\ ticking' = {}
    /\ recorder' = [r \in Recorders |->
                      IF recorder[r] = "recording" THEN "left" ELSE recorder[r]]
    /\ UNCHANGED <<asking, stray, twice, hurried>>

AudioNext ==
    \/ Start \/ Granted \/ Denied \/ GrantedInVain \/ Tick \/ Stop \/ Reset
    \/ \E r \in Recorders : Part(r) \/ OnStop(r)
    \/ LeaveAudio \/ ReturnToAudio

-----------------------------------------------------------------------------

\* A recording holds nothing of another one -- on a widget with one array for all
\* of them -- unless it was started twice while the browser asked, or reset
\* before the recorder had ended.
RecordingIsOwn ==
    Made # {} /\ answer # None /\ ~twice /\ ~hurried => answer.parts = {answer.by}

\* "Recorded" is shown with a recording, or with one that is about to come.
DoneHasRecording ==
    shown /\ state = "done" /\ answer = None => In("stopping") # {}

\* A recorder holds the microphone while the widget says it records, and but for the
\* moment until a stopped recorder ends only then; unless it was started twice or a
\* recording was left with its question.  A start that failed once the microphone was
\* given (stray) has no recorder: it changes nothing here, and nothing ends it.
MicrophoneReleased ==
    ~twice /\ leaves = 0 => (In("recording") # {} <=> state = "recording")

\* The three that keep recordings and recorders apart.
RecordingsApart == RecordingIsOwn /\ DoneHasRecording /\ MicrophoneReleased

\* What the respondent stops becomes the answer.
RecordingArrives ==
    shown /\ state = "done" ~> answer # None \/ state # "done" \/ ~shown
=============================================================================
