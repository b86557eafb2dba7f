------------------------ MODULE QuestionWidgetProofs ------------------------
(***************************************************************************)
(* Proofs about the widgets of a question, for any number of recorders,    *)
(* captures, settings, answers and leaves: the location widget tells the   *)
(* truth, recordings stay apart, and what is answered and previewed is     *)
(* what the builder has set.  The recorder and the location keep their     *)
(* first state until a question of their type is asked; each has an        *)
(* invariant of its own.                                                   *)
(***************************************************************************)
EXTENDS QuestionWidget, FiniteSetTheorems, SequenceTheorems, TLAPS

ScreenInv ==
    /\ type \in Types /\ asked \in BOOLEAN /\ changes \in Nat
    /\ shown \in BOOLEAN /\ leaves \in 0 .. MaxLeaves
    /\ leaves = 0 => shown

\* Who answers: the builder, the screen, the recorder or the location.
Builds ==
    \E option \in DOMAIN Settings(type) :
        IF option \in Lists THEN Relist(option) ELSE Change(option)

GivesAnswer == Type \/ TypeNumber \/ Choose \/ Toggle \/ Slide \/ TakeImage \/ TakeFile \/ Rank

Records == asked /\ type \in Voice /\ AudioNext /\ UNCHANGED <<questionVars, locationVars>>

Locates == asked /\ type = "LOCATION" /\ LocationNext /\ UNCHANGED <<questionVars, audioVars>>

Turns ==
    /\ asked /\ type \notin Voice \cup {"LOCATION"}
    /\ LeaveSimple \/ ReturnToSimple
    /\ UNCHANGED questionVars

LEMMA WhoSteps ==
  ASSUME [Next]_vars
  PROVE  Builds \/ Ask \/ GivesAnswer \/ Records \/ Locates \/ Turns \/ UNCHANGED vars
BY DEF Next, Builds, GivesAnswer, Records, Locates, Turns

\* The widgets that answer at once are neither recorder nor location.
LEMMA AnswersAt ==
  ASSUME GivesAnswer
  PROVE  /\ asked /\ shown /\ type \notin Voice \cup {"LOCATION"}
         /\ changes < MaxAnswers /\ changes' = changes + 1
         /\ UNCHANGED <<type, options, asked, shown, leaves, audioVars, locationVars>>
BY DEF GivesAnswer, Type, TypeNumber, Choose, Toggle, Slide, TakeImage, TakeFile, Rank, Give,
       Text, Voice

LEMMA BuildsAt ==
  ASSUME Builds
  PROVE  /\ ~asked /\ changes' = changes + 1
         /\ UNCHANGED <<type, asked, screenVars, audioVars, locationVars>>
BY DEF Builds, Relist, Change, Set

LEMMA ScreenInvHolds == Spec => []ScreenInv
<1>1. Init => ScreenInv
  <2> SUFFICES ASSUME Init PROVE ScreenInv
    OBVIOUS
  <2>1. type \in Types /\ asked = FALSE /\ changes = 0 /\ shown = TRUE /\ leaves = 0
    BY DEF Init, ScreenInit
  <2>2. changes \in Nat /\ leaves \in 0 .. MaxLeaves
    BY <2>1, ScreenAssumption
  <2> QED
    BY <2>1, <2>2, Zenon DEF ScreenInv
<1>2. ScreenInv /\ [Next]_vars => ScreenInv'
  <2> SUFFICES ASSUME ScreenInv, [Next]_vars PROVE ScreenInv'
    OBVIOUS
  <2> USE ScreenAssumption DEF ScreenInv
  <2>1. CASE Builds
    BY <2>1, BuildsAt DEF screenVars
  <2>2. CASE Ask
    BY <2>2 DEF Ask
  <2>3. CASE GivesAnswer
    BY <2>3, AnswersAt
  <2>4. CASE LeaveScreen /\ UNCHANGED questionVars
    <3>1. /\ shown' = FALSE /\ leaves' = leaves + 1 /\ leaves < MaxLeaves
          /\ UNCHANGED <<type, asked, changes>>
      BY <2>4 DEF LeaveScreen, questionVars
    <3>2. leaves' \in 0 .. MaxLeaves /\ leaves' # 0
      BY <3>1
    <3> QED
      BY <3>1, <3>2, Zenon
  <2>5. CASE ReturnToScreen /\ UNCHANGED questionVars
    BY <2>5 DEF ReturnToScreen, questionVars
  <2>6. CASE UNCHANGED <<type, asked, changes, shown, leaves>>
    BY <2>6
  <2>7. CASE Records
    BY <2>4, <2>5, <2>6, <2>7
       DEF Records, AudioNext, Start, Granted, Denied, GrantedInVain, Tick, Stop, Reset, Part, OnStop,
           LeaveAudio, ReturnToAudio, questionVars, screenVars
  <2>8. CASE Locates
    BY <2>4, <2>5, <2>6, <2>8
       DEF Locates, LocationNext, CaptureLocation, LocationError, Timeout, Sample, Clear,
           LeaveLocation, ReturnToLocation, questionVars, screenVars
  <2>9. CASE Turns
    BY <2>4, <2>5, <2>9 DEF Turns, LeaveSimple, ReturnToSimple
  <2>10. CASE UNCHANGED vars
    BY <2>6, <2>10 DEF vars, questionVars, screenVars
  <2> QED
    BY <2>1, <2>2, <2>3, <2>7, <2>8, <2>9, <2>10, WhoSteps
<1> QED
  BY <1>1, <1>2, PTL DEF Spec

-----------------------------------------------------------------------------
(* The location.                                                           *)

\* What makes the location widget tell the truth: a capture of it goes on while it
\* loads; while no two captures have crossed there is one, and none beside a location.
Capturing ==
    /\ locState = "done" => answer # None
    /\ locState = "loading" => Watching \cap mine # {}
    /\ ~crossed => \A c, d \in Watching : c = d
    /\ leaves = 0 => Watching \subseteq mine
    /\ ~crossed /\ leaves = 0 /\ answer # None => locState = "done" /\ Watching = {}

LocationInv ==
    /\ LocationTypeOK
    /\ IF asked /\ type = "LOCATION" THEN Capturing ELSE LocationInit
    /\ ~asked => answer = None

LEMMA LocationInitCaptures ==
  ASSUME LocationInit, answer = None
  PROVE  Capturing /\ LocationTypeOK
BY DEF LocationInit, Capturing, Watching, LocationTypeOK

LEMMA BestOfType ==
  ASSUME NEW b \in Accuracies \cup {None}, NEW accuracy \in Accuracies
  PROVE  BestOf(b, accuracy) \in Accuracies
BY DEF BestOf

\* The end of a capture, with a sample or without.
LEMMA FinishedCaptures ==
  ASSUME ScreenInv, LocationTypeOK, Capturing,
         NEW c \in Captures, capture[c] = "watching",
         NEW accuracy \in Accuracies \cup {None}, Finished(c, accuracy),
         UNCHANGED <<mine, crossed, shown, leaves>>
  PROVE  Capturing' /\ LocationTypeOK'
<1>1. Watching' = Watching \ {c} /\ c \in Watching
  BY DEF Finished, LocationTypeOK, Watching
<1>2. LocationTypeOK'
  BY DEF Finished, LocationTypeOK, Becomes
<1>3. accuracy # None => answer' # None
  BY LocationAssumption DEF Finished, Position
<1>4. CASE accuracy # None
  <2>1. locState' = IF c \in mine THEN "done" ELSE locState
    BY <1>4 DEF Finished, Becomes
  <2> QED
    BY <1>1, <1>2, <1>3, <1>4, <2>1 DEF Capturing
<1>5. CASE accuracy = None
  <2>1. answer' = answer /\ locState' = IF c \in mine THEN "error" ELSE locState
    BY <1>5 DEF Finished, Becomes
  <2> QED
    BY <1>1, <1>2, <2>1 DEF Capturing
<1> QED
  BY <1>4, <1>5

LEMMA LocationKept ==
  ASSUME ScreenInv, LocationTypeOK, Capturing, LocationNext
  PROVE  Capturing' /\ LocationTypeOK'
<1>1. ASSUME NEW c \in Captures, CaptureLocation(c)
      PROVE  Capturing' /\ LocationTypeOK'
  <2>1. Watching' = Watching \cup {c}
    BY <1>1 DEF CaptureLocation, LocationTypeOK, Watching
  <2>2. LocationTypeOK'
    BY <1>1 DEF CaptureLocation, LocationTypeOK
  <2>3. /\ locState' = "loading" /\ mine' = mine \cup {c}
        /\ crossed' = (crossed \/ Watching # {}) /\ answer' = answer /\ leaves' = leaves
        /\ ~(locState = "done" /\ answer # None)
    BY <1>1 DEF CaptureLocation, screenVars
  <2> QED
    BY <2>1, <2>2, <2>3 DEF Capturing, LocationTypeOK
<1>2. ASSUME NEW c \in Captures, LocationError(c)
      PROVE  Capturing' /\ LocationTypeOK'
  <2>1. Watching' = Watching /\ c \in Watching
    BY <1>2 DEF LocationError, Watching
  <2>2. /\ locState' = IF c \in mine THEN "error" ELSE locState
        /\ UNCHANGED <<mine, crossed, answer, leaves, capture, best>>
    BY <1>2 DEF LocationError, Becomes, screenVars
  <2> QED
    BY <2>1, <2>2 DEF Capturing, LocationTypeOK
<1>3. ASSUME NEW c \in Captures, Timeout(c)
      PROVE  Capturing' /\ LocationTypeOK'
  <2>1. best[c] \in Accuracies \cup {None}
    BY DEF LocationTypeOK
  <2> QED
    BY <1>3, <2>1, FinishedCaptures DEF Timeout
<1>4. ASSUME NEW c \in Captures, NEW accuracy \in Accuracies, Sample(c, accuracy)
      PROVE  Capturing' /\ LocationTypeOK'
  <2>1. BestOf(best[c], accuracy) \in Accuracies
    BY BestOfType DEF LocationTypeOK
  <2>2. CASE Finished(c, BestOf(best[c], accuracy))
    BY <1>4, <2>1, <2>2, FinishedCaptures DEF Sample
  <2>3. CASE /\ best' = [best EXCEPT ![c] = BestOf(best[c], accuracy)]
             /\ UNCHANGED <<answer, locState, capture>>
    <3>1. UNCHANGED <<mine, crossed, leaves>> /\ Watching' = Watching
      BY <1>4, <2>3 DEF Sample, Watching
    <3> QED
      BY <2>1, <2>3, <3>1 DEF Capturing, LocationTypeOK
  <2> QED
    BY <1>4, <2>2, <2>3 DEF Sample
<1>5. CASE Clear
  BY <1>5 DEF Clear, Capturing, LocationTypeOK, Watching
<1>6. CASE LeaveLocation
  <2>1. leaves' # 0
    BY <1>6, ScreenAssumption DEF LeaveLocation, LeaveScreen, ScreenInv
  <2> QED
    BY <1>6, <2>1
       DEF LeaveLocation, LeaveScreen, locationVars, Capturing, LocationTypeOK, Watching
<1>7. CASE ReturnToLocation
  <2>1. leaves # 0 /\ leaves' = leaves
    BY <1>7 DEF ReturnToLocation, ReturnToScreen, ScreenInv
  <2> QED
    BY <1>7, <2>1
       DEF ReturnToLocation, ReturnToScreen, Capturing, LocationTypeOK, Watching
<1> QED
  BY <1>1, <1>2, <1>3, <1>4, <1>5, <1>6, <1>7 DEF LocationNext

LEMMA LocationInvHolds == Spec => []LocationInv
<1>1. Init => LocationInv
  BY LocationInitCaptures DEF Init, ScreenInit, LocationInv
<1>2. ScreenInv /\ LocationInv /\ [Next]_vars => LocationInv'
  <2> SUFFICES ASSUME ScreenInv, LocationInv, [Next]_vars PROVE LocationInv'
    OBVIOUS
  <2>a. ASSUME UNCHANGED locationVars PROVE LocationTypeOK' /\ (LocationInit' <=> LocationInit)
    BY <2>a DEF locationVars, LocationInv, LocationTypeOK, LocationInit
  <2>1. CASE Builds
    BY <2>1, <2>a, BuildsAt DEF LocationInv, screenVars
  <2>2. CASE Ask
    <3>1. LocationInit /\ answer = None /\ asked' = TRUE /\ type' = type
      BY <2>2 DEF Ask, LocationInv
    <3>2. UNCHANGED locationVars
      BY <2>2 DEF Ask
    <3>3. CASE type = "LOCATION"
      <4>1. answer' = None
        BY <2>2, <3>1, <3>3 DEF Ask
      <4>2. Capturing'
        BY <3>1, <3>2, <4>1, LocationInitCaptures
           DEF locationVars, LocationInit, Capturing, Watching
      <4> QED
        BY <2>a, <3>1, <3>2, <3>3, <4>2 DEF LocationInv
    <3>4. CASE type # "LOCATION"
      BY <2>a, <3>1, <3>2, <3>4 DEF LocationInv
    <3> QED
      BY <3>3, <3>4
  <2>3. CASE GivesAnswer
    BY <2>3, <2>a, AnswersAt DEF LocationInv
  <2>4. CASE Records
    BY <2>4, <2>a DEF Records, LocationInv, questionVars, Voice
  <2>5. CASE Locates
    BY <2>5, LocationKept DEF Locates, LocationInv, questionVars
  <2>6. CASE Turns
    BY <2>6, <2>a DEF Turns, LeaveSimple, ReturnToSimple, LocationInv, questionVars
  <2>7. CASE UNCHANGED vars
    BY <2>7, <2>a DEF vars, questionVars, screenVars, locationVars, LocationInv, Capturing, Watching
  <2> QED
    BY <2>1, <2>2, <2>3, <2>4, <2>5, <2>6, <2>7, WhoSteps
<1> QED
  BY <1>1, <1>2, ScreenInvHolds, PTL DEF Spec

\* What the location widget says is so, through errors, retries, late timers and
\* positions, for any number of captures.
THEOREM CaptureTruthful == Spec => []CaptureShown
<1>1. ScreenInv /\ LocationInv => CaptureShown
  BY ScreenAssumption DEF ScreenInv, LocationInv, LocationInit, Capturing, CaptureShown
<1> QED
  BY <1>1, ScreenInvHolds, LocationInvHolds, PTL
-----------------------------------------------------------------------------
(* The recorder.                                                           *)

\* What holds until the microphone is asked for twice: one recorder at a time, the
\* one stop() will stop, and a start that waits for the microphone with none.  Until
\* the widget is reset too soon, the array has its parts alone.
OneRecorder ==
    /\ asking <= 1
    /\ asking = 1 => state = "idle" /\ In("recording") = {}
    /\ In("recording") \subseteq {mrRef}
    /\ shown /\ state # "recording" => In("recording") = {}

OwnParts ==
    /\ asking = 1 => In("stopping") = {}
    /\ chunks \cup In("stopping") \subseteq {mrRef}
    /\ shown /\ state = "idle" => In("stopping") = {}
    /\ answer # None => answer.parts = {answer.by}

RecorderInv ==
    /\ AudioTypeOK
    /\ answer \in Recording \cup {None}
    /\ \E n \in Nat : Made = 1 .. n /\ n + asking <= Cardinality(Recorders)
    /\ shown /\ state = "recording" => mrRef \in Recorders /\ recorder[mrRef] = "recording"
    /\ DoneHasRecording
    /\ ~twice => OneRecorder
    /\ ~twice /\ ~hurried => OwnParts

VoiceInv ==
    /\ IF asked /\ type \in Voice THEN RecorderInv ELSE AudioInit
    /\ ~asked => answer = None

LEMMA RecorderCount == Cardinality(Recorders) \in Nat /\ Recorders = 1 .. Cardinality(Recorders)
BY AudioAssumption, FS_CardinalityType

LEMMA AudioInitTypes ==
  ASSUME AudioInit
  PROVE  AudioTypeOK /\ Made = {} /\ \A phase \in {"recording", "stopping"} : In(phase) = {}
<1>1. /\ state = "idle" /\ asking = 0 /\ recorder = [r \in Recorders |-> "none"]
      /\ mrRef = None /\ timerRef = None /\ chunks = {} /\ ticking = {} /\ seconds = 0
  BY DEF AudioInit
<1>2. stray \in BOOLEAN /\ twice \in BOOLEAN /\ hurried \in BOOLEAN
  BY Zenon DEF AudioInit
<1>3. AudioTypeOK
  BY <1>1, <1>2, RecorderCount, AudioAssumption DEF AudioTypeOK
<1> QED
  BY <1>1, <1>3 DEF Made, In

LEMMA AudioInitRecords ==
  ASSUME AudioInit, answer = None
  PROVE  RecorderInv
<1>1. Made = 1 .. 0 /\ 0 + asking <= Cardinality(Recorders)
  <2>1. asking = 0
    BY DEF AudioInit
  <2>2. Made = {}
    BY AudioInitTypes
  <2> QED
    BY <2>1, <2>2, RecorderCount
<1>2. state = "idle" /\ asking = 0 /\ chunks = {}
  BY DEF AudioInit
<1>3. AudioTypeOK /\ In("recording") = {} /\ In("stopping") = {}
  BY AudioInitTypes
<1>4. OneRecorder /\ OwnParts /\ DoneHasRecording
  BY <1>2, <1>3 DEF OneRecorder, OwnParts, DoneHasRecording
<1> QED
  BY <1>1, <1>2, <1>3, <1>4 DEF RecorderInv

\* A step that makes no recorder and ends none.
LEMMA SameMade ==
  ASSUME RecorderInv, asking' \in Nat, asking' <= asking, Made' = Made
  PROVE  \E n \in Nat : Made' = 1 .. n /\ n + asking' <= Cardinality(Recorders)
<1>1. PICK n \in Nat : Made = 1 .. n /\ n + asking <= Cardinality(Recorders)
  BY DEF RecorderInv
<1>2. n + asking' <= Cardinality(Recorders)
  BY <1>1, RecorderCount DEF RecorderInv, AudioTypeOK
<1> QED
  BY <1>1, <1>2

LEMMA StartKeeps ==
  ASSUME RecorderInv, Start
  PROVE  RecorderInv'
<1>1. /\ shown /\ state = "idle" /\ asking' = asking + 1
      /\ twice' = (twice \/ asking > 0)
      /\ UNCHANGED <<stray, state, recorder, mrRef, chunks, timerRef, ticking, seconds, hurried,
                     shown, answer, leaves>>
      /\ asking + Cardinality(Made) < Cardinality(Recorders)
  BY DEF Start, screenVars
<1>2. asking \in Nat
  BY RecorderCount DEF RecorderInv, AudioTypeOK
<1>3. Made' = Made /\ \A phase \in {"recording", "stopping"} : In(phase)' = In(phase)
  BY <1>1 DEF Made, In
<1>4. PICK n \in Nat : Made = 1 .. n /\ n + asking <= Cardinality(Recorders)
  BY DEF RecorderInv
<1>5. Cardinality(Made) = n
  <2>1. Cardinality(1 .. n) = n
    BY FS_Interval
  <2> QED
    BY <1>4, <2>1
<1>6. n + asking' <= Cardinality(Recorders) /\ asking' \in 0 .. Cardinality(Recorders)
  BY <1>1, <1>2, <1>4, <1>5, RecorderCount
<1>7. AudioTypeOK'
  BY <1>1, <1>6 DEF RecorderInv, AudioTypeOK
<1>8. DoneHasRecording'
  BY <1>1 DEF DoneHasRecording
<1>9. ~twice' => asking = 0 /\ ~twice
  <2>1. ~twice' => ~twice /\ ~(asking > 0)
    BY <1>1, Zenon
  <2>2. ~(asking > 0) => asking = 0
    BY <1>2
  <2> QED
    BY <2>1, <2>2
<1>10. ~twice' => OneRecorder'
  BY <1>1, <1>3, <1>9 DEF RecorderInv, OneRecorder
<1>11. ~twice' /\ ~hurried' => OwnParts'
  BY <1>1, <1>3, <1>9 DEF RecorderInv, OwnParts
<1> QED
  BY <1>1, <1>3, <1>4, <1>6, <1>7, <1>8, <1>10, <1>11 DEF RecorderInv

LEMMA GrantedKeeps ==
  ASSUME RecorderInv, Granted
  PROVE  RecorderInv'
<1>1. PICK n \in Nat : Made = 1 .. n /\ n + asking <= Cardinality(Recorders)
  BY DEF RecorderInv
<1>2. asking \in Nat \ {0} /\ asking' = asking - 1
  BY RecorderCount DEF Granted, RecorderInv, AudioTypeOK
<1>3. Cardinality(Made) + 1 = n + 1
  <2>1. Cardinality(1 .. n) = n
    BY FS_Interval
  <2> QED
    BY <1>1, <2>1
<1>4. PICK r : r = n + 1
  OBVIOUS
<1>5. /\ r \in Recorders /\ r \notin Made
      /\ n + 1 + asking' <= Cardinality(Recorders)
  BY <1>1, <1>2, <1>4, RecorderCount
<1>6. /\ recorder' = [recorder EXCEPT ![r] = "recording"]
      /\ mrRef' = r /\ timerRef' = r /\ chunks' = {}
      /\ ticking' = ticking \cup {r}
      /\ state' = IF shown THEN "recording" ELSE state
      /\ seconds' = 0
      /\ UNCHANGED <<stray, twice, hurried, answer, shown, leaves>>
  BY <1>3, <1>4 DEF Granted, screenVars
<1>7. recorder[r] = "none" /\ recorder \in [Recorders -> {"none", "recording", "left", "stopping", "over"}]
  BY <1>5 DEF Made, In, RecorderInv, AudioTypeOK
<1>8. /\ Made' = Made \cup {r}
      /\ In("recording")' = In("recording") \cup {r}
      /\ In("stopping")' = In("stopping")
  BY <1>5, <1>6, <1>7 DEF Made, In
<1>9. Made' = 1 .. (n + 1)
  BY <1>1, <1>4, <1>8
<1>10. AudioTypeOK'
  BY <1>2, <1>5, <1>6, <1>7, RecorderCount, AudioAssumption DEF RecorderInv, AudioTypeOK
<1>11. DoneHasRecording'
  BY <1>6, <1>8 DEF RecorderInv, DoneHasRecording
<1>12. ~twice' => OneRecorder'
  BY <1>2, <1>6, <1>8 DEF RecorderInv, OneRecorder
<1>13. ~twice' /\ ~hurried' => OwnParts'
  BY <1>2, <1>6, <1>8 DEF RecorderInv, OneRecorder, OwnParts
<1>14. mrRef' \in Recorders /\ recorder'[mrRef'] = "recording"
  BY <1>5, <1>6, <1>7
<1>15. n + 1 \in Nat /\ answer' \in Recording \cup {None}
  BY <1>6 DEF RecorderInv
<1> QED
  BY <1>5, <1>9, <1>10, <1>11, <1>12, <1>13, <1>14, <1>15 DEF RecorderInv

LEMMA DeniedKeeps ==
  ASSUME RecorderInv, Denied
  PROVE  RecorderInv'
<1>1. /\ asking' = asking - 1 /\ asking \in Nat \ {0}
      /\ UNCHANGED <<stray, state, recorder, mrRef, chunks, timerRef, ticking, seconds, twice,
                     hurried, shown, answer, leaves>>
  BY RecorderCount DEF Denied, screenVars, RecorderInv, AudioTypeOK
<1>2. Made' = Made /\ \A phase \in {"recording", "stopping"} : In(phase)' = In(phase)
  BY <1>1 DEF Made, In
<1>3. AudioTypeOK'
  BY <1>1, RecorderCount DEF RecorderInv, AudioTypeOK
<1>4. DoneHasRecording' /\ (~twice' => OneRecorder') /\ (~twice' /\ ~hurried' => OwnParts')
  BY <1>1, <1>2 DEF RecorderInv, DoneHasRecording, OneRecorder, OwnParts
<1>5. \E n \in Nat : Made' = 1 .. n /\ n + asking' <= Cardinality(Recorders)
  BY <1>1, <1>2, SameMade
<1> QED
  BY <1>1, <1>3, <1>4, <1>5 DEF RecorderInv

LEMMA GrantedInVainKeeps ==
  ASSUME RecorderInv, GrantedInVain
  PROVE  RecorderInv'
<1>1. /\ asking' = asking - 1 /\ asking \in Nat \ {0}
      /\ stray' = TRUE /\ (chunks' = chunks \/ chunks' = {})
      /\ UNCHANGED <<state, recorder, mrRef, timerRef, ticking, seconds, twice,
                     hurried, shown, answer, leaves>>
  BY RecorderCount DEF GrantedInVain, screenVars, RecorderInv, AudioTypeOK
<1>2. Made' = Made /\ \A phase \in {"recording", "stopping"} : In(phase)' = In(phase)
  BY <1>1 DEF Made, In
<1>3. AudioTypeOK'
  BY <1>1, RecorderCount DEF RecorderInv, AudioTypeOK
<1>4. DoneHasRecording' /\ (~twice' => OneRecorder') /\ (~twice' /\ ~hurried' => OwnParts')
  BY <1>1, <1>2 DEF RecorderInv, DoneHasRecording, OneRecorder, OwnParts
<1>5. \E n \in Nat : Made' = 1 .. n /\ n + asking' <= Cardinality(Recorders)
  BY <1>1, <1>2, SameMade
<1> QED
  BY <1>1, <1>3, <1>4, <1>5 DEF RecorderInv

LEMMA PartKeeps ==
  ASSUME RecorderInv, NEW r \in Recorders, Part(r)
  PROVE  RecorderInv'
<1>1. /\ recorder[r] = "recording" /\ chunks' = chunks \cup {r}
      /\ UNCHANGED <<stray, state, asking, recorder, mrRef, timerRef, ticking, seconds, twice,
                     hurried, shown, answer, leaves>>
  BY DEF Part, screenVars
<1>2. /\ Made' = Made /\ r \in In("recording")
      /\ \A phase \in {"recording", "stopping"} : In(phase)' = In(phase)
  BY <1>1 DEF Made, In
<1>3. AudioTypeOK'
  BY <1>1 DEF RecorderInv, AudioTypeOK
<1>4. DoneHasRecording' /\ (~twice' => OneRecorder') /\ (~twice' /\ ~hurried' => OwnParts')
  BY <1>1, <1>2 DEF RecorderInv, DoneHasRecording, OneRecorder, OwnParts
<1> QED
  BY <1>1, <1>2, <1>3, <1>4 DEF RecorderInv

LEMMA TickKeeps ==
  ASSUME RecorderInv, Tick
  PROVE  RecorderInv'
<1>1. /\ seconds < MaxSeconds /\ seconds' = seconds + 1
      /\ UNCHANGED <<stray, state, asking, recorder, mrRef, chunks, timerRef, ticking, twice,
                     hurried, shown, answer, leaves>>
  BY DEF Tick, screenVars
<1>2. Made' = Made /\ \A phase \in {"recording", "stopping"} : In(phase)' = In(phase)
  BY <1>1 DEF Made, In
<1>3. AudioTypeOK'
  BY <1>1, AudioAssumption DEF RecorderInv, AudioTypeOK
<1>4. DoneHasRecording' /\ (~twice' => OneRecorder') /\ (~twice' /\ ~hurried' => OwnParts')
  BY <1>1, <1>2 DEF RecorderInv, DoneHasRecording, OneRecorder, OwnParts
<1> QED
  BY <1>1, <1>2, <1>3, <1>4 DEF RecorderInv

LEMMA StopKeeps ==
  ASSUME RecorderInv, Stop
  PROVE  RecorderInv'
<1>1. /\ shown /\ state = "recording" /\ state' = "done"
      /\ recorder' = [recorder EXCEPT ![mrRef] = "stopping"]
      /\ ticking' = ticking \ {timerRef} /\ timerRef' = None
      /\ UNCHANGED <<stray, asking, mrRef, chunks, seconds, twice, hurried, shown, answer, leaves>>
  BY DEF Stop, screenVars
<1>2. /\ mrRef \in Recorders /\ recorder[mrRef] = "recording"
      /\ recorder \in [Recorders -> {"none", "recording", "left", "stopping", "over"}]
  BY <1>1 DEF RecorderInv, AudioTypeOK
<1>3. /\ Made' = Made
      /\ In("recording")' = In("recording") \ {mrRef}
      /\ In("stopping")' = In("stopping") \cup {mrRef}
  BY <1>1, <1>2 DEF Made, In
<1>4. AudioTypeOK'
  BY <1>1, <1>2 DEF RecorderInv, AudioTypeOK
<1>5. DoneHasRecording'
  BY <1>3 DEF DoneHasRecording
<1>6. ~twice' => OneRecorder'
  BY <1>1, <1>3, RecorderCount DEF RecorderInv, AudioTypeOK, OneRecorder
<1>7. ~twice' /\ ~hurried' => OwnParts'
  BY <1>1, <1>3 DEF RecorderInv, OneRecorder, OwnParts
<1> QED
  BY <1>1, <1>3, <1>4, <1>5, <1>6, <1>7 DEF RecorderInv

LEMMA OnStopKeeps ==
  ASSUME RecorderInv, NEW r \in Recorders, OnStop(r)
  PROVE  RecorderInv'
<1>1. /\ recorder[r] = "stopping" /\ recorder' = [recorder EXCEPT ![r] = "over"]
      /\ chunks' = chunks \cup {r}
      /\ answer' = [by |-> r, parts |-> chunks \cup {r}, seconds |-> seconds]
      /\ UNCHANGED <<stray, state, asking, mrRef, timerRef, ticking, seconds, twice, hurried,
                     shown, leaves>>
  BY DEF OnStop, Parts
<1>2. /\ recorder \in [Recorders -> {"none", "recording", "left", "stopping", "over"}]
      /\ chunks \subseteq Recorders /\ seconds \in 0 .. MaxSeconds
  BY DEF RecorderInv, AudioTypeOK
<1>3. /\ Made' = Made /\ r \in In("stopping")
      /\ In("recording")' = In("recording")
      /\ In("stopping")' = In("stopping") \ {r}
  BY <1>1, <1>2 DEF Made, In
<1>4. AudioTypeOK'
  BY <1>1, <1>2 DEF RecorderInv, AudioTypeOK
<1>5. answer' \in Recording
  BY <1>1, <1>2 DEF Recording
<1>6. answer' # None /\ answer'.by = r /\ answer'.parts = chunks \cup {r}
  BY <1>1, <1>5, RecordingAssumption
<1>7. DoneHasRecording' /\ (~twice' => OneRecorder')
  BY <1>1, <1>3, <1>6 DEF RecorderInv, DoneHasRecording, OneRecorder
<1>8. ~twice' /\ ~hurried' => OwnParts'
  BY <1>1, <1>3, <1>6 DEF RecorderInv, OwnParts
<1>9. shown' /\ state' = "recording" => mrRef' \in Recorders /\ recorder'[mrRef'] = "recording"
  BY <1>1, <1>2 DEF RecorderInv
<1> QED
  BY <1>1, <1>3, <1>4, <1>5, <1>7, <1>8, <1>9 DEF RecorderInv

LEMMA ResetKeeps ==
  ASSUME RecorderInv, Reset
  PROVE  RecorderInv'
<1>1. /\ shown /\ state = "done" /\ answer' = None /\ state' = "idle" /\ seconds' = 0
      /\ hurried' = (hurried \/ In("stopping") # {})
      /\ UNCHANGED <<stray, asking, recorder, mrRef, chunks, timerRef, ticking, twice, shown,
                     leaves>>
  BY DEF Reset
<1>2. Made' = Made /\ \A phase \in {"recording", "stopping"} : In(phase)' = In(phase)
  BY <1>1 DEF Made, In
<1>3. AudioTypeOK'
  BY <1>1, AudioAssumption DEF RecorderInv, AudioTypeOK
<1>4. DoneHasRecording' /\ (~twice' => OneRecorder') /\ (~twice' /\ ~hurried' => OwnParts')
  BY <1>1, <1>2 DEF RecorderInv, DoneHasRecording, OneRecorder, OwnParts
<1> QED
  BY <1>1, <1>2, <1>3, <1>4 DEF RecorderInv

LEMMA LeaveAudioKeeps ==
  ASSUME RecorderInv, LeaveAudio
  PROVE  RecorderInv'
<1>1. /\ shown' = FALSE /\ ticking' = ticking \ {timerRef} /\ timerRef' = None
      /\ UNCHANGED <<stray, state, asking, recorder, mrRef, chunks, seconds, twice, hurried, answer>>
  BY DEF LeaveAudio, LeaveScreen
<1>2. Made' = Made /\ \A phase \in {"recording", "stopping"} : In(phase)' = In(phase)
  BY <1>1 DEF Made, In
<1>3. AudioTypeOK'
  BY <1>1 DEF RecorderInv, AudioTypeOK
<1>4. DoneHasRecording' /\ (~twice' => OneRecorder') /\ (~twice' /\ ~hurried' => OwnParts')
  BY <1>1, <1>2 DEF RecorderInv, DoneHasRecording, OneRecorder, OwnParts
<1> QED
  BY <1>1, <1>2, <1>3, <1>4 DEF RecorderInv

LEMMA ReturnToAudioKeeps ==
  ASSUME RecorderInv, ReturnToAudio
  PROVE  RecorderInv'
<1>1. /\ asking = 0 /\ In("stopping") = {}
      /\ state' = IF answer = None THEN "idle" ELSE "done"
      /\ seconds' = IF answer = None THEN 0 ELSE answer.seconds
      /\ mrRef' = None /\ timerRef' = None /\ chunks' = {} /\ ticking' = {}
      /\ recorder' = [r \in Recorders |->
                        IF recorder[r] = "recording" THEN "left" ELSE recorder[r]]
      /\ UNCHANGED <<stray, asking, twice, hurried, answer>>
  BY DEF ReturnToAudio, ReturnToScreen
<1>2. recorder \in [Recorders -> {"none", "recording", "left", "stopping", "over"}]
  BY DEF RecorderInv, AudioTypeOK
<1>3. Made' = Made /\ In("recording")' = {} /\ In("stopping")' = {}
  BY <1>1, <1>2 DEF Made, In
<1>4. seconds' \in 0 .. MaxSeconds
  BY <1>1, AudioAssumption DEF RecorderInv, Recording
<1>5. AudioTypeOK'
  BY <1>1, <1>2, <1>4 DEF RecorderInv, AudioTypeOK
<1>6. DoneHasRecording' /\ (~twice' => OneRecorder') /\ (~twice' /\ ~hurried' => OwnParts')
  BY <1>1, <1>3 DEF RecorderInv, DoneHasRecording, OneRecorder, OwnParts
<1> QED
  BY <1>1, <1>3, <1>5, <1>6 DEF RecorderInv

LEMMA VoiceInvHolds == Spec => []VoiceInv
<1>1. Init => VoiceInv
  BY DEF Init, ScreenInit, VoiceInv
<1>2. VoiceInv /\ [Next]_vars => VoiceInv'
  <2> SUFFICES ASSUME VoiceInv, [Next]_vars PROVE VoiceInv'
    OBVIOUS
  <2>a. ASSUME UNCHANGED audioVars PROVE AudioInit' <=> AudioInit
    BY <2>a DEF audioVars, AudioInit
  <2>1. CASE Builds
    BY <2>1, <2>a, BuildsAt DEF VoiceInv, screenVars
  <2>2. CASE Ask
    <3>1. AudioInit /\ answer = None /\ asked' = TRUE /\ type' = type /\ UNCHANGED audioVars
      BY <2>2 DEF Ask, VoiceInv
    <3>2. AudioInit'
      BY <2>a, <3>1
    <3>3. CASE type \in Voice
      <4>1. answer' = None
        BY <2>2, <3>1, <3>3 DEF Ask, Voice
      <4>2. RecorderInv'
        <5>1. RecorderInv
          BY <3>1, AudioInitRecords
        <5>2. UNCHANGED <<shown, answer, audioVars>>
          BY <2>2, <3>1, <4>1 DEF Ask
        <5> QED
          BY <5>1, <5>2
             DEF audioVars, RecorderInv, AudioTypeOK, DoneHasRecording, OneRecorder,
                 OwnParts, Made, In
      <4> QED
        BY <3>1, <3>3, <4>2 DEF VoiceInv
    <3>4. CASE type \notin Voice
      BY <3>1, <3>2, <3>4 DEF VoiceInv
    <3> QED
      BY <3>3, <3>4
  <2>3. CASE GivesAnswer
    BY <2>3, <2>a, AnswersAt DEF VoiceInv
  <2>4. CASE Records
    <3>1. RecorderInv /\ AudioNext /\ asked' = asked /\ type' = type /\ asked /\ type \in Voice
      BY <2>4 DEF Records, VoiceInv, questionVars
    <3>2. RecorderInv'
      BY <3>1, StartKeeps, GrantedKeeps, DeniedKeeps, GrantedInVainKeeps, PartKeeps, TickKeeps, StopKeeps,
         OnStopKeeps, ResetKeeps, LeaveAudioKeeps, ReturnToAudioKeeps DEF AudioNext
    <3> QED
      BY <3>1, <3>2 DEF VoiceInv
  <2>5. CASE Locates
    BY <2>5, <2>a DEF Locates, VoiceInv, questionVars, Voice
  <2>6. CASE Turns
    BY <2>6, <2>a DEF Turns, LeaveSimple, ReturnToSimple, VoiceInv, questionVars
  <2>7. CASE UNCHANGED vars
    BY <2>7, <2>a
       DEF vars, questionVars, screenVars, audioVars, VoiceInv, RecorderInv, AudioTypeOK,
           DoneHasRecording, OneRecorder, OwnParts, Made, In
  <2> QED
    BY <2>1, <2>2, <2>3, <2>4, <2>5, <2>6, <2>7, WhoSteps
<1> QED
  BY <1>1, <1>2, PTL DEF Spec

\* Recordings hold their own parts, "Recorded" comes with a recording, and the
\* microphone is given back, for any number of recorders, whenever the callbacks come.
THEOREM RecordingsKeptApart == Spec => []RecordingsApart
<1>1. ScreenInv /\ VoiceInv => RecordingsApart
  <2> SUFFICES ASSUME ScreenInv, VoiceInv PROVE RecordingsApart
    OBVIOUS
  <2>1. CASE AudioInit
    <3>1. Made = {} /\ In("recording") = {} /\ state = "idle"
      BY <2>1, AudioInitTypes DEF AudioInit
    <3> QED
      BY <3>1 DEF RecordingsApart, RecordingIsOwn, DoneHasRecording, MicrophoneReleased
  <2>2. CASE RecorderInv
    <3>1. leaves = 0 /\ state = "recording" => In("recording") # {}
      BY <2>2 DEF RecorderInv, ScreenInv, In
    <3> QED
      BY <2>2, <3>1
         DEF RecorderInv, OneRecorder, OwnParts, ScreenInv, RecordingsApart,
             RecordingIsOwn, MicrophoneReleased
  <2> QED
    BY <2>1, <2>2 DEF VoiceInv
<1> QED
  BY <1>1, ScreenInvHolds, VoiceInvHolds, PTL
-----------------------------------------------------------------------------
(* The options and what is answered.                                       *)

Numbers == {"min", "max", "step", "allowCamera"}
Ids == {"choices"}

\* The options stored: choices have ids that differ, below the next one to be given out.
OptionsInv ==
    /\ DOMAIN options \subseteq DOMAIN Settings(type)
    /\ \A o \in DOMAIN options \cap Ids :
          /\ options[o] \in Seq(Nat) /\ IsInjective(options[o])
          /\ ~asked => \A i \in DOMAIN options[o] : options[o][i] < 10 + changes
    /\ \A o \in DOMAIN options \cap Numbers : options[o] \in Nat

\* A list of ids before any was added.
LEMMA DefaultList ==
  ASSUME NEW list, list = <<1, 2>> \/ list = <<1, 2, 3>>
  PROVE  /\ list \in Seq(Nat) /\ IsInjective(list)
         /\ \A i \in DOMAIN list : list[i] < 10
<1>1. CASE list = <<1, 2>>
  <2>1. list \in Seq(Nat) /\ DOMAIN list = 1 .. 2 /\ list[1] = 1 /\ list[2] = 2
    BY <1>1
  <2>2. \A i \in 1 .. 2 : list[i] = i
    BY <2>1
  <2> QED
    BY <2>1, <2>2 DEF IsInjective
<1>2. CASE list = <<1, 2, 3>>
  <2>1. /\ list \in Seq(Nat) /\ DOMAIN list = 1 .. 3
        /\ list[1] = 1 /\ list[2] = 2 /\ list[3] = 3
    BY <1>2
  <2>2. \A i \in 1 .. 3 : list[i] = i
    BY <2>1
  <2> QED
    BY <2>1, <2>2 DEF IsInjective
<1> QED
  BY <1>1, <1>2

LEMMA DefaultSettings ==
  ASSUME type \in Types, NEW o \in DOMAIN Settings(type)
  PROVE  /\ o \in Ids => Settings(type)[o] = <<1, 2>> \/ Settings(type)[o] = <<1, 2, 3>>
         /\ o \in Numbers => Settings(type)[o] \in Int
<1> USE DEF Settings, Ids, Numbers, Undefined
<1>1. CASE type \in Choice
  <2>1. Settings(type) = [choices |-> <<1, 2>>]
    BY <1>1 DEF Choice, Voice
  <2> QED
    BY <2>1
<1>2. CASE type = "MATRIX"
  BY <1>2 DEF Grid, Voice, Choice
<1>3. CASE type = "RANKING"
  BY <1>3 DEF Items, Voice, Choice
<1>4. CASE type \in Voice
  BY <1>4 DEF Voice, Choice, VoiceSettings
<1>5. CASE type \in {"LIKERT", "SLIDER"}
  BY <1>5 DEF Scale, SliderSettings, Voice, Choice
<1>6. CASE type \in {"STAR_RATING", "YES_NO", "NUMERIC", "FILE_UPLOAD", "IMAGE_UPLOAD"}
  BY <1>6 DEF Voice, Choice
<1>7. CASE type \in Types \ (Choice \cup Voice \cup {"MATRIX", "RANKING", "LIKERT", "SLIDER",
                   "STAR_RATING", "YES_NO", "NUMERIC", "FILE_UPLOAD", "IMAGE_UPLOAD"})
  BY <1>7 DEF NoOptions, Voice, Choice
<1> QED
  BY <1>1, <1>2, <1>3, <1>4, <1>5, <1>6, <1>7

\* A list without one of its entries.
LEMMA WithoutFacts ==
  ASSUME NEW S, NEW list \in Seq(S), NEW i \in DOMAIN list
  PROVE  /\ WithoutEntry(list, i) \in Seq(S)
         /\ IsInjective(list) => IsInjective(WithoutEntry(list, i))
         /\ \A j \in DOMAIN WithoutEntry(list, i) :
               \E k \in DOMAIN list : WithoutEntry(list, i)[j] = list[k]
<1>1. /\ Len(list) \in Nat /\ DOMAIN list = 1 .. Len(list) /\ i \in 1 .. Len(list)
      /\ \A j \in 1 .. Len(list) : list[j] \in S
  OBVIOUS
<1> DEFINE front == SubSeq(list, 1, i - 1)
           back == SubSeq(list, i + 1, Len(list))
<1>2. /\ front \in Seq(S) /\ Len(front) = i - 1
      /\ \A j \in 1 .. i - 1 : front[j] = list[j]
  BY <1>1
<1>3. /\ back \in Seq(S) /\ Len(back) = Len(list) - i
      /\ \A j \in 1 .. Len(list) - i : back[j] = list[i + j]
  <2>1. i + 1 \in Int /\ Len(list) \in Int /\ Len(list) - (i + 1) + 1 = Len(list) - i
        /\ Len(list) - i \in Nat
    BY <1>1
  <2>2. ASSUME NEW j \in (i + 1) .. Len(list) PROVE list[j] \in S
    BY <1>1
  <2>3. /\ back \in Seq(S) /\ Len(back) = IF i + 1 <= Len(list) THEN Len(list) - i ELSE 0
        /\ \A j \in 1 .. Len(list) - i : back[j] = list[i + 1 + j - 1]
    BY <2>1, <2>2, SubSeqProperties
  <2>4. \A j \in 1 .. Len(list) - i : i + 1 + j - 1 = i + j
    BY <2>1
  <2>5. i + 1 <= Len(list) \/ Len(list) - i = 0
    BY <1>1
  <2> QED
    BY <2>3, <2>4, <2>5
<1>a. /\ i \in Nat \ {0} /\ i <= Len(list)
  BY <1>1
<1> HIDE DEF front, back
<1>4. /\ front \o back \in Seq(S) /\ Len(front \o back) = Len(list) - 1
      /\ \A j \in 1 .. Len(list) - 1 :
            (front \o back)[j] = IF j < i THEN list[j] ELSE list[j + 1]
  <2>1. /\ front \o back \in Seq(S) /\ Len(front \o back) = Len(front) + Len(back)
        /\ \A j \in 1 .. Len(front) + Len(back) :
              (front \o back)[j] = IF j <= Len(front) THEN front[j] ELSE back[j - Len(front)]
    BY <1>2, <1>3
  <2>2. Len(front) + Len(back) = Len(list) - 1
    BY <1>1, <1>2, <1>3
  <2>3. ASSUME NEW j \in 1 .. Len(list) - 1, j < i
        PROVE  (front \o back)[j] = list[j]
    BY <1>1, <1>2, <2>1, <2>2, <2>3
  <2>4. ASSUME NEW j \in 1 .. Len(list) - 1, ~(j < i)
        PROVE  (front \o back)[j] = list[j + 1]
    <3>1. j - (i - 1) \in 1 .. Len(list) - i /\ i + (j - (i - 1)) = j + 1
      BY <1>1, <2>4
    <3>2. /\ ~(j <= Len(front)) /\ j - Len(front) = j - (i - 1)
          /\ j \in 1 .. Len(front) + Len(back)
      BY <1>1, <1>2, <2>2, <2>4
    <3>3. (front \o back)[j] = back[j - (i - 1)]
      BY <2>1, <3>2
    <3> QED
      BY <1>3, <3>1, <3>3
  <2> QED
    BY <2>1, <2>2, <2>3, <2>4
<1>5. WithoutEntry(list, i) = front \o back
  BY DEF WithoutEntry, front, back
<1>6. DOMAIN (front \o back) = 1 .. Len(list) - 1
  BY <1>4
<1>7. IsInjective(list) => IsInjective(front \o back)
  <2> SUFFICES ASSUME IsInjective(list), NEW j \in 1 .. Len(list) - 1,
                      NEW k \in 1 .. Len(list) - 1, (front \o back)[j] = (front \o back)[k]
               PROVE  j = k
    BY <1>6 DEF IsInjective
  <2>1. PICK p \in 1 .. Len(list) : /\ p = IF j < i THEN j ELSE j + 1
                                   /\ (front \o back)[j] = list[p]
    <3>1. j \in 1 .. Len(list) /\ j + 1 \in 1 .. Len(list)
      BY <1>1
    <3> QED
      BY <1>4, <3>1
  <2>2. PICK q \in 1 .. Len(list) : /\ q = IF k < i THEN k ELSE k + 1
                                   /\ (front \o back)[k] = list[q]
    <3>1. k \in 1 .. Len(list) /\ k + 1 \in 1 .. Len(list)
      BY <1>1
    <3> QED
      BY <1>4, <3>1
  <2>3. p = q
    BY <1>1, <2>1, <2>2 DEF IsInjective
  <2>4. i \in Nat /\ j \in Nat /\ k \in Nat
    BY <1>1
  <2> QED
    BY <2>1, <2>2, <2>3, <2>4
<1>8. ASSUME NEW j \in 1 .. Len(list) - 1
      PROVE  \E k \in DOMAIN list : (front \o back)[j] = list[k]
  <2>1. j \in 1 .. Len(list) /\ j + 1 \in 1 .. Len(list)
    BY <1>1
  <2> QED
    BY <1>1, <1>4, <2>1
<1> QED
  BY <1>4, <1>5, <1>6, <1>7, <1>8

\* An entry that is not there yet.
LEMMA AppendFacts ==
  ASSUME NEW S, NEW list \in Seq(S), NEW new \in S,
         \A i \in DOMAIN list : list[i] # new
  PROVE  /\ Append(list, new) \in Seq(S)
         /\ IsInjective(list) => IsInjective(Append(list, new))
         /\ \A j \in DOMAIN Append(list, new) :
               Append(list, new)[j] = new
               \/ \E k \in DOMAIN list : Append(list, new)[j] = list[k]
<1>1. /\ Len(list) \in Nat /\ DOMAIN list = 1 .. Len(list)
      /\ Append(list, new) \in Seq(S) /\ DOMAIN Append(list, new) = 1 .. Len(list) + 1
      /\ \A j \in 1 .. Len(list) : Append(list, new)[j] = list[j]
      /\ Append(list, new)[Len(list) + 1] = new
  OBVIOUS
<1>2. \A j \in 1 .. Len(list) + 1 : j \in 1 .. Len(list) \/ j = Len(list) + 1
  BY <1>1
<1> QED
  BY <1>1, <1>2 DEF IsInjective

\* The list shown, stored or not.
LEMMA ListShown ==
  ASSUME ScreenInv, OptionsInv, ~asked, NEW o \in DOMAIN Settings(type) \cap Ids
  PROVE  LET list == Value(options, Settings(type), o)
         IN  /\ list \in Seq(Nat) /\ IsInjective(list)
             /\ \A i \in DOMAIN list : list[i] < 10 + changes
<1> DEFINE list == Value(options, Settings(type), o)
<1>1. CASE o \in DOMAIN options
  BY <1>1 DEF Value, OptionsInv
<1>2. CASE o \notin DOMAIN options
  <2>1. list = <<1, 2>> \/ list = <<1, 2, 3>>
    BY <1>2, DefaultSettings DEF Value, ScreenInv
  <2>2. /\ list \in Seq(Nat) /\ IsInjective(list)
        /\ \A i \in DOMAIN list : list[i] < 10
    <3> HIDE DEF list
    <3> QED
      BY <2>1, DefaultList
  <2>3. changes \in Nat /\ \A i \in DOMAIN list : list[i] \in Nat
    <3> HIDE DEF list
    <3> QED
      BY <2>2 DEF ScreenInv
  <2> HIDE DEF list
  <2> QED
    BY <2>2, <2>3 DEF list
<1> QED
  BY <1>1, <1>2

LEMMA SetKeepsOptions ==
  ASSUME ScreenInv, OptionsInv, NEW option \in DOMAIN Settings(type), NEW value,
         Set(option, value),
         option \in Ids => /\ value \in Seq(Nat) /\ IsInjective(value)
                           /\ \A i \in DOMAIN value : value[i] < 10 + changes + 1,
         option \in Numbers => value \in Nat
  PROVE  OptionsInv'
<1>1. /\ ~asked /\ type' = type /\ asked' = asked /\ changes' = changes + 1
      /\ DOMAIN options' = DOMAIN options \cup {option}
      /\ \A o \in DOMAIN options' : options'[o] = IF o = option THEN value ELSE options[o]
  BY DEF Set, SetOpts
<1>2. changes \in Nat
  BY DEF ScreenInv
<1>3. DOMAIN options' \subseteq DOMAIN Settings(type)'
  BY <1>1 DEF OptionsInv
<1>4. ASSUME NEW o \in DOMAIN options' \cap Ids
      PROVE  /\ options'[o] \in Seq(Nat) /\ IsInjective(options'[o])
             /\ \A i \in DOMAIN options'[o] : options'[o][i] < 10 + changes'
  <2>1. CASE o = option
    BY <1>1, <1>2, <2>1
  <2>2. CASE o # option
    <3>1. /\ o \in DOMAIN options \cap Ids /\ options'[o] = options[o]
      BY <1>1, <2>2, <1>4
    <3>2. PICK list \in Seq(Nat) : list = options[o]
      BY <3>1 DEF OptionsInv
    <3>3. IsInjective(list) /\ \A i \in DOMAIN list : list[i] < 10 + changes
      BY <1>1, <3>1, <3>2 DEF OptionsInv
    <3>4. \A i \in DOMAIN list : list[i] \in Nat
      BY <3>2
    <3>5. \A i \in DOMAIN list : list[i] < 10 + changes'
      BY <1>1, <1>2, <3>3, <3>4
    <3> QED
      BY <3>1, <3>2, <3>3, <3>5
  <2> QED
    BY <2>1, <2>2
<1>5. ASSUME NEW o \in DOMAIN options' \cap Numbers
      PROVE  options'[o] \in Nat
  BY <1>1, <1>5 DEF OptionsInv
<1> QED
  BY <1>3, <1>4, <1>5 DEF OptionsInv

LEMMA BuildsKeepsOptions ==
  ASSUME ScreenInv, OptionsInv, Builds
  PROVE  OptionsInv'
<1>1. PICK option \in DOMAIN Settings(type) :
         IF option \in Lists THEN Relist(option) ELSE Change(option)
  BY DEF Builds
<1>2. CASE option \notin Lists
  <2>1. PICK value \in Entries(type, option) : Set(option, value)
    BY <1>1, <1>2 DEF Change
  <2>2. option \in Numbers => value \in Nat
    BY <2>1 DEF Entries, Numbers, Texts, EndLabels
  <2> QED
    BY <1>2, <2>1, <2>2, SetKeepsOptions DEF Ids, Lists
<1>3. CASE option \in Lists \ Ids
  <2>1. PICK value : Set(option, value)
    BY <1>1, <1>3 DEF Relist
  <2>2. option \notin Ids /\ option \notin Numbers
    BY <1>3 DEF Lists, Numbers
  <2> QED
    BY <2>1, <2>2, SetKeepsOptions
<1>4. CASE option \in Ids
  <2>1. PICK old : old = Value(options, Settings(type), option)
    OBVIOUS
  <2>2. PICK value \in Rechosen(old, 10 + changes) : Set(option, value)
    BY <1>1, <1>4, <2>1 DEF Relist, Ids, Lists
  <2>3. ~asked /\ changes \in Nat
    BY <2>2 DEF Set, ScreenInv
  <2>4. /\ old \in Seq(Nat) /\ IsInjective(old)
        /\ \A i \in DOMAIN old : old[i] < 10 + changes
    BY <1>4, <2>1, <2>3, ListShown
  <2>5. \A i \in DOMAIN old : old[i] \in Nat
    BY <2>4
  <2>6. option \notin Numbers
    BY <1>4 DEF Ids, Numbers
  <2>7. /\ value \in Seq(Nat) /\ IsInjective(value)
        /\ \A j \in DOMAIN value :
              value[j] = 10 + changes \/ \E k \in DOMAIN old : value[j] = old[k]
    <3>1. CASE value = Append(old, 10 + changes)
      <4>1. 10 + changes \in Nat /\ \A i \in DOMAIN old : old[i] # 10 + changes
        BY <2>3, <2>4, <2>5
      <4> QED
        BY <2>4, <3>1, <4>1, AppendFacts
    <3>2. ASSUME NEW i \in DOMAIN old, value = WithoutEntry(old, i)
          PROVE  <2>7!:
      BY <2>4, <3>2, WithoutFacts
    <3>3. CASE value = old
      BY <2>4, <3>3
    <3> QED
      BY <2>2, <3>1, <3>2, <3>3 DEF Rechosen, Removed
  <2>8. \A j \in DOMAIN value : value[j] < 10 + changes + 1
    <3>1. \A n \in Nat : n < 10 + changes \/ n = 10 + changes => n < 10 + changes + 1
      BY <2>3
    <3>2. ASSUME NEW j \in DOMAIN value PROVE value[j] < 10 + changes + 1
      <4>1. value[j] \in Nat
        BY <2>7
      <4>2. value[j] < 10 + changes \/ value[j] = 10 + changes
        BY <2>4, <2>7
      <4> QED
        BY <3>1, <4>1, <4>2
    <3> QED
      BY <3>2
  <2> QED
    BY <2>2, <2>6, <2>7, <2>8, SetKeepsOptions
<1> QED
  BY <1>2, <1>3, <1>4

LEMMA OptionsInvHolds == Spec => []OptionsInv
<1>1. Init => OptionsInv
  BY DEF Init, NoOptions, OptionsInv
<1>2. ScreenInv /\ OptionsInv /\ [Next]_vars => OptionsInv'
  <2> SUFFICES ASSUME ScreenInv, OptionsInv, [Next]_vars PROVE OptionsInv'
    OBVIOUS
  <2>1. CASE Builds
    BY <2>1, BuildsKeepsOptions
  <2>2. CASE Ask
    BY <2>2 DEF Ask, OptionsInv
  <2>3. CASE UNCHANGED <<type, options, asked>> /\ (asked \/ UNCHANGED changes)
    BY <2>3 DEF OptionsInv
  <2>4. CASE GivesAnswer
    BY <2>3, <2>4, AnswersAt
  <2>5. CASE Records \/ Locates \/ Turns \/ UNCHANGED vars
    BY <2>3, <2>5 DEF Records, Locates, Turns, vars, questionVars
  <2> QED
    BY <2>1, <2>2, <2>4, <2>5, WhoSteps
<1> QED
  BY <1>1, <1>2, ScreenInvHolds, PTL DEF Spec

\* Every variable of the widgets keeps its type, and no id is twice among the choices
\* or items of a question, however often they are added and taken away.
THEOREM TypeCorrect == Spec => []TypeOK
<1>1. ScreenInv /\ OptionsInv /\ LocationInv /\ VoiceInv => TypeOK
  <2> SUFFICES ASSUME ScreenInv, OptionsInv, LocationInv, VoiceInv PROVE TypeOK
    OBVIOUS
  <2>1. AudioTypeOK
    BY AudioInitTypes DEF VoiceInv, RecorderInv
  <2>2. type \in Voice => answer \in Recording \cup {None}
    BY DEF VoiceInv, RecorderInv, ScreenInv
  <2> QED
    BY <2>1, <2>2 DEF ScreenInv, OptionsInv, Ids, LocationInv, TypeOK
<1> QED
  BY <1>1, ScreenInvHolds, OptionsInvHolds, LocationInvHolds, VoiceInvHolds, PTL

-----------------------------------------------------------------------------
(* What the builder sets and shows.                                        *)

\* Where the labels of a scale are shown, and which are not those of the respondent.
LEMMA LikertLabels ==
  ASSUME type = "LIKERT"
  PROVE  Misleading <=> \E option \in EndLabels :
            Previewed(type, options, option) # Received(type, options, option)
<1>1. PICK low, high : low = Label(options, "minLabel") /\ high = Label(options, "maxLabel")
  OBVIOUS
<1>2. Misleading <=> low = Empty /\ high \notin {Undefined, Empty}
  BY <1>1 DEF Misleading, Voice
<1>3. Labelled(options) <=> OrElse(low, high) \notin {Undefined, Empty}
  BY <1>1 DEF Labelled
<1>4. /\ Previewed(type, options, "minLabel") = OrElse(low, Empty)
      /\ Previewed(type, options, "maxLabel") = OrElse(high, Empty)
  BY <1>1 DEF Previewed, EndLabels
<1>5. /\ Received(type, options, "minLabel") = IF Labelled(options) THEN OrElse(low, Empty) ELSE Empty
      /\ Received(type, options, "maxLabel") = IF Labelled(options) THEN OrElse(high, Empty) ELSE Empty
  BY <1>1 DEF Received, EndLabels
<1> QED
  BY <1>2, <1>3, <1>4, <1>5 DEF EndLabels, OrElse, Undefined, Empty

LEMMA SliderLabels ==
  ASSUME type = "SLIDER"
  PROVE  Misleading <=> \E option \in EndLabels :
            Previewed(type, options, option) # Received(type, options, option)
<1>1. PICK low, high : low = Label(options, "minLabel") /\ high = Label(options, "maxLabel")
  OBVIOUS
<1>2. Misleading <=> Labelled(options) /\ (low = Undefined \/ high = Undefined)
  BY <1>1 DEF Misleading, EndLabels, Voice
<1>3. /\ Previewed(type, options, "minLabel") = IF Labelled(options) THEN OrElse(low, Empty) ELSE Empty
      /\ Previewed(type, options, "maxLabel") = IF Labelled(options) THEN OrElse(high, Empty) ELSE Empty
  BY <1>1 DEF Previewed, EndLabels
<1>4. /\ Received(type, options, "minLabel") =
            IF Labelled(options) THEN OrElse(low, "end of the range") ELSE Empty
      /\ Received(type, options, "maxLabel") =
            IF Labelled(options) THEN OrElse(high, "end of the range") ELSE Empty
  BY <1>1 DEF Received, EndLabels
<1> QED
  BY <1>2, <1>3, <1>4 DEF EndLabels, OrElse, Undefined, Empty

\* An option that is neither a label nor the sample rate is shown and taken alike if it
\* has the same default on both sides, or is stored.
LEMMA SameOption ==
  ASSUME NEW option, option \notin EndLabels, option # "sampleRateHz",
         option \in DOMAIN options \/ Preview(type)[option] = Input(type)[option]
  PROVE  Previewed(type, options, option) = Received(type, options, option)
BY DEF Previewed, Received, Value

\* The preview has what the respondent's widget has, but where it is said to mislead.
LEMMA PreviewHolds ==
  ASSUME type \in Types
  PROVE  PreviewIsTrue
<1> SUFFICES ASSUME type \notin Differing
             PROVE  Misleading <=> \E option \in DOMAIN Preview(type) :
                        Previewed(type, options, option) # Received(type, options, option)
  BY DEF PreviewIsTrue
<1>1. CASE type \in {"SINGLE_CHOICE", "MULTIPLE_CHOICE", "YES_NO", "STAR_RATING", "IMAGE_UPLOAD"}
  <2>1. /\ \A option \in DOMAIN Preview(type) : Preview(type)[option] = Input(type)[option]
        /\ DOMAIN Preview(type) \cap (EndLabels \cup {"sampleRateHz"}) = {}
    BY <1>1 DEF Preview, Input, Choice, Voice, EndLabels
  <2>2. ~Misleading
    BY <1>1 DEF Misleading, Voice
  <2> QED
    BY <2>1, <2>2, SameOption
<1>2. CASE type \in Voice
  <2>1. DOMAIN Preview(type) = {"minDurationSec", "sampleRateHz"}
    BY <1>2 DEF Preview, Voice
  <2>2. Misleading <=> Setting("sampleRateHz") # 16000
    BY <1>2 DEF Misleading, Voice
  <2>3. Previewed(type, options, "minDurationSec") = Received(type, options, "minDurationSec")
    <3>1. Preview(type)["minDurationSec"] = Input(type)["minDurationSec"]
      BY <1>2 DEF Preview, Input, Choice, Voice
    <3> QED
      BY <3>1, SameOption DEF EndLabels
  <2>4. Received(type, options, "sampleRateHz") = Setting("sampleRateHz")
    <3>1. Input(type)["sampleRateHz"] = 16000 /\ Settings(type)["sampleRateHz"] = 16000
      BY <1>2 DEF Input, Settings, Choice, Voice, VoiceSettings
    <3> QED
      BY <3>1 DEF Received, EndLabels, Setting, Value
  <2>5. Previewed(type, options, "sampleRateHz") = 16000
    BY DEF Previewed, EndLabels
  <2> QED
    BY <2>1, <2>2, <2>3, <2>4, <2>5
<1>3. CASE type = "LIKERT" \/ type = "SLIDER"
  <2>1. DOMAIN Preview(type) = EndLabels \cup {"min", "max"}
    BY <1>3 DEF Preview, Scale, Choice, Voice, EndLabels
  <2>2. ASSUME NEW option \in {"min", "max"}
        PROVE  Previewed(type, options, option) = Received(type, options, option)
    <3>1. Preview(type)[option] = Input(type)[option]
      BY <1>3, <2>2 DEF Preview, Input, Choice, Voice, Scale, SliderSettings
    <3> QED
      BY <2>2, <3>1, SameOption DEF EndLabels
  <2> QED
    BY <1>3, <2>1, <2>2, LikertLabels, SliderLabels
<1>4. CASE type = "RANKING"
  <2>1. /\ Preview(type) = [choices |-> <<1, 2, 3>>] /\ Input(type) = [choices |-> <<>>]
        /\ (Misleading <=> "choices" \notin DOMAIN options)
    BY <1>4 DEF Preview, Input, Items, Choice, Voice, Misleading
  <2>2. /\ Previewed(type, options, "choices") = Value(options, Preview(type), "choices")
        /\ Received(type, options, "choices") = Value(options, Input(type), "choices")
    BY DEF Previewed, Received, EndLabels
  <2>3. <<1, 2, 3>> # <<>>
    OBVIOUS
  <2>4. /\ DOMAIN Preview(type) = {"choices"}
        /\ Preview(type)["choices"] = <<1, 2, 3>> /\ Input(type)["choices"] = <<>>
    BY <2>1
  <2> QED
    BY <2>1, <2>2, <2>3, <2>4 DEF Value
<1>5. CASE type \in Types \ (Voice \cup Differing \cup {"SINGLE_CHOICE", "MULTIPLE_CHOICE",
                    "YES_NO", "STAR_RATING", "IMAGE_UPLOAD", "LIKERT", "SLIDER", "RANKING"})
  BY <1>5 DEF Preview, NoOptions, Voice, Differing, Misleading
<1> QED
  BY <1>1, <1>2, <1>3, <1>4, <1>5

\* What the settings show is what the widget reads; but a RANKING reads nothing
\* until its items have been touched.
LEMMA SettingsAsked ==
  ASSUME ScreenInv, OptionsInv
  PROVE  /\ type \in Choice => Asked("choices") = Setting("choices")
         /\ type \in {"LIKERT", "SLIDER"} =>
               /\ Asked("min") = Setting("min") /\ Asked("max") = Setting("max")
         /\ type = "STAR_RATING" => Asked("max") = Setting("max")
         /\ type = "IMAGE_UPLOAD" => Asked("allowCamera") = Setting("allowCamera")
         /\ type = "RANKING" => Range(Asked("choices")) \subseteq Range(Setting("choices"))
         /\ type = "SLIDER" =>
               Asked("min") \in Int /\ Asked("max") \in Int /\ Asked("step") \in Int
<1> USE DEF Asked, Setting, Value, Input, Settings, Undefined
<1>1. CASE type \in Choice
  <2>1. Settings(type) = [choices |-> <<1, 2>>] /\ Input(type) = [choices |-> <<1, 2>>]
    BY <1>1 DEF Choice, Voice
  <2>2. type \notin {"LIKERT", "SLIDER", "STAR_RATING", "IMAGE_UPLOAD", "RANKING"}
    BY <1>1 DEF Choice
  <2> HIDE DEF Settings, Input
  <2> QED
    BY <2>1, <2>2
<1>2. CASE type \in {"STAR_RATING", "IMAGE_UPLOAD"}
  BY <1>2 DEF Choice, Voice
<1>3. CASE type \in {"LIKERT", "SLIDER"}
  BY <1>3 DEF Choice, Voice, Scale, SliderSettings, OptionsInv, Numbers
<1>4. CASE type = "RANKING"
  BY <1>4 DEF Choice, Voice, Items, Range
<1> QED
  BY <1>1, <1>2, <1>3, <1>4 DEF Choice

AnswerInv ==
    /\ ~asked => answer = None
    /\ AnswerFitsSettings
    /\ asked /\ answer # None /\ type = "RANKING" =>
          answer \in Seq(Nat) /\ Range(answer) \subseteq Range(Asked("choices"))

\* An answer that is given fits.
LEMMA AnswersFit ==
  ASSUME ScreenInv, OptionsInv, AnswerInv, GivesAnswer, answer' # None
  PROVE  /\ Fits'
         /\ type = "RANKING" =>
               answer' \in Seq(Nat) /\ Range(answer') \subseteq Range(Asked("choices"))
<1>1. asked /\ type' = type /\ options' = options
  BY AnswersAt
<1>2. \A o : Setting(o)' = Setting(o) /\ Asked(o)' = Asked(o)
  BY <1>1 DEF Setting, Asked
<1>3. answer # None => Fits
  BY <1>1 DEF AnswerInv, AnswerFitsSettings
<1>4. CASE Choose
  <2>1. answer' \in Points
    BY <1>4 DEF Choose, Give
  <2>2. CASE type \in {"SINGLE_CHOICE", "DROPDOWN"}
    BY <1>1, <1>2, <2>1, <2>2, SettingsAsked DEF Points, Fits, Choice
  <2>3. CASE type \in {"LIKERT", "STAR_RATING"}
    BY <1>1, <1>2, <2>1, <2>3, SettingsAsked DEF Points, Fits
  <2>4. CASE type \in {"YES_NO", "NPS"}
    BY <1>1, <2>4 DEF Fits
  <2> QED
    BY <1>4, <2>2, <2>3, <2>4 DEF Choose
<1>5. CASE Toggle
  <2>1. type = "MULTIPLE_CHOICE"
    BY <1>5 DEF Toggle
  <2>2. answer # None => answer \subseteq Range(Setting("choices"))
    BY <1>3, <2>1 DEF Fits
  <2>3. answer' \subseteq Range(Setting("choices"))
    BY <1>5, <2>1, <2>2, SettingsAsked DEF Toggle, Give, Choice
  <2> QED
    BY <1>1, <1>2, <2>1, <2>3 DEF Fits
<1>6. CASE Slide
  <2>1. type = "SLIDER"
    BY <1>6 DEF Slide
  <2>2. answer' \in Asked("min") .. Asked("max")
    BY <1>6, <2>1, SettingsAsked DEF Slide, Give
  <2> QED
    BY <1>1, <1>2, <2>1, <2>2, SettingsAsked DEF Fits
<1>7. CASE TakeImage
  <2>1. type = "IMAGE_UPLOAD"
    BY <1>7 DEF TakeImage
  <2>2. answer'.by = "camera" => Asked("allowCamera") = 1
    BY <1>7 DEF TakeImage, Give, Cameras
  <2> QED
    BY <1>1, <1>2, <2>1, <2>2, SettingsAsked DEF Fits
<1>8. CASE Rank
  <2>1. type = "RANKING"
    BY <1>8 DEF Rank
  <2>2. answer # None => /\ answer \in Seq(Nat) /\ IsInjective(answer)
                         /\ Range(answer) \subseteq Range(Asked("choices"))
    BY <1>1, <1>3, <2>1 DEF AnswerInv, Fits
  <2>3. PICK list : list = Ranked
    OBVIOUS
  <2>4. /\ list \in Seq(Nat) /\ IsInjective(list)
        /\ Range(list) \subseteq Range(Asked("choices"))
    <3>1. CASE answer = None
      <4>1. list = <<>>
        BY <2>3, <3>1 DEF Ranked
      <4>2. list \in Seq(Nat) /\ DOMAIN list = {}
        BY <4>1
      <4> QED
        BY <4>2 DEF Range, IsInjective
    <3>2. CASE answer # None
      BY <2>2, <2>3, <3>2 DEF Ranked
    <3> QED
      BY <3>1, <3>2
  <2>5. \A i \in DOMAIN list : list[i] \in Range(Asked("choices"))
    BY <2>4 DEF Range
  <2>6. CASE \E c \in Range(Asked("choices")) \ Range(Ranked) : Give(Append(Ranked, c))
    <3>1. PICK c \in Range(Asked("choices")) : c \notin Range(list) /\ answer' = Append(list, c)
      BY <2>3, <2>6 DEF Give
    <3>2. c \in Nat
      <4>1. "choices" \in DOMAIN options
        BY <2>1, <3>1 DEF Asked, Value, Input, Range, Choice, Voice
      <4>2. options["choices"] \in Seq(Nat) /\ c \in Range(options["choices"])
        BY <3>1, <4>1 DEF Asked, Value, OptionsInv, Ids
      <4> QED
        BY <4>2 DEF Range
    <3>3. \A i \in DOMAIN list : list[i] # c
      BY <3>1 DEF Range
    <3>4. /\ answer' \in Seq(Nat) /\ IsInjective(answer')
          /\ \A j \in DOMAIN answer' : answer'[j] \in Range(Asked("choices"))
      BY <2>4, <2>5, <3>1, <3>2, <3>3, AppendFacts
    <3> QED
      BY <1>1, <1>2, <2>1, <3>4, SettingsAsked DEF Fits, Range
  <2>7. CASE \E i \in 1 .. (Len(Ranked) - 1) : Give(Swapped(Ranked, i))
    <3>1. PICK i \in 1 .. (Len(list) - 1) : answer' = [list EXCEPT ![i] = list[i + 1], ![i + 1] = list[i]]
      BY <2>3, <2>7 DEF Give, Swapped
    <3>2. /\ Len(list) \in Nat /\ DOMAIN list = 1 .. Len(list)
          /\ i \in DOMAIN list /\ i + 1 \in DOMAIN list /\ i + 1 # i
      BY <2>4, <3>1
    <3>3. /\ DOMAIN answer' = DOMAIN list /\ answer' \in Seq(Nat)
          /\ answer'[i] = list[i + 1] /\ answer'[i + 1] = list[i]
          /\ \A j \in DOMAIN list \ {i, i + 1} : answer'[j] = list[j]
      BY <2>4, <3>1, <3>2
    <3>4. IsInjective(answer')
      BY <2>4, <3>2, <3>3 DEF IsInjective
    <3>5. \A j \in DOMAIN answer' : answer'[j] \in Range(Asked("choices"))
      BY <2>5, <3>2, <3>3
    <3> QED
      BY <1>1, <1>2, <2>1, <3>3, <3>4, <3>5, SettingsAsked DEF Fits, Range
  <2>8. CASE \E i \in DOMAIN Ranked : Give(WithoutEntry(Ranked, i))
    <3>1. PICK i \in DOMAIN list : answer' = WithoutEntry(list, i)
      BY <2>3, <2>8 DEF Give
    <3>2. /\ answer' \in Seq(Nat) /\ IsInjective(answer')
          /\ \A j \in DOMAIN answer' : answer'[j] \in Range(Asked("choices"))
      BY <2>4, <2>5, <3>1, WithoutFacts
    <3> QED
      BY <1>1, <1>2, <2>1, <3>2, SettingsAsked DEF Fits, Range
  <2> QED
    BY <1>8, <2>6, <2>7, <2>8 DEF Rank
<1>9. CASE Type \/ TypeNumber \/ TakeFile
  BY <1>1, <1>9 DEF Type, TypeNumber, TakeFile, Text, Fits
<1>10. type = "RANKING" => Rank
  BY AnswersAt DEF GivesAnswer, Type, TypeNumber, Choose, Toggle, Slide, TakeImage, TakeFile, Text
<1> QED
  BY <1>4, <1>5, <1>6, <1>7, <1>8, <1>9, <1>10 DEF GivesAnswer

LEMMA AnswerInvHolds == Spec => []AnswerInv
<1>1. Init => AnswerInv
  BY DEF Init, ScreenInit, AnswerInv, AnswerFitsSettings
<1>2. ScreenInv /\ OptionsInv /\ AnswerInv /\ [Next]_vars => AnswerInv'
  <2> SUFFICES ASSUME ScreenInv, OptionsInv, AnswerInv, [Next]_vars PROVE AnswerInv'
    OBVIOUS
  <2>1. CASE Builds
    BY <2>1, BuildsAt DEF AnswerInv, AnswerFitsSettings, screenVars
  <2>2. CASE Ask
    <3>1. /\ answer = None /\ type' = type
          /\ answer' = IF type = "DESCRIPTION_SLIDE" THEN "__break__" ELSE None
          /\ asked' = TRUE
      BY <2>2 DEF Ask, AnswerInv
    <3>2. type = "DESCRIPTION_SLIDE" => Fits'
      BY <3>1 DEF Fits
    <3> QED
      BY <3>1, <3>2 DEF AnswerInv, AnswerFitsSettings
  <2>3. CASE GivesAnswer
    <3>1. asked /\ UNCHANGED <<type, options, asked>>
      BY <2>3, AnswersAt
    <3>2. Asked("choices")' = Asked("choices")
      BY <3>1 DEF Asked
    <3> QED
      BY <2>3, <3>1, <3>2, AnswersFit DEF AnswerInv, AnswerFitsSettings
  <2>4. CASE Records \/ Locates
    <3>1. asked' /\ type' = type /\ type \in Voice \cup {"LOCATION"}
      BY <2>4 DEF Records, Locates, questionVars
    <3>2. Fits'
      BY <3>1 DEF Fits, Voice
    <3> QED
      BY <3>1, <3>2 DEF AnswerInv, AnswerFitsSettings, Voice
  <2>5. CASE UNCHANGED <<type, options, asked, answer>>
    BY <2>5 DEF AnswerInv, AnswerFitsSettings, Fits, Setting, Asked
  <2>6. CASE Turns \/ UNCHANGED vars
    BY <2>5, <2>6
       DEF Turns, LeaveSimple, ReturnToSimple, LeaveScreen, ReturnToScreen, vars,
           questionVars, screenVars
  <2> QED
    BY <2>1, <2>2, <2>3, <2>4, <2>6, WhoSteps
<1> QED
  BY <1>1, <1>2, ScreenInvHolds, OptionsInvHolds, PTL DEF Spec

\* What the builder sets is what the respondent can answer, and what it previews is what
\* the respondent gets, but with the options Misleading lists and for the types in
\* Differing; however the options came to be stored and the answer was changed.
THEOREM ConfiguredAsShown == Spec => []AsConfigured
<1>1. ScreenInv /\ AnswerInv => AsConfigured
  BY PreviewHolds DEF ScreenInv, AnswerInv, AsConfigured
<1> QED
  BY <1>1, ScreenInvHolds, AnswerInvHolds, PTL
=============================================================================
