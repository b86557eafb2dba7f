--------------------------- MODULE QuestionWidget ---------------------------
(***************************************************************************)
(* A question from the settings of the builder to the answer of a          *)
(* respondent.  First its options are set (TypeSettings), then the         *)
(* question is asked (QuestionInput) with the options as they were saved.  *)
(* The widgets that answer at once are here; the recorder and the location *)
(* have modules of their own.                                              *)
(***************************************************************************)
EXTENDS QuestionTypes, AudioWidget, LocationWidget, Functions

CONSTANTS
    MaxSettings,    \* bound: changes of the settings
    MaxAnswers,     \* bound: changes of the answer
    Sizes           \* of a file or an image, in MB

ASSUME WidgetAssumption ==
    MaxSettings \in Nat /\ MaxAnswers \in Nat /\ Sizes \subseteq Nat

VARIABLES
    type,
    options,    \* as stored
    asked,      \* the question is with the respondent
    changes     \* of the settings, then of the answer

questionVars == <<type, options, asked, changes>>
vars == <<questionVars, screenVars, audioVars, locationVars>>

Init ==
    /\ type \in Types
    /\ options = NoOptions
    /\ asked = FALSE /\ changes = 0
    /\ ScreenInit /\ AudioInit /\ LocationInit

\* Every variable has its type, and the ids of the choices or items of a question
\* -- new ones are the time, beside the default 1, 2, 3 -- differ, as those of a list
\* that is rendered by key must.  The names of rows and columns may not.
TypeOK ==
    /\ type \in Types /\ asked \in BOOLEAN
    /\ DOMAIN options \subseteq DOMAIN Settings(type)
    /\ "choices" \in DOMAIN options => IsInjective(options["choices"])
    /\ leaves \in 0..MaxLeaves /\ shown \in BOOLEAN
    /\ AudioTypeOK /\ LocationTypeOK
    /\ type \in Voice => answer \in Recording \cup {None}

-----------------------------------------------------------------------------
(* The builder.                                                            *)

Set(option, value) ==
    /\ ~asked /\ changes < MaxSettings
    /\ changes' = changes + 1
    /\ options' = SetOpts(options, option, value)
    /\ UNCHANGED <<type, asked, screenVars, audioVars, locationVars>>

\* A field or a button of the panel.
Change(option) == \E value \in Entries(type, option) : Set(option, value)

\* Adding to a list, removing from it or typing in it starts from the list shown,
\* which is stored whole.  The id of a new choice is the time.
Relist(option) ==
    LET list == Value(options, Settings(type), option) IN
    \E new \in IF option = "choices" THEN Rechosen(list, 10 + changes) ELSE Renamed(list) :
        Set(option, new)

\* The survey is published and opened.
Ask ==
    /\ ~asked /\ asked' = TRUE
    /\ changes' = 0
    /\ answer' = IF type = "DESCRIPTION_SLIDE" THEN "__break__" ELSE answer
    /\ UNCHANGED <<type, options, shown, leaves, audioVars, locationVars>>

-----------------------------------------------------------------------------
(* The respondent.                                                         *)

Setting(option) == Value(options, Settings(type), option)
Asked(option) == Value(options, Input(type), option)

Give(v) ==
    /\ asked /\ shown /\ changes < MaxAnswers
    /\ changes' = changes + 1
    /\ answer' = v
    /\ UNCHANGED <<type, options, asked, shown, leaves, audioVars,
                   locationVars>>

\* Text fields, and those of the types that have no widget.
Type ==
    /\ type \in Text \cup {"MATRIX", "VIDEO_CAPTURE"}
    /\ \E v \in {"text", None} : Give(v)

\* NUMERIC: whatever number is typed.
TypeNumber == type = "NUMERIC" /\ \E n \in {-1, 0, 2, 5} : Give(n)

\* Array.from({length: max - min + 1}), empty when that is negative.
Points ==
    CASE type = "LIKERT" -> Asked("min")..Asked("max")
      [] type = "NPS" -> 0..10
      [] type = "STAR_RATING" -> 1..Asked("max")
      [] type = "YES_NO" -> {1, 0}
      [] OTHER -> Range(Asked("choices"))

\* One button of several; the timer that moves on is in CollectPage.
Choose ==
    /\ type \in {"SINGLE_CHOICE", "DROPDOWN", "YES_NO", "LIKERT", "NPS", "STAR_RATING"}
    /\ \E p \in Points : Give(p)

Toggle ==
    /\ type = "MULTIPLE_CHOICE"
    /\ \E c \in Range(Asked("choices")) :
          LET on == IF answer = None THEN {} ELSE answer
          IN Give(IF c \in on THEN on \ {c} ELSE on \cup {c})

\* The browser keeps a slider between min and max, on a step.
Slide ==
    /\ type = "SLIDER"
    /\ \E v \in {Asked("min"), Asked("min") + Asked("step"), Asked("max")} :
          /\ Asked("min") <= v /\ v <= Asked("max")
          /\ (v - Asked("min")) % (IF Asked("step") = 0 THEN 1 ELSE Asked("step")) = 0
          /\ Give(v)

\* The ways to give an image.
Cameras == IF Asked("allowCamera") = 1 THEN {"file", "camera"} ELSE {"file"}

\* The size shown is not looked at.
TakeImage ==
    /\ type = "IMAGE_UPLOAD"
    /\ IF answer = None
          THEN \E size \in Sizes, by \in Cameras : Give([size |-> size, by |-> by])
          ELSE Give(None)

\* handleFile(): a file that is too large leaves an error and no answer.
TakeFile ==
    /\ type = "FILE_UPLOAD"
    /\ IF answer = None
          THEN \E size \in Sizes :
             /\ size <= Asked("maxSizeMb")
             /\ Give([size |-> size, by |-> "file"])
          ELSE Give(None)

Ranked == IF answer = None THEN <<>> ELSE answer

Swapped(list, i) == [list EXCEPT ![i] = list[i + 1], ![i + 1] = list[i]]

\* Mutant: an item of the list below may be added again.
RankAgain ==
    /\ type = "RANKING"
    /\ \/ \E c \in Range(Asked("choices")) : Give(Append(Ranked, c))
       \/ \E i \in 1..(Len(Ranked) - 1) : Give(Swapped(Ranked, i))

\* Adding an item, moving one up or down, taking one away.
Rank ==
    /\ type = "RANKING"
    /\ \/ \E c \in Range(Asked("choices")) \ Range(Ranked) : Give(Append(Ranked, c))
       \/ \E i \in 1..(Len(Ranked) - 1) : Give(Swapped(Ranked, i))
       \/ \E i \in DOMAIN Ranked : Give(WithoutEntry(Ranked, i))

\* The screens of the other types hold nothing that is lost with them.
LeaveSimple ==
    LeaveScreen /\ UNCHANGED <<audioVars, locationVars>>

ReturnToSimple ==
    ReturnToScreen /\ UNCHANGED <<audioVars, locationVars>>

-----------------------------------------------------------------------------

Next ==
    \/ \E option \in DOMAIN Settings(type) :
          IF option \in Lists THEN Relist(option) ELSE Change(option)
    \/ Ask
    \/ Type \/ TypeNumber \/ Choose \/ Toggle \/ Slide \/ TakeImage \/ TakeFile \/ Rank
    \/ /\ asked /\ type \in Voice
       /\ AudioNext /\ UNCHANGED <<questionVars, locationVars>>
    \/ /\ asked /\ type = "LOCATION"
       /\ LocationNext /\ UNCHANGED <<questionVars, audioVars>>
    \/ /\ asked /\ type \notin Voice \cup {"LOCATION"}
       /\ LeaveSimple \/ ReturnToSimple
       /\ UNCHANGED questionVars

\* A recorder that is stopped ends, and a timer fires.
Fairness ==
    /\ WF_vars(\E r \in Recorders : OnStop(r) /\ UNCHANGED <<questionVars, locationVars>>)
    /\ \A c \in Captures :
          WF_vars(Timeout(c) /\ UNCHANGED <<questionVars, audioVars>>)

Spec == Init /\ [][Next]_vars /\ Fairness

-----------------------------------------------------------------------------

\* What the settings of the builder, as it shows them, let a respondent answer.
Fits ==
    CASE type \in {"SINGLE_CHOICE", "DROPDOWN"} -> answer \in Range(Setting("choices"))
      [] type = "MULTIPLE_CHOICE" -> answer \subseteq Range(Setting("choices"))
      [] type = "LIKERT" -> answer \in Setting("min")..Setting("max")
      [] type = "STAR_RATING" -> answer \in 1..Setting("max")
      [] type = "SLIDER" -> answer \in Setting("min")..Setting("max")
      [] type = "IMAGE_UPLOAD" -> answer.by = "camera" => Setting("allowCamera") = 1
      [] type = "RANKING" ->
            /\ Range(answer) \subseteq Range(Setting("choices"))
            /\ IsInjective(answer)
      [] OTHER -> TRUE

\* An answer is one the settings allow, however the options came to be stored and
\* the answer was changed -- settings and widgets share only names and defaults.
\* The range of NUMERIC and the sizes of files and images do not reach the
\* respondent and are not among them.
AnswerFitsSettings == asked /\ answer # None => Fits

\* The types whose preview shows what the respondent does not get: the units of
\* NUMERIC and the limits of FILE_UPLOAD under other names, the grid of MATRIX.
Differing == {"NUMERIC", "FILE_UPLOAD", "MATRIX"}

\* The options with which the preview of the other types misleads: a RANKING never
\* touched, whose items the respondent does not get; a LIKERT whose low label was
\* cleared, which hides the high one; a SLIDER with one label, beside which the
\* respondent gets the other end of the range; a recording at another sample rate.
Misleading ==
    \/ type = "RANKING" /\ "choices" \notin DOMAIN options
    \/ /\ type = "LIKERT" /\ Label(options, "minLabel") = Empty
       /\ Label(options, "maxLabel") \notin {Undefined, Empty}
    \/ /\ type = "SLIDER" /\ Labelled(options)
       /\ \E label \in EndLabels : Label(options, label) = Undefined
    \/ type \in Voice /\ Setting("sampleRateHz") # 16000

\* "Respondent view" misleads with those options and no others: but for the types
\* above, of every option the preview shows, the respondent's widget takes or shows
\* the same, whatever is stored, typed and cleared.
PreviewIsTrue ==
    type \notin Differing =>
        (Misleading <=> \E option \in DOMAIN Preview(type) :
            Previewed(type, options, option) # Received(type, options, option))

\* What the builder sets and shows is what the respondent gets and answers, but where
\* the preview misleads.
AsConfigured == AnswerFitsSettings /\ PreviewIsTrue
=============================================================================
