--------------------------- MODULE QuestionTypes ---------------------------
(***************************************************************************)
(* What the builder and the collect page make of the options of a          *)
(* question: three components written apart, each with its own names and   *)
(* defaults.  TypeSettings edits the options, QuestionPreview shows the    *)
(* question under "Respondent view", QuestionInput asks it.                *)
(*                                                                         *)
(* A function gives, for each option a component reads, what it takes when *)
(* the option is not stored.  Choices are sequences of ids (the default    *)
(* ids are 1, 2, 3), rows and columns sequences of names, of which n is    *)
(* 'Row n' or 'Column n'; of a label or a text it matters whether it is    *)
(* stored and whether it is empty, of sizes, levels and durations only     *)
(* whether they are equal.  A NUMERIC has no range until one is set,       *)
(* which -99 and 99 stand for.                                             *)
(***************************************************************************)
EXTENDS Integers, Sequences

Choice == {"SINGLE_CHOICE", "DROPDOWN", "MULTIPLE_CHOICE"}
Voice == {"VOICE_RESPONSE", "AUDIO_CAPTURE", "AUDIO_QUESTION"}
Text == {"SHORT_TEXT", "EMAIL", "NAME", "PHONE", "LONG_TEXT", "WEBSITE_URL", "DATE"}

\* Q_CATEGORIES: the types the builder offers.
Types == Choice \cup Text \cup {"VOICE_RESPONSE", "AUDIO_QUESTION", "NUMERIC",
    "VIDEO_CAPTURE", "LOCATION", "IMAGE_UPLOAD", "YES_NO", "SLIDER", "LIKERT",
    "MATRIX", "RANKING", "STAR_RATING", "NPS", "FILE_UPLOAD", "DESCRIPTION_SLIDE"}

NoOptions == [option \in {} |-> 0]

\* A text that is not stored, and one that was typed and cleared again, which is ''.
Undefined == "undefined"
Empty == "empty"

Scale(min, max) ==
    [min |-> min, max |-> max, minLabel |-> Undefined, maxLabel |-> Undefined]

VoiceSettings ==
    [minDurationSec |-> 15, maxDurationSec |-> 300, sampleRateHz |-> 16000,
     minDbfs |-> -18, minSnrDb |-> 15, satLimit |-> 600]

Grid == [rows |-> <<1, 2>>, columns |-> <<1, 2, 3>>]

SliderSettings ==
    [min |-> 0, max |-> 100, step |-> 1, minLabel |-> Undefined, maxLabel |-> Undefined]

Items == [choices |-> <<1, 2, 3>>]

\* TypeSettings: the options that can be set, as they look before they are.
Settings(type) ==
    CASE type \in Choice -> [choices |-> <<1, 2>>]
      [] type = "STAR_RATING" -> [max |-> 5]
      [] type = "LIKERT" -> Scale(1, 5)
      [] type = "YES_NO" -> [yesLabel |-> Undefined, noLabel |-> Undefined]
      [] type = "NUMERIC" -> [min |-> -99, max |-> 99, unit |-> Undefined]
      [] type \in Voice -> VoiceSettings
      [] type = "MATRIX" -> Grid
      [] type = "FILE_UPLOAD" -> [accept |-> Undefined, maxMB |-> 10]
      [] type = "SLIDER" -> SliderSettings
      [] type = "IMAGE_UPLOAD" -> [maxSizeMb |-> 10, allowCamera |-> 1]
      [] type = "RANKING" -> Items
      [] OTHER -> NoOptions

\* QuestionPreview: the options the preview shows.
Preview(type) ==
    CASE type \in Voice -> [minDurationSec |-> 15, sampleRateHz |-> 16000]
      [] type \in {"SINGLE_CHOICE", "MULTIPLE_CHOICE"} -> [choices |-> <<1, 2>>]
      [] type = "YES_NO" -> [yesLabel |-> Undefined, noLabel |-> Undefined]
      [] type = "LIKERT" -> Scale(1, 5)
      [] type = "STAR_RATING" -> [max |-> 5]
      [] type = "MATRIX" -> Grid
      [] type = "FILE_UPLOAD" -> [accept |-> Undefined, maxMB |-> 10]
      [] type = "NUMERIC" -> [unit |-> Undefined]
      [] type = "SLIDER" -> Scale(0, 100)
      [] type = "IMAGE_UPLOAD" -> [allowCamera |-> 1]
      [] type = "RANKING" -> Items
      [] OTHER -> NoOptions

\* QuestionInput: the options the respondent's widget reads.
Input(type) ==
    CASE type = "NUMERIC" -> [placeholder |-> Undefined]
      [] type \in Choice -> [choices |-> <<1, 2>>]
      [] type = "YES_NO" -> [yesLabel |-> Undefined, noLabel |-> Undefined]
      [] type = "LIKERT" -> Scale(1, 5)
      [] type = "STAR_RATING" -> [max |-> 5]
      [] type = "SLIDER" -> SliderSettings
      [] type = "IMAGE_UPLOAD" -> [maxSizeMb |-> 10, allowCamera |-> 1]
      [] type = "RANKING" -> [choices |-> <<>>]
      [] type \in Voice -> [minDurationSec |-> 15, maxDurationSec |-> 300,
                            minDbfs |-> -18, sampleRateHz |-> 16000]
      [] type = "FILE_UPLOAD" -> [acceptedTypes |-> Undefined, maxSizeMb |-> 10]
      [] OTHER -> NoOptions

\* options?.[option] ?? reads[option]
Value(options, reads, option) ==
    IF option \in DOMAIN options THEN options[option] ELSE reads[option]

EndLabels == {"minLabel", "maxLabel"}

\* options?.[label]
Label(options, label) == IF label \in DOMAIN options THEN options[label] ELSE Undefined

\* text ?? other
OrElse(text, other) == IF text = Undefined THEN other ELSE text

\* The labels below a scale are there if minLabel ?? maxLabel is, and is not ''.
Labelled(options) ==
    OrElse(Label(options, "minLabel"), Label(options, "maxLabel")) \notin {Undefined, Empty}

\* What QuestionPreview shows of an option: the sample rate is part of its text, and
\* the labels of a LIKERT are there in any case; one that is missing is blank.
Previewed(type, options, option) ==
    CASE option = "sampleRateHz" -> 16000
      [] option \in EndLabels ->
            IF type = "LIKERT" \/ Labelled(options)
               THEN OrElse(Label(options, option), Empty) ELSE Empty
      [] OTHER -> Value(options, Preview(type), option)

\* What QuestionInput makes of it: a missing label is blank beside the other one, or
\* in a SLIDER the end of the range.
Received(type, options, option) ==
    CASE option \in EndLabels ->
            IF Labelled(options)
               THEN OrElse(Label(options, option),
                           IF type = "SLIDER" THEN "end of the range" ELSE Empty)
               ELSE Empty
      [] OTHER -> Value(options, Input(type), option)

Texts == EndLabels \cup {"yesLabel", "noLabel", "unit", "accept"}

\* What can be entered for an option: the other buttons of a row of buttons, of a
\* text one that is there or cleared, and of a number one that differs and one that
\* is odd, 0 standing for what Number('') makes of an empty field.
Entries(type, option) ==
    CASE option \in Texts -> {"text", Empty}
      [] option = "min" -> {0, 4}
      [] option = "max" /\ type = "STAR_RATING" -> {3, 5, 7, 10}
      [] option = "max" /\ type # "STAR_RATING" -> {0, 3}
      [] option = "sampleRateHz" -> {8000, 16000, 32000}
      [] option = "allowCamera" -> {0, 1}
      [] OTHER -> {2}

Lists == {"choices", "rows", "columns"}

\* filter() with what is in one place.
WithoutEntry(list, i) == SubSeq(list, 1, i - 1) \o SubSeq(list, i + 1, Len(list))

Removed(list) == {WithoutEntry(list, i) : i \in DOMAIN list}

\* Mutant: the id of a new choice is its place.
RechosenByPlace(list, new) == {Append(list, Len(list) + 1), list} \cup Removed(list)

\* Choices and items: one is added under a new id, one is taken away, or a label is
\* typed over, which stores them with the ids they had.
Rechosen(list, new) == {Append(list, new), list} \cup Removed(list)

\* Rows and columns, which are their names: one is added as 'Row n' for the number
\* there are then, one is taken away, or another name is typed; a name can repeat.
Renamed(list) ==
    {Append(list, Len(list) + 1)} \cup Removed(list)
    \cup {[list EXCEPT ![i] = name] : i \in DOMAIN list, name \in 0..Len(list)}

\* setOpts(): the patch is laid over the options as they were.
SetOpts(options, option, value) ==
    [o \in DOMAIN options \cup {option} |-> IF o = option THEN value ELSE options[o]]
=============================================================================
