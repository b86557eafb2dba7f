--------------------------- MODULE LocationWidget ---------------------------
(***************************************************************************)
(* CollectPage.tsx, LocationWidget: capture() watches the position for up  *)
(* to five and a half seconds and takes the best sample, or the first that *)
(* is good enough.  A capture ends with its own timer, whatever has become *)
(* of the widget; nothing cancels it, not even the error it reports.       *)
(***************************************************************************)
EXTENDS QuestionScreen

CONSTANTS
    Captures,   \* captures of a respondent
    Accuracies, \* of a sample, in metres
    TARGET_M    \* good enough

\* What is answered, as far as it is told apart.
Position == [of : Captures, accuracy : Accuracies]

ASSUME LocationAssumption ==
    /\ Accuracies \subseteq Nat /\ TARGET_M \in Nat
    /\ None \notin Accuracies \cup Position

VARIABLES
    locState,   \* "idle", "loading", "done" or "error"
    capture,    \* "none", "watching" or "finished", for each capture
    mine,       \* captures of the widget on the screen
    best,       \* accuracy of the best sample of each
    crossed     \* history: a capture began while an earlier one was not over

locationVars == <<locState, capture, mine, best, crossed>>

\* Every variable has its type.
LocationTypeOK ==
    /\ locState \in {"idle", "loading", "done", "error"}
    /\ capture \in [Captures -> {"none", "watching", "finished"}]
    /\ mine \subseteq Captures
    /\ best \in [Captures -> Accuracies \cup {None}]
    /\ crossed \in BOOLEAN

LocationInit ==
    /\ locState = "idle"
    /\ capture = [c \in Captures |-> "none"]
    /\ mine = {}
    /\ best = [c \in Captures |-> None]
    /\ crossed = FALSE

Watching == {c \in Captures : capture[c] = "watching"}

\* The button: disabled while loading, gone while a location is shown.
CaptureLocation(c) ==
    /\ shown /\ capture[c] = "none"
    /\ locState # "loading" /\ ~(locState = "done" /\ answer # None)
    /\ locState' = "loading"
    /\ capture' = [capture EXCEPT ![c] = "watching"]
    /\ mine' = mine \cup {c}
    /\ crossed' = (crossed \/ Watching # {})
    /\ UNCHANGED <<best, screenVars>>

\* setState of the widget of capture c.
Becomes(c, to) == locState' = IF c \in mine THEN to ELSE locState

\* The better of the best so far and a sample.
BestOf(b, accuracy) == IF b = None \/ accuracy < b THEN accuracy ELSE b

\* Mutant: a capture without a sample is done as well.
FinishedDone(c, accuracy) ==
    /\ capture' = [capture EXCEPT ![c] = "finished"]
    /\ best' = [best EXCEPT ![c] = accuracy]
    /\ Becomes(c, "done")
    /\ IF accuracy # None
          THEN answer' = [of |-> c, accuracy |-> accuracy]
          ELSE UNCHANGED answer

\* finish() with what has been sampled.
Finished(c, accuracy) ==
    /\ capture' = [capture EXCEPT ![c] = "finished"]
    /\ best' = [best EXCEPT ![c] = accuracy]
    /\ IF accuracy # None
          THEN answer' = [of |-> c, accuracy |-> accuracy] /\ Becomes(c, "done")
          ELSE UNCHANGED answer /\ Becomes(c, "error")

\* A position: the capture ends if it is good enough or the time is over.
Sample(c, accuracy) ==
    /\ capture[c] = "watching"
    /\ \/ Finished(c, BestOf(best[c], accuracy))
       \/ /\ accuracy > TARGET_M
          /\ best' = [best EXCEPT ![c] = BestOf(@, accuracy)]
          /\ UNCHANGED <<answer, locState, capture>>
    /\ UNCHANGED <<mine, crossed, shown, leaves>>

\* The browser reports an error: denied, or no position for a while.  The timer
\* runs on, and positions may still come.
LocationError(c) ==
    /\ capture[c] = "watching"
    /\ Becomes(c, "error")
    /\ UNCHANGED <<capture, mine, best, crossed, screenVars>>

\* Mutant: the timer gives up only when there is a sample to take.
TimeoutWithSample(c) ==
    /\ capture[c] = "watching" /\ best[c] # None
    /\ Finished(c, best[c])
    /\ UNCHANGED <<mine, crossed, shown, leaves>>

Timeout(c) ==
    /\ capture[c] = "watching"
    /\ Finished(c, best[c])
    /\ UNCHANGED <<mine, crossed, shown, leaves>>

Clear ==
    /\ shown /\ locState = "done" /\ answer # None
    /\ answer' = None
    /\ locState' = "idle"
    /\ UNCHANGED <<capture, mine, best, crossed, shown, leaves>>

LeaveLocation == LeaveScreen /\ UNCHANGED locationVars

\* The widget knows nothing of an answer given before.
ReturnToLocation ==
    /\ ReturnToScreen
    /\ locState' = "idle"
    /\ mine' = {}
    /\ UNCHANGED <<capture, best, crossed>>

LocationNext ==
    \/ \E c \in Captures :
          \/ CaptureLocation(c) \/ LocationError(c) \/ Timeout(c)
          \/ \E accuracy \in Accuracies : Sample(c, accuracy)
    \/ Clear \/ LeaveLocation \/ ReturnToLocation

-----------------------------------------------------------------------------

\* "Location captured" comes with a location, the best of all the samples of a
\* capture; "Averaging signal" with a capture that is not over, and an error with
\* no location, however often errors, retries and late timers follow each other --
\* but for an error beside a location when a retry began before the timer of the
\* capture that failed, or a location was taken after coming back while the one
\* before was still on its way.
CaptureShown ==
    shown =>
        /\ locState = "done" => answer # None
        /\ locState = "loading" => Watching \cap mine # {}
        /\ locState = "error" /\ answer # None => crossed \/ leaves > 0

\* A capture ends: the button does not stay disabled for want of a position.
CaptureEnds ==
    shown /\ locState = "loading" ~> locState # "loading" \/ ~shown
=============================================================================
