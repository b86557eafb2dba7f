--------------------------- MODULE QuestionScreen ---------------------------
(* CollectPage.tsx, QuestionScreen: a question on the respondent's screen and *)
(* the answer it has.  The page keeps the answer when the screen goes; what   *)
(* was started on the screen may still answer then.                           *)
EXTENDS Naturals

CONSTANTS
    None,
    MaxLeaves   \* bound: how often the question is left

ASSUME ScreenAssumption == MaxLeaves \in Nat

VARIABLES
    answer,     \* answers[question.id], None when undefined, null or ''
    shown,      \* whether the question is on the screen
    leaves

screenVars == <<answer, shown, leaves>>

ScreenInit == answer = None /\ shown = TRUE /\ leaves = 0

\* Next, or back: the screen goes with the state of its widgets.
LeaveScreen ==
    /\ shown /\ leaves < MaxLeaves
    /\ shown' = FALSE
    /\ leaves' = leaves + 1
    /\ UNCHANGED answer

ReturnToScreen == ~shown /\ shown' = TRUE /\ UNCHANGED <<answer, leaves>>
=============================================================================
