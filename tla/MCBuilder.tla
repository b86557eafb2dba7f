----------------------------- MODULE MCBuilder -----------------------------
(* The builder page for TLC: the editor of the questions, or the bar above   *)
(* it.  They share no state, so every behaviour works one of them.           *)
EXTENDS QuestionEditor, SurveyHeader

VARIABLE part

builderVars == <<part, editorVars, headerVars>>

Init == part \in {"questions", "header"} /\ EditorInit /\ HeaderInit

Next ==
    \/ part = "questions" /\ EditorNext /\ UNCHANGED <<part, headerVars>>
    \/ part = "header" /\ HeaderNext /\ UNCHANGED <<part, editorVars>>

Spec == Init /\ [][Next]_builderVars /\ EditorFairness

\* Both parts of SurveyBuilderPage.tsx keep their types.
TypeOK == EditorTypeOK /\ HeaderTypeOK
=============================================================================
