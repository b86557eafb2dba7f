--------------------------- MODULE MCCollectStore ---------------------------
(* Small instances of CollectPage, SurveyStore and ReviewPage, checked in one *)
(* run: part says which of them moves, the others stay at an initial state.   *)
EXTENDS MCCollect, SurveyStore, ReviewPage

VARIABLE part

AllVars == <<part, vars, storeVars, reviewVars>>

AllInit ==
    /\ Init /\ StoreInit /\ ReviewInit
    /\ part \in {"page", "store", "review"}
    /\ part # "page" => backend = "go" /\ survey = CHOOSE s \in Surveys : TRUE
    /\ part # "store" => server = "go"

AllNext ==
    \/ part = "page" /\ Next /\ UNCHANGED <<part, storeVars, reviewVars>>
    \/ part = "store" /\ StoreNext /\ UNCHANGED <<part, vars, reviewVars>>
    \/ part = "review" /\ ReviewNext /\ UNCHANGED <<part, vars, storeVars>>

AllSpec == AllInit /\ [][AllNext]_AllVars

\* The page, the store and the pages of the researcher keep their types.
AllTypeOK == TypeOK /\ StoreTypeOK /\ ReviewTypeOK

=============================================================================
