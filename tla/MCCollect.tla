----------------------------- MODULE MCCollect -----------------------------
(* Small instances of CollectPage for TLC. *)
EXTENDS CollectPage, TLC

Question(kind, required) == [kind |-> kind, required |-> required]

\* Surveys of two questions in which each kind of question occurs, and each
\* way of moving on: by the button and by a choice, once or more.
TwoQuestions == {
    <<Question("audio", TRUE), Question("choice", FALSE)>>,
    <<Question("choice", TRUE), Question("text", TRUE)>>,
    <<Question("location", FALSE), Question("image", FALSE)>> }

\* A survey that ends with a choice nobody has to make.
LastIsChoice == { <<Question("choice", FALSE)>> }

\* Calls and submissions are interchangeable.
Symmetry == Permutations(Starts) \cup Permutations(Submits)
=============================================================================
