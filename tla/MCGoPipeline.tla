---------------------------- MODULE MCGoPipeline ----------------------------
(* Small instances of GoPipeline for TLC. *)
EXTENDS GoPipeline, TLC

\* Workers, responses, slots and uploads are interchangeable: no action and
\* no safety property singles one out.
Symmetry == Permutations(Workers) \cup Permutations(Responses)
                \cup Permutations(Slots) \cup Permutations(Uploads)
=============================================================================
