-------------------------- MODULE MCAudioPipeline --------------------------
(* Small instances of AudioPipeline for TLC. *)
EXTENDS AudioPipeline, TLC

\* Workers, responses, slots and uploads are interchangeable: no action and
\* no safety property singles one out.
Symmetry == Permutations(Workers) \cup Permutations(Responses)
                \cup Permutations(Slots) \cup Permutations(Uploads)
=============================================================================
