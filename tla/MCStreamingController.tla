------------------------ MODULE MCStreamingController ------------------------
(* Model values for the songs of StreamingController.                       *)
EXTENDS StreamingController, TLC

Symmetry == Permutations(Songs)
=============================================================================
