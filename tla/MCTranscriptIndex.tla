------------------------- MODULE MCTranscriptIndex -------------------------
(* Constants for the model-checking runs of TranscriptIndex. Lines of 1, 3 *)
(* and 7 characters against a target of 5 and a maximum of 8: several to a *)
(* chunk, one that fills it, one that is too long for any.                 *)
EXTENDS TranscriptIndex
CONSTANTS p1, p2
TwoPollers == {p1, p2}
LineLengths == {1, 3, 7}
=============================================================================
