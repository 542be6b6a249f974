------------------------- MODULE MCCopilotMentions -------------------------
(* Constants for the model-checking run of CopilotMentions.                *)
EXTENDS CopilotMentions
CONSTANTS p1, p2
TwoPollers == {p1, p2}
EveryKind == <<"question", "other", "handle", "question">>
=============================================================================
