--------------------------- MODULE MCMeetingMemory ---------------------------
(* Constants for the run of MeetingMemory: two builders; utterances shorter *)
(* than, equal to and longer than the growth a rebuild needs.               *)
EXTENDS MeetingMemory
CONSTANTS b1, b2
TwoBuilders == {b1, b2}
UtteranceLengths == {1, 3, 4}
=============================================================================
