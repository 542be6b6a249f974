------------------------- MODULE MCMeetingLifecycle -------------------------
(* Constants for the model-checking runs of MeetingLifecycle.              *)
EXTENDS MeetingLifecycle
CONSTANTS loop, admin, q1, room

OneRow == {1}
Second == {2}
TwoRows == {1, 2}
OneRoom == {room}
SameRoom == [m \in Rows |-> room]
Loop == {loop}
Admin == {admin}
LoopAndAdmin == {loop, admin}
OneRequest == {q1}
Nothing == {}
AllKinds == {"refresh", "stop", "webhook"}
=============================================================================
