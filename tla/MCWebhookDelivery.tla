-------------------------- MODULE MCWebhookDelivery --------------------------
(* Constants for the run of WebhookDelivery: the completion of a meeting,   *)
(* two events of another type, one of them without an id, and a ring of one *)
(* id, so that every second event evicts the first.                         *)
EXTENDS WebhookDelivery
CONSTANTS m1, done, nameless, other, h1, h2, q1
OneMeeting == {m1}
NoIds == {nameless}
AllEvents == {done, nameless, other}
AboutEvent == [e \in AllEvents |-> IF e = done THEN m1 ELSE Nothing]
TriesOf == [e \in AllEvents |-> IF e = done THEN 3 ELSE 1]
TwoHandlers == {h1, h2}
OnePoll == {q1}
OfTheMeeting == [q \in Polls |-> m1]
=============================================================================
