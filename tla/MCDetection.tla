---------------------------- MODULE MCDetection ----------------------------
(* Constants for the model-checking runs of Detection.                     *)
EXTENDS Detection
CONSTANTS e1, e2, e3, g1, g2, m1, A, B

ThreeEvents == {e1, e2, e3}
Nothing == {}
TwoMails == {g1, g2}
OneManual == {m1}

\* Two events with one recurring link, which both e-mails and the request are
\* about, too, and an event with a link of its own.
SharedLink == [s \in Sources |-> IF s = e3 THEN B ELSE A]
=============================================================================
