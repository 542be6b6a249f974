--------------------------- MODULE MCInsightEmail ---------------------------
(* Constants for the model-checking runs of InsightEmail.                  *)
EXTENDS InsightEmail
CONSTANTS t1, w1, s1, a1
OneTick == {t1}
OneWebhook == {w1}
OneSender == {s1}
OneAnalyzer == {a1}
None == {}
=============================================================================
