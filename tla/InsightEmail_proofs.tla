------------------------ MODULE InsightEmail_proofs ------------------------
(***************************************************************************)
(* Proofs about InsightEmail for any sets of ticks, webhook tasks and      *)
(* routes, any EMAIL_MAX_ATTEMPTS, any number of HTTP retries and of       *)
(* crashes.                                                                *)
(***************************************************************************)
EXTENDS InsightEmail, FiniteSetTheorems, TLAPS

(* A return or an exception leaves every actor's entries well typed.         *)
LEMMA ExitType ==
  ASSUME TypeOK, NEW p \in Procs, Exit(p)
  PROVE  /\ pc' \in [Procs -> Places]
         /\ lock' \in Procs \cup {NoOne}
         /\ mem' \in [Procs -> Row]
         /\ seen' \in [Procs -> BOOLEAN]
         /\ http' \in [Procs -> 0 .. Retries]
BY BoundsAssumption
DEF BoundsAssumption, TypeOK, Exit, Places, Row, NewRow, Statuses

LEMMA WrittenType ==
  ASSUME TypeOK, NEW p \in Procs, NEW s \in Statuses
  PROVE  Written(p, s) \in Statuses
BY DEF TypeOK, Written, Row

LEMMA RecordErrorType ==
  ASSUME TypeOK, NEW p \in Procs, RecordError(p)
  PROVE  row' \in Row /\ failures' \in Nat
<1>1. Written(p, "EMAIL_FAILED") \in Statuses
  BY WrittenType DEF Statuses
<1>2. mem[p].attempts + 1 \in Nat
  BY DEF TypeOK, Row
<1>3. QED
  BY <1>1, <1>2 DEF RecordError, Row, TypeOK

LEMMA TypeInitial == ASSUME Init PROVE TypeOK
<1>1. row \in Row /\ mem \in [Procs -> Row]
  BY DEF Init, NewRow, Row, Statuses
<1>2. /\ pc \in [Procs -> Places]
      /\ http \in [Procs -> 0 .. Retries]
      /\ crashes \in 0 .. MaxCrashes
  BY BoundsAssumption DEF BoundsAssumption, Init, Places
<1>3. QED
  BY <1>1, <1>2 DEF Init, TypeOK

LEMMA TypeInductive == ASSUME TypeOK, [Next]_vars PROVE TypeOK'
<1>1. CASE UNCHANGED vars
  BY <1>1 DEF TypeOK, vars
<1>2. CASE Crash
  BY <1>2, BoundsAssumption
  DEF BoundsAssumption, Crash, TypeOK, tables, history, NewRow, Row, Statuses,
      Places
<1>8. CASE RequestTranscript
  BY <1>8 DEF RequestTranscript, TypeOK, sessions, history
<1>3. ASSUME NEW p \in Procs, Start(p) PROVE TypeOK'
  <2>1. CASE Select(p)
    BY <2>1 DEF Select, TypeOK, Goto, tables, history, Places
  <2>2. CASE Spawn(p)
    BY <2>2 DEF Spawn, TypeOK, Goto, tables, history, Places
  <2>3. CASE RequestAnalysis(p)
    BY <2>3, ExitType
    DEF RequestAnalysis, TypeOK, Goto, tables, history, Places
  <2>4. CASE RequestSend(p)
    BY <2>4 DEF RequestSend, TypeOK, Goto, tables, history, Places
  <2>5. QED
    BY <1>3, <2>1, <2>2, <2>3, <2>4 DEF Start
<1>4. ASSUME NEW p \in Procs, Finalize(p) PROVE TypeOK'
  <2>1. CASE Enter(p)
    BY <2>1, ExitType DEF Enter, TypeOK, Goto, tables, history, Places
  <2>2. CASE Lookup(p)
    BY <2>2 DEF Lookup, TypeOK, Goto, tables, sessions, history, Places
  <2>3. CASE FetchFails(p)
    BY <2>3, ExitType DEF FetchFails, TypeOK, tables, history
  <2>4. CASE FetchStores(p)
    BY <2>4 DEF FetchStores, TypeOK, Goto, sessions, history, Places
  <2>5. QED
    BY <1>4, <2>1, <2>2, <2>3, <2>4 DEF Finalize
<1>5. ASSUME NEW p \in Procs, Analyze(p) PROVE TypeOK'
  <2>1. CASE AnalysisReturns(p)
    BY <2>1 DEF AnalysisReturns, TypeOK, Goto, tables, history, Places
  <2>2. CASE AnalysisFails(p)
    <3>1. Written(p, "FAILED_ANALYSIS") \in Statuses
      BY WrittenType DEF Statuses
    <3>2. row' \in Row
      BY <2>2, <3>1 DEF AnalysisFails, TypeOK, Row
    <3>3. QED
      BY <2>2, <3>2, ExitType DEF AnalysisFails, TypeOK, history
  <2>3. CASE StoreReport(p)
    BY <2>3, ExitType
    DEF StoreReport, TypeOK, Goto, sessions, history, Places
  <2>4. CASE StoreCollides(p)
    BY <2>4, ExitType DEF StoreCollides, TypeOK, tables, history
  <2>5. QED
    BY <1>5, <2>1, <2>2, <2>3, <2>4 DEF Analyze
<1>6. ASSUME NEW p \in Procs, Send(p) PROVE TypeOK'
  <2>1. CASE NoReport(p)
    BY <2>1, ExitType DEF NoReport, TypeOK, tables, history
  <2>2. CASE NoRecipients(p)
    BY <2>2, ExitType, RecordErrorType DEF NoRecipients, RecordError, TypeOK
  <2>3. CASE WinClaim(p)
    BY <2>3, BoundsAssumption
    DEF BoundsAssumption, WinClaim, TypeOK, Goto, history, Places
  <2>4. CASE LoseClaim(p)
    BY <2>4 DEF LoseClaim, TypeOK, Goto, tables, sessions, history, Places
  <2>5. ASSUME MarkAlreadySent(p) \/ RecordSent(p) PROVE TypeOK'
    <3>1. Written(p, "COMPLETED") \in Statuses
      BY WrittenType DEF Statuses
    <3>2. row' \in Row
      BY <2>5, <3>1 DEF MarkAlreadySent, RecordSent, TypeOK, Row
    <3>3. QED
      BY <2>5, <3>2, ExitType
      DEF MarkAlreadySent, RecordSent, TypeOK, history
  <2>6. CASE PostOK(p)
    BY <2>6 DEF PostOK, TypeOK, Goto, tables, sessions, Places
  <2>7. ASSUME RetryOrFail(p)
        PROVE  pc' \in [Procs -> Places] /\ http' \in [Procs -> 0 .. Retries]
    BY <2>7, BoundsAssumption
    DEF BoundsAssumption, RetryOrFail, Goto, TypeOK, Places
  <2>8. CASE PostUnheard(p)
    BY <2>7, <2>8 DEF PostUnheard, RetryOrFail, TypeOK, tables
  <2>9. CASE PostRefused(p)
    BY <2>7, <2>9 DEF PostRefused, RetryOrFail, TypeOK, tables, history
  <2>10. CASE PostRejected(p)
    BY <2>10 DEF PostRejected, TypeOK, Goto, tables, sessions, history, Places
  <2>11. CASE RecordFailed(p)
    BY <2>11, ExitType, RecordErrorType DEF RecordFailed, TypeOK
  <2>12. QED
    BY <1>6, <2>1, <2>2, <2>3, <2>4, <2>5, <2>6, <2>8, <2>9, <2>10, <2>11
    DEF Send, Post
<1>7. QED
  BY <1>1, <1>2, <1>3, <1>4, <1>5, <1>6, <1>8 DEF Next, Step

(* The state keeps its types: the statuses are the four the pipeline writes, *)
(* and a request is never tried more often than request_with_retries says.   *)
THEOREM TypeCorrect == Spec => []TypeOK
BY TypeInitial, TypeInductive, PTL DEF Spec

-----------------------------------------------------------------------------
(* Who may send *)

(* A confirmed send keeps the claim set and leaves no other send under way;  *)
(* this is what makes "no send after the confirmation" inductive.            *)
ConfirmedKeepsClaim ==
  /\ sentAt => report
  /\ \A p \in Procs : pc[p] = "sent" => acked
  /\ acked => sentAt /\ \A p \in Procs : pc[p] \in Sending => pc[p] = "sent"

(* Only finalizers queue for the finalize lock.                              *)
WaitersFinalize == \A p \in Procs : pc[p] = "wait" => p \in Finalizers

IInv == /\ TypeOK
        /\ ClaimExclusive
        /\ LockInPipeline
        /\ ConfirmedKeepsClaim
        /\ WaitersFinalize

(* What moving one actor does to the places of all.                          *)
LEMMA ExitPlaces ==
  ASSUME TypeOK, NEW p \in Procs, Exit(p)
  PROVE  /\ pc'[p] \in {"idle", "done"}
         /\ \A q \in Procs \ {p} : pc'[q] = pc[q]
         /\ lock' = IF lock = p THEN NoOne ELSE lock
BY DEF TypeOK, Exit

LEMMA GotoPlaces ==
  ASSUME TypeOK, NEW p \in Procs, NEW place, Goto(p, place)
  PROVE  /\ pc'[p] = place
         /\ \A q \in Procs \ {p} : pc'[q] = pc[q]
BY DEF TypeOK, Goto

(* The claim, the lock and the confirmation, together inductive.             *)
LEMMA SendersInductive ==
  ASSUME IInv, [Next]_vars
  PROVE  (/\ ClaimExclusive
          /\ LockInPipeline
          /\ ConfirmedKeepsClaim
          /\ WaitersFinalize)'
<1> DEFINE Goal == (/\ ClaimExclusive
                    /\ LockInPipeline
                    /\ ConfirmedKeepsClaim
                    /\ WaitersFinalize)'
<1> USE ActorsAssumption DEF ActorsAssumption, IInv, ClaimExclusive,
        LockInPipeline, ConfirmedKeepsClaim, WaitersFinalize, Sending, Locked,
        tables, sessions, history
<1>1. CASE UNCHANGED vars
  BY <1>1 DEF vars
<1>2. CASE Crash
  <2>1. \A p \in Procs : pc'[p] \in {"idle", "done"}
    BY <1>2 DEF Crash
  <2>2. lock' = NoOne /\ UNCHANGED <<report, sentAt, acked>>
    BY <1>2 DEF Crash
  <2>3. QED
    BY <2>1, <2>2 DEF Finalizers, Procs
<1>8. CASE RequestTranscript
  BY <1>8 DEF RequestTranscript
<1>3. ASSUME NEW p \in Procs, Start(p) PROVE Goal
  <2>1. CASE Select(p)
    BY <2>1, ExitPlaces, GotoPlaces DEF Select, Finalizers, Procs
  <2>2. CASE Spawn(p)
    BY <2>2, ExitPlaces, GotoPlaces DEF Spawn, Finalizers, Procs
  <2>3. CASE RequestAnalysis(p)
    BY <2>3, ExitPlaces, GotoPlaces DEF RequestAnalysis, Finalizers, Procs
  <2>4. CASE RequestSend(p)
    BY <2>4, ExitPlaces, GotoPlaces DEF RequestSend, Finalizers, Procs
  <2>5. QED
    BY <1>3, <2>1, <2>2, <2>3, <2>4 DEF Start
<1>4. ASSUME NEW p \in Procs, Finalize(p) PROVE Goal
  <2>1. CASE Enter(p)
    <3>1. p \in Finalizers /\ lock = NoOne /\ UNCHANGED <<report, sentAt, acked>>
      BY <2>1 DEF Enter
    <3>2. CASE row.status = "COMPLETED"
      BY <2>1, <3>1, <3>2, ExitPlaces DEF Enter, Finalizers, Procs
    <3>3. CASE row.status # "COMPLETED"
      BY <2>1, <3>1, <3>3, GotoPlaces DEF Enter, Finalizers, Procs
    <3>4. QED
      BY <3>2, <3>3
  <2>2. CASE Lookup(p)
    BY <2>2, ExitPlaces, GotoPlaces DEF Lookup, Finalizers, Procs
  <2>3. CASE FetchFails(p)
    BY <2>3, ExitPlaces, GotoPlaces DEF FetchFails, Finalizers, Procs
  <2>4. CASE FetchStores(p)
    BY <2>4, ExitPlaces, GotoPlaces DEF FetchStores, Finalizers, Procs
  <2>5. QED
    BY <1>4, <2>1, <2>2, <2>3, <2>4 DEF Finalize
<1>5. ASSUME NEW p \in Procs, Analyze(p) PROVE Goal
  <2>1. CASE AnalysisReturns(p)
    BY <2>1, ExitPlaces, GotoPlaces DEF AnalysisReturns, Finalizers, Procs
  <2>2. CASE AnalysisFails(p)
    BY <2>2, ExitPlaces, GotoPlaces DEF AnalysisFails, Finalizers, Procs
  <2>3. CASE StoreReport(p)
    BY <2>3, ExitPlaces, GotoPlaces DEF StoreReport, Finalizers, Procs
  <2>4. CASE StoreCollides(p)
    BY <2>4, ExitPlaces, GotoPlaces DEF StoreCollides, Finalizers, Procs
  <2>5. QED
    BY <1>5, <2>1, <2>2, <2>3, <2>4 DEF Analyze
<1>6. ASSUME NEW p \in Procs, Send(p) PROVE Goal
  <2>1. CASE NoReport(p)
    BY <2>1, ExitPlaces, GotoPlaces DEF NoReport, Finalizers, Procs
  <2>2. CASE NoRecipients(p)
    BY <2>2, ExitPlaces, GotoPlaces
    DEF NoRecipients, RecordError, Finalizers, Procs
  <2>3. CASE WinClaim(p)
    BY <2>3, ExitPlaces, GotoPlaces DEF WinClaim, Finalizers, Procs
  <2>4. CASE LoseClaim(p)
    BY <2>4, ExitPlaces, GotoPlaces DEF LoseClaim, Finalizers, Procs
  <2>5. CASE MarkAlreadySent(p)
    BY <2>5, ExitPlaces, GotoPlaces DEF MarkAlreadySent, Finalizers, Procs
  <2>6. CASE PostOK(p)
    BY <2>6, ExitPlaces, GotoPlaces DEF PostOK, Finalizers, Procs
  <2>7. CASE PostUnheard(p)
    BY <2>7, ExitPlaces, GotoPlaces
    DEF PostUnheard, RetryOrFail, Finalizers, Procs
  <2>8. CASE PostRefused(p)
    BY <2>8, ExitPlaces, GotoPlaces
    DEF PostRefused, RetryOrFail, Finalizers, Procs
  <2>9. CASE PostRejected(p)
    BY <2>9, ExitPlaces, GotoPlaces DEF PostRejected, Finalizers, Procs
  <2>10. CASE RecordSent(p)
    BY <2>10, ExitPlaces, GotoPlaces DEF RecordSent, Finalizers, Procs
  <2>11. CASE RecordFailed(p)
    BY <2>11, ExitPlaces, GotoPlaces
    DEF RecordFailed, RecordError, Finalizers, Procs
  <2>12. QED
    BY <1>6, <2>1, <2>2, <2>3, <2>4, <2>5, <2>6, <2>7, <2>8, <2>9, <2>10, <2>11
    DEF Send, Post
<1>7. QED
  BY <1>1, <1>2, <1>3, <1>4, <1>5, <1>6, <1>8 DEF Next, Step

LEMMA Inductive == Spec => []IInv
<1>1. Init => IInv
  <2> SUFFICES ASSUME Init PROVE IInv
    OBVIOUS
  <2>1. \A p \in Procs : pc[p] = "idle"
    BY DEF Init
  <2>2. /\ ClaimExclusive
        /\ LockInPipeline
        /\ ConfirmedKeepsClaim
        /\ WaitersFinalize
    BY <2>1, ActorsAssumption
    DEF Init, ActorsAssumption, ClaimExclusive, LockInPipeline, Finalizers,
        Procs, ConfirmedKeepsClaim, WaitersFinalize, Sending, Locked
  <2>3. QED
    BY <2>2, TypeInitial DEF IInv
<1>2. IInv /\ [Next]_vars => IInv'
  BY SendersInductive, TypeInductive DEF IInv
<1>3. QED
  BY <1>1, <1>2, PTL DEF Spec

(* Whoever asks for the e-mail, with the finalize lock or without, at most   *)
(* one actor at a time is between the claim and the commit of its outcome.   *)
THEOREM OneSenderAtATime == Spec => []ClaimExclusive
<1>1. IInv => ClaimExclusive
  BY DEF IInv
<1>2. QED
  BY <1>1, Inductive, PTL

(* The finalize lock is held by a finalizer that is inside the pipeline, and *)
(* by nobody once it has left, whichever way it left.                        *)
THEOREM LockNeverLeaks == Spec => []LockInPipeline
<1>1. IInv => LockInPipeline
  BY DEF IInv
<1>2. QED
  BY <1>1, Inductive, PTL

(* After Gmail confirmed one send nothing is offered to it any more: neither *)
(* a retry, nor another actor, nor a re-analysis, nor a restart does it.     *)
THEOREM ConfirmedOnce == Spec => NoSendAfterAck
<1>1. ASSUME IInv, [Next]_vars, acked PROVE delivered' = delivered
  <2> USE <1>1 DEF IInv, ConfirmedKeepsClaim, Sending
  <2>1. \A p \in Procs : ~PostOK(p) /\ ~PostUnheard(p)
    BY DEF PostOK, PostUnheard
  <2>2. CASE UNCHANGED vars
    BY <2>2 DEF vars
  <2>3. CASE Crash
    BY <2>3 DEF Crash, history
  <2>9. CASE RequestTranscript
    BY <2>9 DEF RequestTranscript, history
  <2>4. ASSUME NEW p \in Procs, Start(p) PROVE delivered' = delivered
    BY <2>4
    DEF Start, Select, Spawn, RequestAnalysis, RequestSend, history
  <2>5. ASSUME NEW p \in Procs, Finalize(p) PROVE delivered' = delivered
    BY <2>5 DEF Finalize, Enter, Lookup, FetchFails, FetchStores, history
  <2>6. ASSUME NEW p \in Procs, Analyze(p) PROVE delivered' = delivered
    BY <2>6
    DEF Analyze, AnalysisReturns, AnalysisFails, StoreReport, StoreCollides,
        history
  <2>7. ASSUME NEW p \in Procs, Send(p) PROVE delivered' = delivered
    BY <2>1, <2>7
    DEF Send, Post, NoReport, NoRecipients, WinClaim, LoseClaim,
        MarkAlreadySent, PostRefused, PostRejected, RecordSent, RecordFailed,
        history
  <2>8. QED
    BY <2>2, <2>3, <2>4, <2>5, <2>6, <2>7, <2>9 DEF Next, Step
<1>2. IInv /\ [Next]_vars => [acked => delivered' = delivered]_vars
  BY <1>1
<1>3. QED
  BY <1>2, Inductive, PTL DEF Spec, NoSendAfterAck

-----------------------------------------------------------------------------
(* InsightEmail implements EmailOutbox *)

(* A step that keeps the claim, the report and the confirmation, and moves   *)
(* nobody into or out of a send, leaves the outbox alone.                    *)
LEMMA OutboxStutters ==
  ASSUME UNCHANGED <<report, sentAt, acked, delivered>>,
         \A q \in Procs : (pc'[q] \in Sending) = (pc[q] \in Sending)
  PROVE  UNCHANGED <<phase, delivered>>
BY DEF phase

LEMMA OutboxStep ==
  ASSUME IInv, IInv', [Next]_vars
  PROVE  Outbox!OutboxNext \/ UNCHANGED <<phase, delivered>>
<1> DEFINE Goal == Outbox!OutboxNext \/ UNCHANGED <<phase, delivered>>
<1> USE DEF IInv, ConfirmedKeepsClaim, ClaimExclusive
<1>1. CASE UNCHANGED vars
  BY <1>1 DEF vars, phase
<1>2. CASE Crash
  <2>1. /\ UNCHANGED <<report, sentAt, acked, delivered>>
        /\ \A q \in Procs : pc'[q] \notin Sending
    BY <1>2 DEF Crash, tables, history, Sending
  <2>2. phase' = phase \/ (phase = "taken" /\ phase' = "lost")
    BY <2>1 DEF phase
  <2>3. QED
    BY <2>1, <2>2 DEF Outbox!OutboxNext, Outbox!Lose, Outbox!Move
<1>8. CASE RequestTranscript
  BY <1>8 DEF RequestTranscript, history, phase
<1>3. ASSUME NEW p \in Procs, Start(p) PROVE Goal
  <2>1. UNCHANGED <<report, sentAt, acked, delivered>>
    BY <1>3
    DEF Start, Select, Spawn, RequestAnalysis, RequestSend, tables, history
  <2>2. \A q \in Procs : (pc'[q] \in Sending) = (pc[q] \in Sending)
    BY <1>3, GotoPlaces, ExitPlaces
    DEF Start, Select, Spawn, RequestAnalysis, RequestSend, Sending
  <2>3. QED
    BY <2>1, <2>2, OutboxStutters
<1>4. ASSUME NEW p \in Procs, Finalize(p) PROVE Goal
  <2>1. UNCHANGED <<report, sentAt, acked, delivered>>
    BY <1>4
    DEF Finalize, Enter, Lookup, FetchFails, FetchStores, tables, history
  <2>2. \A q \in Procs : (pc'[q] \in Sending) = (pc[q] \in Sending)
    BY <1>4, GotoPlaces, ExitPlaces
    DEF Finalize, Enter, Lookup, FetchFails, FetchStores, Sending
  <2>3. QED
    BY <2>1, <2>2, OutboxStutters
<1>5. ASSUME NEW p \in Procs, Analyze(p) PROVE Goal
  <2>1. \A q \in Procs : (pc'[q] \in Sending) = (pc[q] \in Sending)
    BY <1>5, GotoPlaces, ExitPlaces
    DEF Analyze, AnalysisReturns, AnalysisFails, StoreReport, StoreCollides,
        Sending
  <2>2. CASE StoreReport(p) /\ ~report
    <3>1. phase = "absent" /\ phase' = "ready" /\ delivered' = delivered
      BY <2>2 DEF StoreReport, history, phase
    <3>2. QED
      BY <3>1 DEF Outbox!OutboxNext, Outbox!Store, Outbox!Move
  <2>3. CASE ~(StoreReport(p) /\ ~report)
    <3>1. UNCHANGED <<report, sentAt, acked, delivered>>
      BY <1>5, <2>3
      DEF Analyze, AnalysisReturns, AnalysisFails, StoreReport, StoreCollides,
          tables, history, TypeOK
    <3>2. QED
      BY <2>1, <3>1, OutboxStutters
  <2>4. QED
    BY <2>2, <2>3
<1>6. ASSUME NEW p \in Procs, Send(p) PROVE Goal
  <2>1. CASE WinClaim(p)
    <3>1. pc'[p] = "post" /\ \A q \in Procs : pc[q] \notin Sending
      BY <2>1, GotoPlaces DEF WinClaim
    <3>2. phase = "ready" /\ phase' = "taken" /\ delivered' = delivered
      BY <2>1, <3>1 DEF WinClaim, history, phase, Sending
    <3>3. QED
      BY <3>2 DEF Outbox!OutboxNext, Outbox!Take, Outbox!Move
  <2>2. CASE PostOK(p)
    <3>1. phase = "taken" /\ phase' = "sent" /\ delivered' = delivered + 1
      BY <2>2 DEF PostOK, phase, Sending
    <3>2. QED
      BY <3>1 DEF Outbox!OutboxNext, Outbox!Confirm, Outbox!Move
  <2>3. CASE PostUnheard(p)
    <3>1. pc'[p] \in Sending
      BY <2>3, GotoPlaces DEF PostUnheard, RetryOrFail, Sending
    <3>2. phase = "taken" /\ phase' = "taken" /\ delivered' = delivered + 1
      BY <2>3, <3>1 DEF PostUnheard, phase, tables, Sending
    <3>3. QED
      BY <3>2 DEF Outbox!OutboxNext, Outbox!AcceptUnheard, Outbox!Move
  <2>4. CASE RecordFailed(p)
    <3>1. phase = "taken" /\ phase' = "ready" /\ delivered' = delivered
      BY <2>4 DEF RecordFailed, phase, Sending
    <3>2. QED
      BY <3>1 DEF Outbox!OutboxNext, Outbox!GiveBack, Outbox!Move
  <2>5. CASE RecordSent(p)
    <3>1. phase = "sent" /\ phase' = "sent" /\ delivered' = delivered
      BY <2>5 DEF RecordSent, phase, history
    <3>2. QED
      BY <3>1
  <2>6. ASSUME PostRefused(p) \/ PostRejected(p) PROVE Goal
    <3>1. \A q \in Procs : (pc'[q] \in Sending) = (pc[q] \in Sending)
      BY <2>6, GotoPlaces DEF PostRefused, PostRejected, RetryOrFail, Sending
    <3>2. UNCHANGED <<report, sentAt, acked, delivered>>
      BY <2>6 DEF PostRefused, PostRejected, tables, history
    <3>3. QED
      BY <3>1, <3>2, OutboxStutters
  <2>7. ASSUME NoReport(p) \/ NoRecipients(p) \/ LoseClaim(p) \/ MarkAlreadySent(p)
        PROVE  Goal
    <3>1. \A q \in Procs : (pc'[q] \in Sending) = (pc[q] \in Sending)
      BY <2>7, GotoPlaces, ExitPlaces
      DEF NoReport, NoRecipients, LoseClaim, MarkAlreadySent, Sending
    <3>2. UNCHANGED <<report, sentAt, acked, delivered>>
      BY <2>7
      DEF NoReport, NoRecipients, LoseClaim, MarkAlreadySent, tables, history
    <3>3. QED
      BY <3>1, <3>2, OutboxStutters
  <2>8. QED
    BY <1>6, <2>1, <2>2, <2>3, <2>4, <2>5, <2>6, <2>7 DEF Send, Post
<1>7. QED
  BY <1>1, <1>2, <1>3, <1>4, <1>5, <1>6, <1>8 DEF Next, Step

(* The pipeline and the routes together keep the promise of EmailOutbox: the *)
(* report is taken by one sender at a time and is at rest once confirmed.    *)
THEOREM RefinesOutbox == Spec => ImplementsOutbox
<1>1. Init => Outbox!OutboxInit
  BY DEF Init, phase, Outbox!OutboxInit
<1>2. IInv /\ IInv' /\ [Next]_vars => [Outbox!OutboxNext]_<<phase, delivered>>
  BY OutboxStep
<1>3. QED
  BY <1>1, <1>2, Inductive, PTL
  DEF Spec, ImplementsOutbox, Outbox!OutboxSpec, Outbox!outboxVars

-----------------------------------------------------------------------------
(* The pipeline alone: no request to a route yet, no crash *)

(* A step moves one actor, and a route that moves has started for good.      *)
LEMMA RoutesStayStarted ==
  ASSUME [Next]_vars, ~Crash, pc \in [Procs -> Places],
         NEW q \in Procs, q \notin Ticks, pc'[q] = "idle"
  PROVE  pc[q] = "idle"
<1>1. CASE UNCHANGED <<pc>>
  BY <1>1
<1>2. ASSUME NEW p \in Procs, Start(p) \/ Step(p) PROVE pc[q] = "idle"
  <2>1. ASSUME NEW place \in Places \ {"idle"}, Goto(p, place) PROVE pc[q] = "idle"
    BY <2>1 DEF Goto
  <2>2. ASSUME Exit(p) PROVE pc[q] = "idle"
    BY <2>2 DEF Exit
  <2>3. ASSUME RetryOrFail(p) PROVE pc[q] = "idle"
    BY <2>3 DEF RetryOrFail, Goto
  <2>4. CASE Start(p)
    BY <2>1, <2>2, <2>4
    DEF Start, Select, Spawn, RequestAnalysis, RequestSend, Places
  <2>5. CASE Finalize(p)
    BY <2>1, <2>2, <2>5
    DEF Finalize, Enter, Lookup, FetchFails, FetchStores, Places
  <2>6. CASE Analyze(p)
    BY <2>1, <2>2, <2>6
    DEF Analyze, AnalysisReturns, AnalysisFails, StoreReport, StoreCollides, Places
  <2>7. CASE Send(p)
    BY <2>1, <2>2, <2>3, <2>7
    DEF Send, Post, NoReport, NoRecipients, WinClaim, LoseClaim, MarkAlreadySent,
        PostOK, PostUnheard, PostRefused, PostRejected, RecordSent, RecordFailed,
        Places
  <2>8. QED
    BY <1>2, <2>4, <2>5, <2>6, <2>7 DEF Step
<1>3. QED
  BY <1>1, <1>2 DEF Next, vars, RequestTranscript

(* Only a crash is counted as one.                                           *)
LEMMA NextCounts ==
  ASSUME [Next]_vars, ~Crash
  PROVE  crashes' = crashes
<1>1. ASSUME NEW p \in Procs, Start(p) \/ Step(p) PROVE crashes' = crashes
  BY <1>1
  DEF Start, Select, Spawn, RequestAnalysis, RequestSend, Step, Finalize, Enter,
      Lookup, FetchFails, FetchStores, Analyze, AnalysisReturns, AnalysisFails,
      StoreReport, StoreCollides, Send, Post, NoReport, NoRecipients, WinClaim,
      LoseClaim, MarkAlreadySent, PostOK, PostUnheard, PostRefused, PostRejected,
      RecordSent, RecordFailed
<1>2. QED
  BY <1>1 DEF Next, vars, RequestTranscript

\* Only what has happened already can end it.
LEMMA AloneBefore ==
  ASSUME TypeOK, [Next]_vars, Alone'
  PROVE  Alone /\ ~Crash
<1>1. crashes \in Nat /\ crashes' = 0
  BY BoundsAssumption DEF BoundsAssumption, TypeOK, Alone
<1>2. ~Crash
  BY <1>1 DEF Crash
<1>3. crashes = 0
  BY <1>1, <1>2, NextCounts
<1>4. ASSUME NEW q \in Senders \cup Analyzers PROVE pc[q] = "idle"
  <2>1. q \in Procs /\ q \notin Ticks /\ pc'[q] = "idle"
    BY <1>4, ActorsAssumption DEF ActorsAssumption, Alone, Procs, Finalizers
  <2>2. QED
    BY <1>2, <2>1, RoutesStayStarted DEF TypeOK
<1>5. QED
  BY <1>2, <1>3, <1>4 DEF Alone

(* With everybody inside the pipeline holding the finalize lock, the row the *)
(* holder loaded is the row as it is, and the claim is either in its hands   *)
(* or confirmed.                                                             *)
PipelineInv ==
  /\ \A p \in Procs :
       pc[p] \in Locked => mem[p] = row /\ row.status # "COMPLETED"
  /\ \A p \in Procs : pc[p] = "lost" => acked
  /\ sentAt => acked \/ \E p \in Procs : pc[p] \in Sending
  /\ acked => delivered > 0
  /\ row.status = "COMPLETED" => acked
  /\ row.attempts = failures

LEMMA PipelineInductive ==
  ASSUME Alone, Alone', ~Crash, IInv, PipelineInv, [Next]_vars
  PROVE  /\ PipelineInv'
         /\ row.status = "COMPLETED" => row'.status = "COMPLETED"
<1> DEFINE Goal == /\ PipelineInv'
                   /\ row.status = "COMPLETED" => row'.status = "COMPLETED"
<1> USE DEF IInv, PipelineInv
<1>1. \A q \in Procs : pc[q] # "idle" \/ pc'[q] # "idle" => q \in Finalizers
  BY DEF Alone, Procs, Finalizers
<1>2. CASE UNCHANGED vars
  BY <1>2 DEF vars
<1>3. ASSUME NEW p \in Procs, Start(p) PROVE Goal
  <2>1. CASE Select(p)
    BY <1>1, <2>1
    DEF Select, Goto, TypeOK, Row, Locked, Sending, LockInPipeline,
        ConfirmedKeepsClaim, tables, history
  <2>2. CASE Spawn(p)
    BY <1>1, <2>2
    DEF Spawn, Goto, TypeOK, Row, Locked, Sending, LockInPipeline,
        ConfirmedKeepsClaim, tables, history
  <2>3. p \in Finalizers
    BY <1>1, <1>3, ActorsAssumption
    DEF ActorsAssumption, Start, Select, Spawn, RequestAnalysis, RequestSend,
        Exit, Goto, TypeOK, Finalizers
  <2>4. QED
    BY <1>3, <2>1, <2>2, <2>3, ActorsAssumption
    DEF ActorsAssumption, Start, RequestSend, RequestAnalysis
<1>4. ASSUME NEW p \in Procs, Finalize(p) PROVE Goal
  <2>1. CASE Enter(p)
    BY <1>1, <2>1
    DEF Enter, Exit, Goto, TypeOK, Row, Locked, Sending, LockInPipeline,
        ConfirmedKeepsClaim, tables, history
  <2>2. CASE Lookup(p)
    BY <1>1, <2>2
    DEF Lookup, Goto, TypeOK, Row, Locked, Sending, LockInPipeline,
        ConfirmedKeepsClaim, tables, sessions, history
  <2>3. CASE FetchFails(p)
    BY <1>1, <2>3
    DEF FetchFails, Exit, TypeOK, Row, Locked, Sending, LockInPipeline,
        ConfirmedKeepsClaim, tables, history
  <2>4. CASE FetchStores(p)
    BY <1>1, <2>4
    DEF FetchStores, Goto, TypeOK, Row, Locked, Sending, LockInPipeline,
        ConfirmedKeepsClaim, sessions, history
  <2>5. QED
    BY <1>1, <1>4, <2>1, <2>2, <2>3, <2>4 DEF Finalize
<1>5. ASSUME NEW p \in Procs, Analyze(p) PROVE Goal
  <2>1. CASE AnalysisReturns(p)
    BY <1>1, <2>1
    DEF AnalysisReturns, Goto, TypeOK, Row, Locked, Sending, LockInPipeline,
        ConfirmedKeepsClaim, tables, history
  <2>2. CASE AnalysisFails(p)
    BY <1>1, <2>2
    DEF AnalysisFails, Written, Exit, TypeOK, Row, Locked, Sending,
        LockInPipeline, ConfirmedKeepsClaim, history
  <2>3. CASE StoreReport(p)
    BY <1>1, <2>3
    DEF StoreReport, Exit, Goto, TypeOK, Row, Locked, Sending, LockInPipeline,
        ConfirmedKeepsClaim, sessions, history
  <2>4. CASE StoreCollides(p)
    BY <1>1, <2>4
    DEF StoreCollides, Exit, TypeOK, Row, Locked, Sending, LockInPipeline,
        ConfirmedKeepsClaim, tables, history
  <2>5. QED
    BY <1>1, <1>5, <2>1, <2>2, <2>3, <2>4 DEF Analyze
<1>6. ASSUME NEW p \in Procs, Send(p) PROVE Goal
  <2>1. CASE NoReport(p)
    BY <1>1, <2>1
    DEF NoReport, Exit, TypeOK, Row, Locked, Sending, LockInPipeline,
        ConfirmedKeepsClaim, tables, history
  <2>2. CASE NoRecipients(p)
    BY <1>1, <2>2
    DEF NoRecipients, RecordError, Written, Exit, TypeOK, Row, Locked, Sending,
        LockInPipeline, ConfirmedKeepsClaim
  <2>3. CASE WinClaim(p)
    BY <1>1, <2>3
    DEF WinClaim, Goto, TypeOK, Row, Locked, Sending, LockInPipeline,
        ConfirmedKeepsClaim, history
  <2>4. CASE LoseClaim(p)
    BY <1>1, <2>4
    DEF LoseClaim, Goto, TypeOK, Row, Locked, Sending, LockInPipeline,
        ConfirmedKeepsClaim, tables, sessions, history
  <2>5. CASE MarkAlreadySent(p)
    BY <1>1, <2>5
    DEF MarkAlreadySent, Written, Exit, TypeOK, Row, Locked, Sending,
        LockInPipeline, ConfirmedKeepsClaim, history
  <2>6. CASE PostOK(p)
    BY <1>1, <2>6
    DEF PostOK, Goto, TypeOK, Row, Locked, Sending, LockInPipeline,
        ConfirmedKeepsClaim, tables, sessions
  <2>7. CASE PostUnheard(p)
    BY <1>1, <2>7
    DEF PostUnheard, RetryOrFail, Goto, TypeOK, Row, Locked, Sending,
        LockInPipeline, ConfirmedKeepsClaim, tables
  <2>8. CASE PostRefused(p)
    BY <1>1, <2>8
    DEF PostRefused, RetryOrFail, Goto, TypeOK, Row, Locked, Sending,
        LockInPipeline, ConfirmedKeepsClaim, tables, history
  <2>9. CASE PostRejected(p)
    BY <1>1, <2>9
    DEF PostRejected, Goto, TypeOK, Row, Locked, Sending, LockInPipeline,
        ConfirmedKeepsClaim, tables, sessions, history
  <2>10. CASE RecordSent(p)
    BY <1>1, <2>10
    DEF RecordSent, Written, Exit, TypeOK, Row, Locked, Sending,
        LockInPipeline, ConfirmedKeepsClaim, history
  <2>11. CASE RecordFailed(p)
    BY <1>1, <2>11
    DEF RecordFailed, RecordError, Written, Exit, TypeOK, Row, Locked, Sending,
        LockInPipeline, ConfirmedKeepsClaim
  <2>12. QED
    BY <1>1, <1>6, <2>1, <2>2, <2>3, <2>4, <2>5, <2>6, <2>7, <2>8, <2>9,
       <2>10, <2>11
    DEF Send, Post
<1>9. CASE RequestTranscript
  BY <1>9 DEF RequestTranscript, sessions, history
<1>7. ASSUME NEW p \in Procs, Start(p) \/ Step(p) PROVE Goal
  BY <1>3, <1>4, <1>5, <1>6, <1>7 DEF Step
<1>8. QED
  BY <1>2, <1>7, <1>9 DEF Next

LEMMA PipelineAlways == Spec => [](IInv /\ (Alone => PipelineInv))
<1>1. Init => PipelineInv
  BY DEF Init, PipelineInv, NewRow, Locked, Sending
<1>2. IInv /\ (Alone => PipelineInv) /\ [Next]_vars => (Alone' => PipelineInv')
  BY AloneBefore, PipelineInductive DEF IInv
<1>3. QED
  BY <1>1, <1>2, Inductive, PTL DEF Spec

(* As long as the pipeline is the only sender and the process has not died,  *)
(* a COMPLETED meeting's insights have been e-mailed: the finalize lock and  *)
(* the re-read under it suffice, however many ticks and webhook tasks race.  *)
THEOREM PipelineEmailsBeforeCompleted == Spec => []PipelineCompletesEmailed
<1>1. (Alone => PipelineInv) => PipelineCompletesEmailed
  BY DEF PipelineInv, PipelineCompletesEmailed, CompletedMeansEmailed
<1>2. QED
  BY <1>1, PipelineAlways, PTL

(* As long, no failed send goes uncounted: EMAIL_MAX_ATTEMPTS bounds them.   *)
THEOREM PipelineCountsFailures == Spec => []AttemptsCountFailures
<1>1. (Alone => PipelineInv) => AttemptsCountFailures
  BY DEF PipelineInv, AttemptsCountFailures
<1>2. QED
  BY <1>1, PipelineAlways, PTL

(* And no late finalizer takes COMPLETED back.                               *)
THEOREM PipelineCompletedIsFinal == Spec => CompletedIsFinal
<1>1. IInv /\ (Alone => PipelineInv) /\ [Next]_vars
        => [Alone' /\ row.status = "COMPLETED" => row'.status = "COMPLETED"]_vars
  BY AloneBefore, PipelineInductive DEF IInv
<1>2. QED
  BY <1>1, PipelineAlways, PTL DEF Spec, CompletedIsFinal
-----------------------------------------------------------------------------
(* How many copies a meeting's e-mail can cost *)

\* The copies n sends can leave behind when each tries Retries + 1 times.
Allowed(n) == (Retries + 1) * n

LEMMA AllowedGrows ==
  ASSUME NEW n \in Nat
  PROVE  /\ Allowed(n) \in Nat
         /\ Allowed(n + 1) \in Nat
         /\ Allowed(n + 1) = Allowed(n) + Retries + 1
         /\ Allowed(0) = 0
BY BoundsAssumption DEF BoundsAssumption, Allowed

(* Every failed send has paid for its copies; the one under way, or the one  *)
(* that kept the claim, is the only one besides.                             *)
CopiesPaid ==
  /\ delivered <= Allowed(failures + 1)
  /\ ~sentAt => delivered <= Allowed(failures)
  /\ \A p \in Procs : pc[p] = "post" => delivered <= Allowed(failures) + http[p]

\* A step that offers nothing, lets nobody start to and gives no claim back.
LEMMA QuietStep ==
  ASSUME CopiesPaid, TypeOK, delivered' = delivered,
         failures' \in {failures, failures + 1},
         sentAt' = sentAt \/ failures' = failures + 1,
         \A q \in Procs : pc'[q] = "post" =>
           pc[q] = "post" /\ http'[q] \in Nat /\ http'[q] >= http[q]
  PROVE  CopiesPaid'
<1>1. /\ delivered \in Nat
      /\ failures \in Nat
      /\ \A q \in Procs : http[q] \in Nat
  BY BoundsAssumption DEF BoundsAssumption, TypeOK
<1>2. /\ Allowed(failures) \in Nat
      /\ Allowed(failures + 1) \in Nat
      /\ Allowed(failures) <= Allowed(failures + 1)
      /\ failures' = failures + 1 =>
           /\ Allowed(failures' + 1) \in Nat
           /\ Allowed(failures + 1) <= Allowed(failures' + 1)
  BY <1>1, AllowedGrows, BoundsAssumption DEF BoundsAssumption
<1>3. delivered' <= Allowed(failures' + 1)
  <2>1. CASE failures' = failures
    BY <2>1 DEF CopiesPaid
  <2>2. CASE failures' = failures + 1
    BY <1>1, <1>2, <2>2 DEF CopiesPaid
  <2>3. QED
    BY <2>1, <2>2
<1>4. ~sentAt' => delivered' <= Allowed(failures')
  <2>1. CASE failures' = failures
    BY <1>1, <2>1 DEF CopiesPaid
  <2>2. CASE failures' = failures + 1
    BY <2>2 DEF CopiesPaid
  <2>3. QED
    BY <2>1, <2>2
<1>5. ASSUME NEW q \in Procs, pc'[q] = "post"
      PROVE  delivered' <= Allowed(failures') + http'[q]
  <2>1. delivered <= Allowed(failures) + http[q] /\ http'[q] \in Nat /\ http'[q] >= http[q]
    BY <1>5 DEF CopiesPaid
  <2>2. CASE failures' = failures
    <3>1. Allowed(failures') = Allowed(failures)
      BY <2>2
    <3>2. QED
      BY <1>1, <1>2, <2>1, <3>1
  <2>3. CASE failures' = failures + 1
    <3>1. Allowed(failures') = Allowed(failures + 1)
      BY <2>3
    <3>2. QED
      BY <1>1, <1>2, <2>1, <3>1
  <2>4. QED
    BY <2>2, <2>3
<1>6. QED
  BY <1>3, <1>4, <1>5 DEF CopiesPaid

\* One try of the only sender: a copy at most, and a retry is counted.
LEMMA TryStep ==
  ASSUME CopiesPaid, IInv, NEW p \in Procs, pc[p] = "post",
         UNCHANGED <<sentAt, failures>>,
         delivered' \in {delivered, delivered + 1},
         \A q \in Procs \ {p} : pc'[q] = pc[q],
         pc'[p] = "post" => http'[p] = http[p] + 1
  PROVE  CopiesPaid'
<1>1. /\ delivered \in Nat
      /\ failures \in Nat
      /\ http[p] \in 0 .. Retries
      /\ Retries \in Nat
  BY BoundsAssumption DEF BoundsAssumption, IInv, TypeOK
<1>2. /\ Allowed(failures) \in Nat
      /\ Allowed(failures + 1) = Allowed(failures) + Retries + 1
  BY <1>1, AllowedGrows
<1>3. sentAt /\ \A q \in Procs : pc[q] = "post" => q = p
  BY DEF IInv, ClaimExclusive, Sending
<1>4. delivered' <= Allowed(failures) + http[p] + 1
  BY <1>1, <1>2 DEF CopiesPaid
<1>5. delivered' \in Nat
  BY <1>1
<1>6. delivered' <= Allowed(failures + 1)
  BY <1>1, <1>2, <1>4, <1>5
<1>7. pc'[p] = "post" => delivered' <= Allowed(failures) + http'[p]
  BY <1>1, <1>2, <1>4, <1>5
<1>8. \A q \in Procs : pc'[q] = "post" => q = p
  BY <1>3
<1>9. QED
  BY <1>3, <1>6, <1>7, <1>8 DEF CopiesPaid

LEMMA CopiesInductive ==
  ASSUME IInv, CopiesPaid, [Next]_vars
  PROVE  CopiesPaid'
<1>t. /\ TypeOK
      /\ \A q \in Procs : http[q] \in Nat
  BY BoundsAssumption DEF BoundsAssumption, IInv, TypeOK
<1>1. CASE UNCHANGED vars
  BY <1>1 DEF vars, CopiesPaid
<1>2. CASE Crash
  <2>1. \A q \in Procs : pc'[q] # "post"
    BY <1>2 DEF Crash
  <2>2. QED
    BY <1>2, <1>t, <2>1, QuietStep DEF Crash, tables, history
<1>3. CASE RequestTranscript
  BY <1>3, <1>t DEF RequestTranscript, sessions, history, CopiesPaid
<1>4. ASSUME NEW p \in Procs, Exit(p), delivered' = delivered,
             failures' \in {failures, failures + 1},
             sentAt' = sentAt \/ failures' = failures + 1
      PROVE  CopiesPaid'
  <2>1. /\ pc'[p] # "post"
        /\ \A q \in Procs \ {p} : pc'[q] = pc[q] /\ http'[q] = http[q]
    BY <1>4, <1>t DEF Exit, TypeOK
  <2>2. QED
    BY <1>4, <1>t, <2>1, QuietStep
<1>5. ASSUME NEW p \in Procs, NEW place \in Places \ {"post"}, Goto(p, place),
             UNCHANGED <<delivered, failures, sentAt, http>>
      PROVE  CopiesPaid'
  <2>1. pc'[p] # "post" /\ \A q \in Procs \ {p} : pc'[q] = pc[q]
    BY <1>5, <1>t, GotoPlaces
  <2>2. QED
    BY <1>5, <1>t, <2>1, QuietStep
<1>6. ASSUME NEW p \in Procs, Start(p) PROVE CopiesPaid'
  <2>1. UNCHANGED <<delivered, failures, sentAt>>
    BY <1>6
    DEF Start, Select, Spawn, RequestAnalysis, RequestSend, tables, history
  <2>2. \/ Exit(p)
        \/ http' = http /\ \E place \in Places \ {"post"} : Goto(p, place)
    BY <1>6 DEF Start, Select, Spawn, RequestAnalysis, RequestSend, Places
  <2>3. QED
    BY <1>4, <1>5, <2>1, <2>2
<1>7. ASSUME NEW p \in Procs, Finalize(p) PROVE CopiesPaid'
  <2>1. UNCHANGED <<delivered, failures, sentAt>>
    BY <1>7
    DEF Finalize, Enter, Lookup, FetchFails, FetchStores, tables, history
  <2>2. \/ Exit(p)
        \/ http' = http /\ \E place \in Places \ {"post"} : Goto(p, place)
    BY <1>7
    DEF Finalize, Enter, Lookup, FetchFails, FetchStores, sessions, Places
  <2>3. QED
    BY <1>4, <1>5, <2>1, <2>2
<1>8. ASSUME NEW p \in Procs, Analyze(p) PROVE CopiesPaid'
  <2>1. UNCHANGED <<delivered, failures, sentAt>>
    BY <1>8
    DEF Analyze, AnalysisReturns, AnalysisFails, StoreReport, StoreCollides,
        tables, history
  <2>2. \/ Exit(p)
        \/ http' = http /\ \E place \in Places \ {"post"} : Goto(p, place)
    BY <1>8
    DEF Analyze, AnalysisReturns, AnalysisFails, StoreReport, StoreCollides,
        sessions, Places
  <2>3. QED
    BY <1>4, <1>5, <2>1, <2>2
<1>9. ASSUME NEW p \in Procs, Send(p) PROVE CopiesPaid'
  <2>1. ASSUME NoReport(p) \/ NoRecipients(p) \/ MarkAlreadySent(p)
                 \/ RecordSent(p) \/ RecordFailed(p)
        PROVE  CopiesPaid'
    <3>1. /\ Exit(p)
          /\ delivered' = delivered
          /\ failures' \in {failures, failures + 1}
          /\ sentAt' = sentAt \/ failures' = failures + 1
      BY <2>1
      DEF NoReport, NoRecipients, MarkAlreadySent, RecordSent, RecordFailed,
          RecordError, tables, history
    <3>2. QED
      BY <1>4, <3>1
  <2>2. ASSUME LoseClaim(p) \/ PostRejected(p) PROVE CopiesPaid'
    <3>1. /\ UNCHANGED <<delivered, failures, sentAt, http>>
          /\ \E place \in Places \ {"post"} : Goto(p, place)
      BY <2>2 DEF LoseClaim, PostRejected, tables, sessions, history, Places
    <3>2. QED
      BY <1>5, <3>1
  <2>3. CASE WinClaim(p)
    <3>1. /\ UNCHANGED <<delivered, failures>>
          /\ delivered <= Allowed(failures)
          /\ http'[p] = 0
      BY <2>3, <1>t DEF WinClaim, history, CopiesPaid, TypeOK
    <3>2. sentAt' /\ \A q \in Procs : pc'[q] = "post" => q = p
      <4>1. \A q \in Procs : pc[q] # "post"
        BY <2>3 DEF WinClaim, IInv, ClaimExclusive, Sending
      <4>2. QED
        BY <2>3, <1>t, <4>1, GotoPlaces DEF WinClaim
    <3>3. /\ delivered <= Allowed(failures) + 0
          /\ delivered <= Allowed(failures + 1)
      BY <1>t, <3>1, AllowedGrows DEF TypeOK, CopiesPaid
    <3>4. QED
      BY <3>1, <3>2, <3>3 DEF CopiesPaid
  <2>4. CASE PostOK(p)
    <3>1. pc'[p] = "sent" /\ \A q \in Procs \ {p} : pc'[q] = pc[q]
      BY <2>4, <1>t, GotoPlaces DEF PostOK
    <3>2. QED
      BY <2>4, <3>1, TryStep DEF PostOK, tables
  <2>5. ASSUME PostUnheard(p) \/ PostRefused(p) PROVE CopiesPaid'
    <3>1. /\ pc[p] = "post"
          /\ RetryOrFail(p)
          /\ UNCHANGED <<sentAt, failures>>
          /\ delivered' \in {delivered, delivered + 1}
      BY <2>5 DEF PostUnheard, PostRefused, tables, history
    <3>2. /\ \A q \in Procs \ {p} : pc'[q] = pc[q]
          /\ pc'[p] = "post" => http'[p] = http[p] + 1
      BY <3>1, <1>t, GotoPlaces DEF RetryOrFail, TypeOK
    <3>3. QED
      BY <3>1, <3>2, TryStep
  <2>6. QED
    BY <1>9, <2>1, <2>2, <2>3, <2>4, <2>5 DEF Send, Post
<1>10. QED
  BY <1>1, <1>2, <1>3, <1>6, <1>7, <1>8, <1>9 DEF Next, Step

(* A meeting's e-mail costs at most Retries + 1 copies for each send that    *)
(* failed, and as many for one more, whoever asks for it and however often   *)
(* the process restarts: lost answers alone duplicate it, never a race.      *)
THEOREM CopiesBounded ==
  Spec => [](delivered <= (Retries + 1) * (failures + 1))
<1>1. Init => CopiesPaid
  <2>1. Allowed(0) = 0 /\ Allowed(0 + 1) \in Nat
    BY AllowedGrows
  <2>2. QED
    BY <2>1, AllowedGrows DEF Init, CopiesPaid
<1>2. IInv /\ CopiesPaid /\ [Next]_vars => CopiesPaid'
  BY CopiesInductive
<1>3. CopiesPaid => delivered <= (Retries + 1) * (failures + 1)
  BY DEF CopiesPaid, Allowed
<1>4. QED
  BY <1>1, <1>2, <1>3, Inductive, PTL DEF Spec
-----------------------------------------------------------------------------
(* How many sends can fail, the pipeline alone *)

\* Finalizers that may still fail a send without a new look at the counter.
Underway == {p \in Finalizers : pc[p] # "done" /\ (p \in Ticks => pc[p] # "idle")}

(* Once the counter has reached the limit, only those may raise it that were *)
(* past process_pending's look at it, each of them once.                     *)
RetriesBounded ==
  /\ row.status = "PROCESSING" => row.attempts = 0
  /\ row.attempts >= MaxAttempts =>
       row.attempts + Cardinality(Underway) < MaxAttempts + Cardinality(Finalizers)

Limits == IsFiniteSet(Finalizers) /\ MaxAttempts > 0

LEMMA UnderwayCounts ==
  ASSUME Limits
  PROVE  /\ IsFiniteSet(Underway)
         /\ Cardinality(Underway) \in Nat
         /\ Cardinality(Finalizers) \in Nat
         /\ Cardinality(Underway) <= Cardinality(Finalizers)
BY FS_Subset, FS_CardinalityType DEF Limits, Underway

(* A step of a finalizer takes nobody under way but by process_pending's     *)
(* look; a failure raises the counter by one and is its actor's last step.   *)
LEMMA FinalizerStep ==
  ASSUME Alone, Alone', IInv, PipelineInv, NEW p \in Procs, Start(p) \/ Step(p),
         ~Select(p)
  PROVE  \/ /\ Underway' \subseteq Underway
            /\ row'.attempts = row.attempts
            /\ row'.status = "PROCESSING" => row.status = "PROCESSING"
         \/ /\ p \in Underway /\ Underway' = Underway \ {p}
            /\ row'.attempts = row.attempts + 1
            /\ row'.status # "PROCESSING"
<1>t. TypeOK /\ row.attempts \in Nat
  BY DEF IInv, TypeOK, Row
<1>1. p \in Finalizers /\ pc[p] # "done" /\ (p \in Ticks => pc[p] # "idle")
  <2>1. p \in Finalizers \/ (pc[p] = "idle" /\ pc'[p] = "idle" /\ p \in Senders \cup Analyzers)
    BY DEF Alone, Procs, Finalizers
  <2>2. CASE Step(p)
    <3>1. pc[p] \notin {"idle", "done"}
      BY <2>2
      DEF Step, Finalize, Enter, Lookup, FetchFails, FetchStores, Analyze,
          AnalysisReturns, AnalysisFails, StoreReport, StoreCollides, Send, Post,
          NoReport, NoRecipients, WinClaim, LoseClaim, MarkAlreadySent, PostOK,
          PostUnheard, PostRefused, PostRejected, RecordSent, RecordFailed
    <3>2. QED
      BY <2>1, <3>1
  <2>3. CASE Spawn(p)
    BY <2>3, ActorsAssumption DEF ActorsAssumption, Spawn, Finalizers
  <2>4. ~RequestSend(p) /\ ~RequestAnalysis(p)
    <3>1. p \in Senders \cup Analyzers => pc'[p] = "idle" /\ p \notin Ticks
      BY ActorsAssumption DEF ActorsAssumption, Alone, Finalizers
    <3>2. RequestSend(p) => pc'[p] = "claim"
      BY <1>t, GotoPlaces DEF RequestSend
    <3>3. RequestAnalysis(p) /\ p \notin Ticks => pc'[p] # "idle"
      BY <1>t, GotoPlaces DEF RequestAnalysis, Exit, TypeOK
    <3>4. QED
      BY <3>1, <3>2, <3>3 DEF RequestSend, RequestAnalysis
  <2>5. QED
    BY <2>2, <2>3, <2>4 DEF Start
<1>2. p \in Underway
  BY <1>1 DEF Underway
<1>3. ASSUME Exit(p) PROVE Underway' = Underway \ {p}
  <2>1. /\ pc'[p] = IF p \in Ticks THEN "idle" ELSE "done"
        /\ \A q \in Procs \ {p} : pc'[q] = pc[q]
    BY <1>t, <1>3 DEF Exit, TypeOK
  <2>2. Finalizers \subseteq Procs
    BY DEF Finalizers, Procs
  <2>3. QED
    BY <2>1, <2>2 DEF Underway
<1>4. \A q \in Finalizers \ {p} : pc'[q] = pc[q]
  <2>1. \/ Exit(p)
        \/ UNCHANGED pc
        \/ \E place \in Places : Goto(p, place)
    BY <1>t
    DEF Start, Spawn, RequestAnalysis, RequestSend, Step, Finalize, Enter, Lookup,
        FetchFails, FetchStores, Analyze, AnalysisReturns, AnalysisFails,
        StoreReport, StoreCollides, Send, Post, NoReport, NoRecipients, WinClaim,
        LoseClaim, MarkAlreadySent, PostOK, PostUnheard, PostRefused, PostRejected,
        RecordSent, RecordFailed, RetryOrFail, Places
  <2>2. QED
    BY <1>t, <2>1, ExitPlaces, GotoPlaces DEF Finalizers, Procs
<1>5. Underway' \subseteq Underway
  BY <1>2, <1>4 DEF Underway
<1>6. CASE NoRecipients(p) \/ RecordFailed(p)
  <2>1. Exit(p) /\ RecordError(p) /\ pc[p] \in Locked
    BY <1>6 DEF NoRecipients, RecordFailed, Locked, Sending
  <2>2. mem[p] = row
    BY <2>1 DEF PipelineInv
  <2>3. row'.attempts = row.attempts + 1 /\ row'.status = "EMAIL_FAILED"
    BY <2>1, <2>2 DEF RecordError, Written
  <2>4. QED
    BY <1>2, <1>3, <2>1, <2>3
<1>7. CASE AnalysisFails(p) \/ StoreCollides(p) \/ MarkAlreadySent(p) \/ RecordSent(p)
  <2>1. row'.attempts = row.attempts /\ (row'.status = "PROCESSING" => row.status = "PROCESSING")
    BY <1>t, <1>7
    DEF AnalysisFails, StoreCollides, MarkAlreadySent, RecordSent, Written, TypeOK,
      Row, tables
  <2>2. QED
    BY <1>5, <2>1
<1>8. CASE row' = row
  BY <1>5, <1>8
<1>9. QED
  BY <1>6, <1>7, <1>8
  DEF Start, Spawn, RequestAnalysis, RequestSend, Step, Finalize, Enter, Lookup,
      FetchFails, FetchStores, Analyze, AnalysisReturns, StoreReport, Send, Post,
      NoReport, WinClaim, LoseClaim, PostOK, PostUnheard, PostRefused,
      PostRejected, tables

LEMMA RetriesInductive ==
  ASSUME Limits, Alone, Alone', ~Crash, IInv, PipelineInv, RetriesBounded, [Next]_vars
  PROVE  RetriesBounded'
<1>t. TypeOK /\ row.attempts \in Nat /\ MaxAttempts \in Nat
  BY BoundsAssumption DEF BoundsAssumption, IInv, TypeOK, Row
<1>1. CASE UNCHANGED <<row, pc>>
  BY <1>1 DEF RetriesBounded, Underway
<1>2. ASSUME NEW p \in Procs, Select(p) PROVE RetriesBounded'
  <2>1. row' = row /\ (row.status = "PROCESSING" \/ row.attempts < MaxAttempts)
    BY <1>2 DEF Select, tables
  <2>2. row.attempts < MaxAttempts
    BY <1>t, <2>1 DEF RetriesBounded, Limits
  <2>3. QED
    BY <1>t, <2>1, <2>2 DEF RetriesBounded
<1>3. ASSUME NEW p \in Procs, Start(p) \/ Step(p), ~Select(p) PROVE RetriesBounded'
  <2> DEFINE n == Cardinality(Underway)
  <2>1. /\ IsFiniteSet(Underway) /\ n \in Nat
        /\ Cardinality(Finalizers) \in Nat /\ n <= Cardinality(Finalizers)
    BY UnderwayCounts
  <2>2. CASE /\ Underway' \subseteq Underway
             /\ row'.attempts = row.attempts
             /\ row'.status = "PROCESSING" => row.status = "PROCESSING"
    <3>1. Cardinality(Underway') <= n /\ Cardinality(Underway') \in Nat
      BY <2>1, <2>2, FS_Subset, FS_CardinalityType
    <3> HIDE DEF n
    <3>2. row.attempts >= MaxAttempts =>
            row.attempts + Cardinality(Underway') < MaxAttempts + Cardinality(Finalizers)
      BY <1>t, <2>1, <3>1 DEF RetriesBounded, n
    <3>3. QED
      BY <2>2, <3>2 DEF RetriesBounded
  <2>3. CASE /\ p \in Underway /\ Underway' = Underway \ {p}
             /\ row'.attempts = row.attempts + 1
             /\ row'.status # "PROCESSING"
    <3>1. Cardinality(Underway') = n - 1
      BY <2>1, <2>3, FS_RemoveElement
    <3>2. row.attempts >= MaxAttempts => row.attempts + n < MaxAttempts + Cardinality(Finalizers)
      BY DEF RetriesBounded
    <3> HIDE DEF n
    <3>3. row.attempts + 1 >= MaxAttempts =>
            (row.attempts + 1) + (n - 1) < MaxAttempts + Cardinality(Finalizers)
      BY <1>t, <2>1, <3>2
    <3>4. QED
      BY <2>3, <3>1, <3>3 DEF RetriesBounded
  <2>4. QED
    BY <1>3, <2>2, <2>3, FinalizerStep
<1>4. QED
  BY <1>1, <1>2, <1>3 DEF Next, vars, RequestTranscript

(* As long as the pipeline is the only sender and the process has not died,  *)
(* EMAIL_MAX_ATTEMPTS bounds the failed sends, but not exactly: each further *)
(* tick or webhook task may add one that it was already under way to make    *)
(* when the limit was reached, as finalize_meeting does not look again.      *)
THEOREM PipelineRetriesBounded ==
  ASSUME Limits
  PROVE  Spec => [](Alone => failures < MaxAttempts + Cardinality(Finalizers))
<1>1. Init => RetriesBounded
  <2> SUFFICES ASSUME Init PROVE RetriesBounded
    OBVIOUS
  <2>1. row.attempts = 0 /\ ~(0 >= MaxAttempts)
    BY BoundsAssumption DEF BoundsAssumption, Init, NewRow, Limits
  <2>2. QED
    BY <2>1 DEF RetriesBounded
<1>2. (Alone => RetriesBounded) /\ IInv /\ (Alone => PipelineInv) /\ [Next]_vars
        => (Alone' => RetriesBounded')
  BY AloneBefore, RetriesInductive DEF IInv
<1>3. IInv /\ (Alone => PipelineInv) /\ (Alone => RetriesBounded)
        => (Alone => failures < MaxAttempts + Cardinality(Finalizers))
  <2> SUFFICES ASSUME IInv, PipelineInv, RetriesBounded
               PROVE  failures < MaxAttempts + Cardinality(Finalizers)
    OBVIOUS
  <2>1. /\ failures = row.attempts /\ failures \in Nat /\ MaxAttempts \in Nat
        /\ Cardinality(Underway) \in Nat /\ Cardinality(Finalizers) \in Nat
    BY UnderwayCounts, BoundsAssumption DEF BoundsAssumption, IInv, TypeOK, PipelineInv
  <2>2. failures >= MaxAttempts =>
          failures + Cardinality(Underway) < MaxAttempts + Cardinality(Finalizers)
    BY <2>1 DEF RetriesBounded
  <2>3. QED
    BY <2>1, <2>2
<1>4. QED
  BY <1>1, <1>2, <1>3, PipelineAlways, PTL DEF Spec
=============================================================================
