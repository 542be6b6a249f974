---------------------------- MODULE InsightEmail ----------------------------
(***************************************************************************)
(* The way of one ended meeting from transcript to insights to e-mail      *)
(* (services/orchestrator.py: finalize_meeting, run_analysis,              *)
(* send_report_email), run at the same time by                             *)
(*   - the scheduler's process_pending passes (the runner loop's and       *)
(*     /admin/scheduler-tick's),                                           *)
(*   - the finalize tasks the Vexa webhook spawns,                         *)
(*   - the /send-email route, which does not take the finalize lock,       *)
(*   - the /transcript and /analyze routes, which do not either.           *)
(* A step is the code between two awaits another coroutine can run at.     *)
(* Every actor works on a session of its own: what it loaded stays as it   *)
(* was (expire_on_commit=False) until it refreshes, and an attribute set   *)
(* to the value that was loaded is not written.                            *)
(***************************************************************************)
EXTENDS Naturals, FiniteSets

CONSTANTS
  Ticks,        (* scheduler ticks; each runs process_pending again and again *)
  Webhooks,     (* finalize tasks spawned by webhook deliveries, one run each *)
  Senders,      (* POST /meetings/{id}/send-email, one run each               *)
  Analyzers,    (* POST /meetings/{id}/analyze, one run each                  *)
  NoOne,        (* nobody holds the finalize lock                             *)
  MaxAttempts,  (* settings.email_max_attempts                                *)
  Retries,      (* request_with_retries(retries=...)                          *)
  MaxCrashes    (* bound: restarts of the process                             *)

Procs == Ticks \cup Webhooks \cup Senders \cup Analyzers
Finalizers == Ticks \cup Webhooks

ASSUME ActorsAssumption ==
  /\ NoOne \notin Procs
  /\ Finalizers \cap (Senders \cup Analyzers) = {}
  /\ Senders \cap Analyzers = {}
  /\ Ticks \cap Webhooks = {}

ASSUME BoundsAssumption ==
  /\ MaxAttempts \in Nat
  /\ Retries \in Nat
  /\ MaxCrashes \in Nat

VARIABLES
  row,          (* the meetings row: status and email_attempts                *)
  transcript,   (* a transcripts row exists                                   *)
  report,       (* a meeting_reports row exists                               *)
  sentAt,       (* meeting_reports.email_sent_at is set: the e-mail claim     *)
  deliverable,  (* resolve_recipients returns somebody                        *)
  lock,         (* who holds _finalize_lock(meeting.id)                       *)
  pc,           (* where each actor is                                        *)
  mem,          (* the row as each actor's session loaded it                  *)
  seen,         (* did the actor's session find a report row (run_analysis)   *)
  http,         (* retries the actor's current Gmail request has used up      *)
  delivered,    (* history: copies Gmail accepted                             *)
  acked,        (* history: some send got its 200                             *)
  failures,     (* history: send_report_email calls that ended in an error    *)
  crashes       (* restarts so far                                            *)

vars == <<row, transcript, report, sentAt, deliverable, lock, pc, mem, seen,
          http, delivered, acked, failures, crashes>>
tables == <<row, transcript, report, sentAt, deliverable>>
sessions == <<mem, seen, http>>
history == <<delivered, acked, failures>>

Statuses == {"PROCESSING", "COMPLETED", "FAILED_ANALYSIS", "EMAIL_FAILED"}
Row == [status : Statuses, attempts : Nat]
NewRow == [status |-> "PROCESSING", attempts |-> 0]

Places == {"idle", "wait", "lookup", "fetch", "analyze", "store", "claim",
           "lost", "post", "sent", "failed", "done"}

\* Between winning the claim and the commit that says how the send went.
Sending == {"post", "sent", "failed"}

\* Places only an actor that holds the finalize lock can be at, if it is a
\* finalizer.
Locked == {"lookup", "fetch", "analyze", "store", "claim", "lost"} \cup Sending

\* A meeting as refresh_status, stop_meeting or _mark_processing leave it.
Init ==
  /\ row = NewRow
  /\ transcript = FALSE
  /\ report = FALSE
  /\ sentAt = FALSE
  /\ deliverable \in BOOLEAN
  /\ lock = NoOne
  /\ pc = [p \in Procs |-> "idle"]
  /\ mem = [p \in Procs |-> NewRow]
  /\ seen = [p \in Procs |-> FALSE]
  /\ http = [p \in Procs |-> 0]
  /\ delivered = 0
  /\ acked = FALSE
  /\ failures = 0
  /\ crashes = 0

-----------------------------------------------------------------------------
(* Sessions and control *)

Goto(p, place) == pc' = [pc EXCEPT ![p] = place]

\* The status column after the session of p set it to s and committed: the
\* unit of work writes an attribute only when it differs from what was loaded.
Written(p, s) == IF mem[p].status = s THEN row.status ELSE s

\* p is through, by return or by exception: "async with" frees the lock and
\* closes the session, the scheduler will come round again, a request or a task
\* is over.
Exit(p) ==
  /\ pc' = [pc EXCEPT ![p] = IF p \in Ticks THEN "idle" ELSE "done"]
  /\ lock' = IF lock = p THEN NoOne ELSE lock
  /\ mem' = [mem EXCEPT ![p] = NewRow]
  /\ seen' = [seen EXCEPT ![p] = FALSE]
  /\ http' = [http EXCEPT ![p] = 0]

-----------------------------------------------------------------------------
(* process_pending and the webhook's task up to the pipeline *)

\* Variant of Select: failed e-mails are not taken up again.
SelectEndedOnly(p) ==
  /\ p \in Ticks
  /\ pc[p] = "idle"
  /\ row.status = "PROCESSING"
  /\ mem' = [mem EXCEPT ![p] = row]
  /\ Goto(p, "wait")
  /\ UNCHANGED <<tables, lock, seen, http, history, crashes>>

\* process_pending selects the meeting: ended, or a failed e-mail whose
\* attempts are not used up.
Select(p) ==
  /\ p \in Ticks
  /\ pc[p] = "idle"
  /\ \/ row.status = "PROCESSING"
     \/ row.status = "EMAIL_FAILED" /\ row.attempts < MaxAttempts
  /\ mem' = [mem EXCEPT ![p] = row]
  /\ Goto(p, "wait")
  /\ UNCHANGED <<tables, lock, seen, http, history, crashes>>

\* A webhook delivery spawns a finalize task, whatever state the row is in.
Spawn(p) ==
  /\ p \in Webhooks
  /\ pc[p] = "idle"
  /\ mem' = [mem EXCEPT ![p] = row]
  /\ Goto(p, "wait")
  /\ UNCHANGED <<tables, lock, seen, http, history, crashes>>

\* Variant of Enter: the row is not re-read under the lock.
EnterStale(p) ==
  /\ pc[p] = "wait"
  /\ lock = NoOne
  /\ IF mem[p].status = "COMPLETED"
       THEN Exit(p)
       ELSE Goto(p, "lookup") /\ lock' = p /\ UNCHANGED sessions
  /\ UNCHANGED <<tables, history, crashes>>

\* finalize_meeting: take the lock, re-read the row, stop if it is COMPLETED.
Enter(p) ==
  /\ pc[p] = "wait"
  /\ lock = NoOne
  /\ IF row.status = "COMPLETED"
       THEN Exit(p)
       ELSE /\ Goto(p, "lookup")
            /\ lock' = p
            /\ mem' = [mem EXCEPT ![p] = row]
            /\ UNCHANGED <<seen, http>>
  /\ UNCHANGED <<tables, history, crashes>>

\* With a report in the table the transcript and the analysis are skipped.
Lookup(p) ==
  /\ pc[p] = "lookup"
  /\ Goto(p, IF report THEN "claim" ELSE "fetch")
  /\ UNCHANGED <<tables, lock, sessions, history, crashes>>

\* fetch_and_store_transcript raises: the status stays as it is.
FetchFails(p) ==
  /\ pc[p] = "fetch"
  /\ Exit(p)
  /\ UNCHANGED <<tables, history, crashes>>

FetchStores(p) ==
  /\ pc[p] = "fetch"
  /\ transcript' = TRUE
  /\ Goto(p, "analyze")
  /\ UNCHANGED <<row, report, sentAt, deliverable, lock, sessions, history,
                 crashes>>

\* The /transcript route stores one, too; a pipeline that inserts its own at
\* the same time is rejected, which is a failed fetch.
RequestTranscript ==
  /\ ~transcript
  /\ transcript' = TRUE
  /\ UNCHANGED <<row, report, sentAt, deliverable, lock, pc, sessions, history,
                 crashes>>

-----------------------------------------------------------------------------
(* run_analysis, in the pipeline and from the route *)

\* The /analyze route loads the meeting; without a transcript it raises.
RequestAnalysis(p) ==
  /\ p \in Analyzers
  /\ pc[p] = "idle"
  /\ IF transcript
       THEN /\ Goto(p, "analyze")
            /\ mem' = [mem EXCEPT ![p] = row]
            /\ UNCHANGED <<lock, seen, http>>
       ELSE Exit(p)
  /\ UNCHANGED <<tables, history, crashes>>

\* Gemini answers and the session looks for a report row to update.
AnalysisReturns(p) ==
  /\ pc[p] = "analyze"
  /\ seen' = [seen EXCEPT ![p] = report]
  /\ Goto(p, "store")
  /\ UNCHANGED <<tables, lock, mem, http, history, crashes>>

\* Gemini fails. The pipeline records it; the route answers with an error.
AnalysisFails(p) ==
  /\ pc[p] = "analyze"
  /\ row' = IF p \in Finalizers
              THEN [row EXCEPT !.status = Written(p, "FAILED_ANALYSIS")]
              ELSE row
  /\ Exit(p)
  /\ UNCHANGED <<transcript, report, sentAt, deliverable, history, crashes>>

\* Variant of StoreReport: a new analysis replaces the row, e-mail claim and all.
StoreReportAnew(p) ==
  /\ pc[p] = "store"
  /\ report' = TRUE
  /\ sentAt' = FALSE
  /\ IF p \in Finalizers
       THEN Goto(p, "claim") /\ UNCHANGED <<lock, sessions>>
       ELSE Exit(p)
  /\ UNCHANGED <<row, transcript, deliverable, history, crashes>>

\* The commit inserts the report, or updates the row the session found;
\* neither touches email_sent_at.
StoreReport(p) ==
  /\ pc[p] = "store"
  /\ seen[p] = report
  /\ report' = TRUE
  /\ IF p \in Finalizers
       THEN Goto(p, "claim") /\ UNCHANGED <<lock, sessions>>
       ELSE Exit(p)
  /\ UNCHANGED <<row, transcript, sentAt, deliverable, history, crashes>>

\* Somebody else inserted the report in between: the unique meeting_id makes
\* the flush raise, which leaves the session waiting for a rollback. The
\* pipeline's handler sets FAILED_ANALYSIS and commits without one, so that
\* commit raises, too: nothing is written and the row stays as it is.
StoreCollides(p) ==
  /\ pc[p] = "store"
  /\ seen[p] # report
  /\ Exit(p)
  /\ UNCHANGED <<tables, history, crashes>>

-----------------------------------------------------------------------------
(* send_report_email, in the pipeline and from the route *)

\* The /send-email route loads the meeting.
RequestSend(p) ==
  /\ p \in Senders
  /\ pc[p] = "idle"
  /\ mem' = [mem EXCEPT ![p] = row]
  /\ Goto(p, "claim")
  /\ UNCHANGED <<tables, lock, seen, http, history, crashes>>

\* No report: RuntimeError (only the route can find none).
NoReport(p) ==
  /\ pc[p] = "claim"
  /\ ~report
  /\ Exit(p)
  /\ UNCHANGED <<tables, history, crashes>>

\* status = EMAIL_FAILED and attempts = loaded attempts + 1, in one commit.
RecordError(p) ==
  /\ row' = [status |-> Written(p, "EMAIL_FAILED"),
             attempts |-> mem[p].attempts + 1]
  /\ failures' = failures + 1

NoRecipients(p) ==
  /\ pc[p] = "claim"
  /\ report
  /\ ~deliverable
  /\ RecordError(p)
  /\ Exit(p)
  /\ UNCHANGED <<transcript, report, sentAt, deliverable, delivered, acked,
                 crashes>>

\* Variant of WinClaim: the UPDATE does not ask for email_sent_at IS NULL.
WinClaimAnyway(p) ==
  /\ pc[p] = "claim"
  /\ report
  /\ deliverable
  /\ sentAt' = TRUE
  /\ http' = [http EXCEPT ![p] = 0]
  /\ Goto(p, "post")
  /\ UNCHANGED <<row, transcript, report, deliverable, lock, mem, seen,
                 history, crashes>>

\* UPDATE meeting_reports SET email_sent_at = now() WHERE email_sent_at IS NULL
\* RETURNING id, and its commit: one caller gets the row.
WinClaim(p) ==
  /\ pc[p] = "claim"
  /\ report
  /\ deliverable
  /\ ~sentAt
  /\ sentAt' = TRUE
  /\ http' = [http EXCEPT ![p] = 0]
  /\ Goto(p, "post")
  /\ UNCHANGED <<row, transcript, report, deliverable, lock, mem, seen,
                 history, crashes>>

LoseClaim(p) ==
  /\ pc[p] = "claim"
  /\ report
  /\ deliverable
  /\ sentAt
  /\ Goto(p, "lost")
  /\ UNCHANGED <<tables, lock, sessions, history, crashes>>

\* The claim is taken, so the e-mail is taken to have been sent.
MarkAlreadySent(p) ==
  /\ pc[p] = "lost"
  /\ row' = [row EXCEPT !.status = Written(p, "COMPLETED")]
  /\ Exit(p)
  /\ UNCHANGED <<transcript, report, sentAt, deliverable, history, crashes>>

\* Variant of RetryOrFail: one try too many.
RetryOnceMore(p) ==
  IF http[p] <= Retries
    THEN http' = [http EXCEPT ![p] = @ + 1] /\ UNCHANGED pc
    ELSE UNCHANGED http /\ Goto(p, "failed")

\* request_with_retries after a try it may repeat.
RetryOrFail(p) ==
  IF http[p] < Retries
    THEN http' = [http EXCEPT ![p] = @ + 1] /\ UNCHANGED pc
    ELSE UNCHANGED http /\ Goto(p, "failed")

\* Gmail accepts the message and its 200 arrives.
PostOK(p) ==
  /\ pc[p] = "post"
  /\ delivered' = delivered + 1
  /\ acked' = TRUE
  /\ Goto(p, "sent")
  /\ UNCHANGED <<tables, lock, sessions, failures, crashes>>

\* Gmail accepts the message and the answer is lost (a read timeout).
PostUnheard(p) ==
  /\ pc[p] = "post"
  /\ delivered' = delivered + 1
  /\ RetryOrFail(p)
  /\ UNCHANGED <<tables, lock, mem, seen, acked, failures, crashes>>

\* The message does not get through: no connection, 429 or 5xx.
PostRefused(p) ==
  /\ pc[p] = "post"
  /\ RetryOrFail(p)
  /\ UNCHANGED <<tables, lock, mem, seen, history, crashes>>

\* No access token, or an answer that is not retried.
PostRejected(p) ==
  /\ pc[p] = "post"
  /\ Goto(p, "failed")
  /\ UNCHANGED <<tables, lock, sessions, history, crashes>>

RecordSent(p) ==
  /\ pc[p] = "sent"
  /\ row' = [row EXCEPT !.status = Written(p, "COMPLETED")]
  /\ Exit(p)
  /\ UNCHANGED <<transcript, report, sentAt, deliverable, history, crashes>>

\* Variant of RecordFailed: the claim is not given back.
RecordFailedKeepingClaim(p) ==
  /\ pc[p] = "failed"
  /\ RecordError(p)
  /\ Exit(p)
  /\ UNCHANGED <<transcript, report, sentAt, deliverable, delivered, acked,
                 crashes>>

\* The except branch: give the claim back and count the attempt.
RecordFailed(p) ==
  /\ pc[p] = "failed"
  /\ sentAt' = FALSE
  /\ RecordError(p)
  /\ Exit(p)
  /\ UNCHANGED <<transcript, report, deliverable, delivered, acked, crashes>>

-----------------------------------------------------------------------------

\* The process dies and starts again: the tables stay, every task is gone.
Crash ==
  /\ crashes < MaxCrashes
  /\ crashes' = crashes + 1
  /\ pc' = [p \in Procs |->
              IF p \in Ticks \/ pc[p] = "idle" THEN "idle" ELSE "done"]
  /\ lock' = NoOne
  /\ mem' = [p \in Procs |-> NewRow]
  /\ seen' = [p \in Procs |-> FALSE]
  /\ http' = [p \in Procs |-> 0]
  /\ UNCHANGED <<tables, history>>

Finalize(p) == Enter(p) \/ Lookup(p) \/ FetchFails(p) \/ FetchStores(p)
Analyze(p) == \/ AnalysisReturns(p) \/ AnalysisFails(p)
              \/ StoreReport(p) \/ StoreCollides(p)
Post(p) == PostOK(p) \/ PostUnheard(p) \/ PostRefused(p) \/ PostRejected(p)
Send(p) == \/ NoReport(p) \/ NoRecipients(p)
           \/ WinClaim(p) \/ LoseClaim(p) \/ MarkAlreadySent(p)
           \/ Post(p) \/ RecordSent(p) \/ RecordFailed(p)

\* An actor that has started goes on.
Step(p) == Finalize(p) \/ Analyze(p) \/ Send(p)
Start(p) == Select(p) \/ Spawn(p) \/ RequestAnalysis(p) \/ RequestSend(p)

Next == Crash \/ RequestTranscript \/ \E p \in Procs : Start(p) \/ Step(p)

Spec == Init /\ [][Next]_vars

\* Every await ends: the HTTP clients carry deadlines, asyncio.Lock is fair,
\* and the runner calls the tick for ever. Nobody has to make a request.
Fairness == /\ \A p \in Ticks : WF_vars(Select(p))
            /\ \A p \in Procs : WF_vars(Step(p))
FairSpec == Spec /\ Fairness

-----------------------------------------------------------------------------
(* Properties *)

TypeOK ==
  /\ row \in Row
  /\ transcript \in BOOLEAN
  /\ report \in BOOLEAN
  /\ sentAt \in BOOLEAN
  /\ deliverable \in BOOLEAN
  /\ lock \in Procs \cup {NoOne}
  /\ pc \in [Procs -> Places]
  /\ mem \in [Procs -> Row]
  /\ seen \in [Procs -> BOOLEAN]
  /\ http \in [Procs -> 0 .. Retries]
  /\ delivered \in Nat
  /\ acked \in BOOLEAN
  /\ failures \in Nat
  /\ crashes \in 0 .. MaxCrashes

(* The e-mail claim serializes senders, those that skip the finalize lock    *)
(* included: at most one actor is between its claim and the commit of how    *)
(* the send went, and the claim is set as long as it is there.               *)
ClaimExclusive ==
  /\ \A p \in Procs : pc[p] \in Sending => sentAt
  /\ \A p, q \in Procs : pc[p] \in Sending /\ pc[q] \in Sending => p = q

(* No error path leaks the finalize lock: its holder is a finalizer inside   *)
(* the pipeline, and a finalizer inside the pipeline holds it.               *)
LockInPipeline ==
  /\ lock # NoOne => lock \in Finalizers /\ pc[lock] \in Locked
  /\ \A p \in Finalizers : pc[p] \in Locked => lock = p

(* Once Gmail has confirmed a send, no actor offers it the e-mail again,     *)
(* through re-analysis, manual sends, retries and restarts.                  *)
NoSendAfterAck == [][acked => delivered' = delivered]_vars

(* InsightEmail implements EmailOutbox under this mapping.                   *)
phase == IF acked THEN "sent"
         ELSE IF ~report THEN "absent"
         ELSE IF ~sentAt THEN "ready"
         ELSE IF \E p \in Procs : pc[p] \in Sending THEN "taken"
         ELSE "lost"

Outbox == INSTANCE EmailOutbox WITH copies <- delivered

(* Every step of the pipeline and of the routes is a step of the outbox or   *)
(* leaves it alone.                                                          *)
ImplementsOutbox == Outbox!OutboxSpec

Settled == \/ row.status \in {"COMPLETED", "FAILED_ANALYSIS"}
           \/ row.status = "EMAIL_FAILED" /\ row.attempts >= MaxAttempts

(* A meeting whose insights are stored does not stay in PROCESSING, nor is   *)
(* it retried for ever: it is completed, given up after MaxAttempts, or left *)
(* in FAILED_ANALYSIS. A finalizer whose insert of the report collides with  *)
(* the /analyze route's cannot record even that: it raises, and a later tick *)
(* has to find the report and go on.                                         *)
Settles == report ~> Settled

\* So far only the pipeline has sent: no request has reached /send-email or
\* /analyze, and the process has not died.
Alone == crashes = 0 /\ \A p \in Senders \cup Analyzers : pc[p] = "idle"

(* A meeting that is COMPLETED, with no send under way that could still tell *)
(* otherwise, had its insights e-mailed (db/models.py,                       *)
(* MeetingStatus.COMPLETED). Not true beside the /send-email route.          *)
CompletedMeansEmailed ==
  row.status = "COMPLETED" /\ (\A p \in Procs : pc[p] \notin Sending)
    => delivered > 0

(* It is as long as the pipeline is the only sender.                         *)
PipelineCompletesEmailed == Alone => CompletedMeansEmailed

(* As long, the retry counter counts every failed send once, so that         *)
(* EMAIL_MAX_ATTEMPTS bounds them: no update of it is lost between           *)
(* finalizers.                                                               *)
AttemptsCountFailures == Alone => row.attempts = failures

(* As long, COMPLETED is final: no late finalizer overwrites it.             *)
CompletedIsFinal ==
  [][Alone' /\ row.status = "COMPLETED" => row'.status = "COMPLETED"]_vars
=============================================================================
