# Verification of the Notetaker agent

TLA+ models of the backend under `src/backend/app`, their TLC runs, and proofs
checked by TLAPS. Paths below are relative to `src/backend/app` unless they
start with `src/`. `PROJECT.json` lists components, runs, the code lines each
definition stands for, hazards, findings and theorems.

## The system

The backend sends a bot (run by Vexa) to Google Meet calls it is invited to,
and when a call is over it fetches the transcript, has Gemini write insights and
e-mails them to the attendees. While a call is on, a copilot answers questions in
the call's chat. One asyncio process runs a FastAPI application and some
background loops; all durable state is in PostgreSQL; Vexa, Google Calendar,
Gmail and Gemini are remote.

| component | code | state it keeps | operations |
|---|---|---|---|
| calendar poller | `services/calendar_poller.py`, `services/meeting_dedup.py` | inserts `meetings` rows (key `google_event_id`) | `poll_once`: list, filter against rows in flight, upsert |
| Gmail invite scanner | `services/gmail_scanner.py` | inserts `meetings` rows (key `gmail_message_id`) | `scan_once`: list, skip known mails, fetch and parse, filter, upsert |
| manual dispatch | `services/orchestrator.py` `dispatch_by_url` | inserts a row, uncommitted while Vexa is asked | `POST /meetings/dispatch` |
| lifecycle scheduler | `services/scheduler.py`, `services/orchestrator.py` | `status`, `dispatch_claimed_at`, `bot_dispatched_at`, `vexa_bot_id`, `end_time` of a row | `tick` = `recover_stale`, `dispatch_due` (`_claim_due`, `dispatch_existing`), `advance_active` (`refresh_status`, `end_reason`, `stop_meeting`), `process_pending` |
| insight pipeline | `services/orchestrator.py` `finalize_meeting` | `transcripts`, `meeting_reports`, the e-mail claim `email_sent_at`, `email_attempts`, a lock per meeting in memory | fetch transcript, `run_analysis`, `send_report_email` |
| routes | `api/routes/meetings.py`, `api/routes/admin.py` | none of their own | dispatch, refresh, stop, transcript, analyze, send-email, scheduler-tick, poll-calendar |
| Vexa webhook | `api/routes/webhooks.py` | ring and set of seen event ids, spawned tasks | refuse, recognise a duplicate, match a delivery to a row, `_mark_processing`, spawn `finalize_meeting` |
| Vexa client | `services/vexa/cloud_provider.py`, `services/http.py` | none | join (adopts a bot after a 409 or timeout), status, stop, transcript, chat; retried HTTP |
| runner | `services/runner.py`, `main.py` | the loop tasks, a stop event | run each loop at its interval, for ever |
| copilot chat | `services/copilot/capture.py`, `router.py`, `triggers.py`, `engine.py`, `live.py` | `meeting_chat_messages`, `copilot_interactions` | persist chat, claim a mention, acknowledge, answer, send |
| copilot transcript index | `services/copilot/chunker.py`, `retrieval.py`, `live.py` | `transcript_chunks` | cut the transcript into chunks, embed and insert the new ones, search |
| copilot memory | `services/copilot/memory.py` | `meeting_memory` | rebuild when the transcript has grown |
| Google token cache | `services/google/token.py` | the token, its expiry and a lock, in memory | `get_access_token`: return the cached token or refresh it under the lock |
| push channel, WebSocket client | `services/google/calendar_watch.py`, `services/vexa/ws_client.py` | in memory | register and stop; reconnect and subscribe (not modelled) |

How they interact: everybody meets in the `meetings` table. Poller, scanner and
`dispatch_by_url` insert rows; the tick takes them from SCHEDULED through
JOINING, ACTIVE and PROCESSING to COMPLETED or a failure; the routes and the
webhook write the same rows at any time from sessions of their own. The partial
unique index `uq_meetings_active_native` allows one row in flight (SCHEDULED,
JOINING, ACTIVE or PROCESSING) for each Meet code.

What is hard in it:

* Each coroutine loads a row, awaits a remote call, and writes what it concluded
  from the loaded row. `expire_on_commit=False` keeps the loaded values, and
  SQLAlchemy writes an attribute only if it differs from the loaded one, so a
  stale session may overwrite, or leave alone, what another wrote meanwhile.
* The process may die between a claim and the commit of its outcome.
* Calls are retried after answers that were lost; webhooks arrive late or twice.
* Passes of one tick hand rows to each other by status and by nullable columns: a
  row that no pass selects hangs, and it blocks its Meet code.

What makes each component correct:

* detection: one row in flight per code; every invitation is handled; what is over
  stays over; a batch is rejected only for a race (the code misses this for events
  that share a link, see below);
* lifecycle: a row is joined once; a bot in a call is followed until it has
  been told to leave; no row hangs; only ended meetings are finalized (the code
  misses the first, third and fourth in cases shown below);
* pipeline: one sender at a time; nothing sent after a confirmation; COMPLETED
  means e-mailed; failures are counted and bounded; locks are not leaked; every
  analysed meeting comes to rest;
* index: the row count is a valid cursor, no text is filed under a wrong number,
  chunks cover the transcript and all of them get indexed;
* copilot chat: each mention is handled once, by one poller; what its record says
  is true and final; none is forgotten;
* memory: a build is only paid for when enough was said since the last one;
  whatever overlaps or fails, it catches up with the transcript;
* webhook receiver: ring and set are one bounded collection; an event is acted on
  once as long as its id is kept; what is acknowledged was acted on or broke; a
  handoff outlives its task, and only a poll with an answer from before the end
  undoes it; a lost webhook costs nothing but time;
* token cache: a returned token outlives the call it is for; one refresh serves
  all who wait; whoever fails or is cancelled lets the next one in.

## Modules

| module | what it is |
|---|---|
| `EmailOutbox` | abstract specification: what the insight e-mail promises |
| `MeetingSlots` | abstract specification: what the `meetings` table promises about Meet codes |
| `AnswerDesk` | abstract specification: what the copilot promises the chat |
| `InsightEmail` | the pipeline of one meeting with every caller; implements `EmailOutbox` |
| `MeetingLifecycle` | the tick, `/refresh`, `/stop`, the webhook and Vexa's bots; the loop implements `MeetingSlots` |
| `Detection` | poller, scanner, manual dispatch and the unique index; implements `MeetingSlots` |
| `TranscriptIndex` | chunker and index of a growing transcript |
| `CopilotMentions` | chat capture and the mention router; implements `AnswerDesk` |
| `MeetingMemory` | the rolling memory of a live meeting |
| `WebhookDelivery` | the webhook receiver between Vexa and the finalize tasks |
| `TokenCache` | the Google access token and its lock |
| `MC*` | constants for TLC |
| `*_proofs` | theorems and their proofs |

**A step** is the code between two awaits at which another coroutine can change
what the code relies on. Reads of the own session that nobody can disturb are
merged with the step they belong to, and a claim under row locks
(`_claim_due`: `FOR UPDATE SKIP LOCKED`) or a conditional `UPDATE ... RETURNING`
with its commit is one step. **Sessions** are explicit: `mem` is the row as the
actor loaded it, and `Written` (`InsightEmail`) and `Saved` (`MeetingLifecycle`)
say what a commit does with a status that was set: nothing if it equals the
loaded one, nothing if the index rejects it. Definitions marked *variant* are
not part of any specification: each is a plausible bug that breaks a property.

### EmailOutbox and InsightEmail

`EmailOutbox` has a phase (absent, ready, taken, sent, lost) and the number of
copies the mail service accepted. A taken report may be given back; a confirmed
one never moves again; copies may be accepted unheard.

`InsightEmail` follows one meeting. Its actors are ticks (`process_pending`,
which comes again for ever), webhook tasks, `/send-email` and `/analyze` calls,
and the `/transcript` route. State: the row (status, attempts), whether a
transcript and a report exist, the e-mail claim `sentAt`, whether there are
recipients, the finalize lock, and for each actor its place, its loaded row,
whether its session found a report, and the HTTP tries used up. An actor's
places are the awaits of `finalize_meeting`, `run_analysis` and
`send_report_email`: wait (for the lock), lookup, fetch, analyze, store, claim,
lost, post, sent, failed. `delivered`, `acked` and `failures` are history.

The refinement mapping computes the phase from `acked`, `report`, `sentAt` and
whether somebody is between the claim and its outcome; `copies` is `delivered`.

### MeetingSlots

A Meet code is a slot. A row takes it (`Take`: all codes of one commit are free, and
each is taken by one row only), may hand it back while its transaction is open
(`Withdraw`), and gives it up once and for all (`GiveUp`). `Detection` maps absent to
free, open and in flight to held, over to over: its inserts, which are several in one
upsert, are `Take`, a request that dies before its commit is `Withdraw`, a batch the
index rejects is a stutter, the end of a meeting is `GiveUp`. `MeetingLifecycle` maps
the statuses the same way (UNBORN is free; the four of the index are held; COMPLETED,
CANCELLED and the failures are over). So both sides of the table agree on one
contract: what the detectors assume of the loop when they insert (`MeetingEnds` in
`Detection` is all they see of it) is what the loop is shown to do, and the reverse.
With requests the lifecycle does not implement it: a `/refresh` or a late webhook may
put a row that is over back in flight (see "Where code and documentation differ").

### MeetingLifecycle

Rows with status, whether they have a bot id, tries, and four timestamps abstracted to
the side of the deadline they are compared with: `window` (none, early, due, missed)
for `start_time` against the claim window, `claim` for `dispatch_claimed_at` against
`_CLAIM_TIMEOUT`, `age` for `bot_dispatched_at` against `_ACTIVE_TIMEOUT`, and `end`
for `end_time` plus its grace. An all-day event has no `start_time`: `Init` chooses
the rows without one among `Untimed`, and the rows without an end among `Endless`.
`TimePasses` moves one deadline at any time, so nothing bounds time; two relations
between deadlines are kept (three hours are longer than the window; a meeting ends
after it starts). `late` is history: the rows of which a claim has once been open for
longer than `_CLAIM_TIMEOUT`. `Fix` is `recover_stale`'s three queries, `RecoverRead`
and `RecoverCommit` its reads and its one commit; `Claim`, `Join` and `JoinReturns`
are `dispatch_due`; `SelectActive`, `Poll`, `Reconcile` and `Stop` are
`advance_active`; `SelectPending`, `FinalizeBegins` and `FinalizeEnds` are
`process_pending`, where the whole pipeline has one outcome of the kinds
`InsightEmail` has. `/refresh` and `/stop` run the same steps once; the webhook picks
the latest row of the code, marks it and finalizes it. `/admin/scheduler-tick` is a
ticking process that starts like a request and ticks once (`Once`, `Starts`, `Rests`);
`MaxCalls` bounds these calls from outside all together. Vexa is external: the latest
bot of each room, which is admitted or refused and leaves; it answers with an error
whenever it likes, and an ended bot may vanish from its list.

`process_pending` and the webhook take the rows of a pass in any order (a set):
the code's order is that of the ids, and no property depends on it.

### Detection

Rows are known by their source (event, e-mail, request) and are absent, open
(inserted by a transaction that has not committed), in flight or over. The two
loops list, look for codes in flight, and write in separate steps. `Rejected`
is the unique index against a whole batch, `Waits` an insert that waits for an
open transaction's key, `Keep` is `partition_calendar_candidates`, `Pick` the
scanner's cross-source and in-batch filter; the poller's compares an event with
the table only, so that two new events of one link reach the index together
(`Twins`), which then rejects the whole batch. The Meet codes are constants: an
event that is edited to another link is left for a later version. With
`ImplementsSlots` an upsert of an event whose meeting is over revives nothing: that
would be a move from over to held.

### TranscriptIndex

`chunk_segments` is a left fold with a flush at the end, so the state of the
fold (closed chunks and buffer) is all one needs to know of the transcript so
far; a chunk's text is the run of segments it covers, and its length is kept, as the
boundaries depend on lengths only. Each poller selects a live meeting, fetches
and cuts the transcript, counts rows, embeds, inserts; a remote call may fail and
the process may restart. Transcripts only grow here, as the docstrings of
chunker and index assume. In one process the loop never overlaps itself; two
pollers are two workers, or an old and a new deployment, which is what the
code's `ON CONFLICT DO NOTHING` is for. Chunk numbers start with 1 instead of 0.

### CopilotMentions

A message is its place in the chat: `get_chat` returns all messages up to now, and
messages with the same `dedup_key` are one message, as for the code. Each
poller goes through `capture_chat` (`Fetch`, `Persist`) and `handle_mention`
(`Claim`, `Skip` or `Acknowledge`, `Answer`, the sending, `RecordAnswered` or
`RecordFailed`); its places are the awaits between which another poller may
come. `Inserted` is the `ON CONFLICT DO NOTHING RETURNING id` of both tables. A
send has the outcomes of `request_with_retries`: accepted and heard, accepted and
the answer lost, refused with or without a retry, or no connection; after the
last try it raises (transport error) or returns the response, and these two end
differently, because the send is outside the `try` of `handle_mention`. Whether a
message is a mention with a question, a bare handle, or neither
(`parse_mention`) is a constant. `generated`, `posted`, `raised` and `cut`
are history. The database answers; an error of it would end the message's
handling like a raise.

In `AnswerDesk` a message is a case: open, taken by a handler, closed (answered,
failed or skipped) for good, or lost with its handler. A handler sends at most
`MaxCopies` copies; a case is closed as answered only if a copy was accepted, as
skipped only if none was. The mapping takes the phase from the record's status; a
PENDING one is taken while a poller is at work on it, else lost. `copies` is
`posted`, `MaxCopies` the tries of one `send_chat`. The refinement states in one
property that the records are true and final, that nobody takes a case twice or
goes on with a lost one.

### MeetingMemory

A transcript is its length, and so is the `meeting_memory` row: what
`refresh_memory` decides on are the two lengths. A builder (one `copilot_memory`
loop) selects a live meeting, fetches, looks at the row (`Look`: `should_rebuild`
and `_MIN_CHARS`), and stores what it built some seconds later (`Store`) without
looking again. `seen` is what the row covered at the look. Two builders are two
deployments, as for the index. Vexa and Gemini fail, processes restart.

### WebhookDelivery

Vexa delivers an event until it hears a 2xx or gives up (`Tries`). A delivery is
refused (`Refuse`: signature or timestamp), answered as a duplicate, ignored (another
type of event), or handled: `Begin` is everything up to the first await, recording the
id included, `Find` and `Mark` are the two halves of `_mark_processing` around its
await, `Spawn` the task and the answer. A handler may fail on the database (a 500) or
die with the process; several run at the same time. The row of a meeting is joining,
active, processing or settled, beside what Vexa knows of its bot (`bot`: joining,
active, ended), and a completion is delivered only when that has ended. A poll of
`advance_active` is taken apart at its awaits: it selects the row (`PollSelects`),
loads it (`PollLoads`), Vexa answers (`PollAsks`), and `refresh_status` writes what it
concludes from the row as it was loaded and the answer as it was given (`PollWrites`,
`Refreshed`), whatever the row has become since; a bot past its time is then stopped
(`PollStops`). Several polls may be under way (the tick, `/admin/scheduler-tick`).
Tasks and the pass of the tick (`ProcessPending`) settle the row. Events without an id
are never recorded. `acted`, `forgotten`, `broken` and `setbacks` (the times a poll
made the row of an ended meeting live again) are history. Which row an event is
matched to is `MeetingLifecycle`'s subject; here an event is about one meeting.

### TokenCache

Time is a counter. Google issues a token at some moment of the request
(`Issue`), so that the answer finds it aged by up to `LATENCY`, the deadline of
a request. `queue` is the `asyncio.Lock`, its holder first. A caller looks at the
cache (`Ask`), queues, looks again under the lock (`Enter`), posts with the
retries of `request_with_retries`, and stores and returns, is refused, or is
cancelled at any await (`Cancel`).

## Runs

| run | module | finds or shows | distinct states, depth |
|---|---|---|---|
| `InsightEmail` | `MCInsightEmail` | tick, webhook task, `/send-email`, `/analyze`, `/transcript` and a restart: one sender at a time, nothing sent after a confirmation, `EmailOutbox` implemented, every meeting with insights comes to rest; COMPLETED means e-mailed and attempts are counted as long as only the pipeline sends | 205,268, 44 |
| `MeetingLifecycle` | `MCMeetingLifecycle` | the loop against Vexa, two meetings of one room, a restart: the second with or without start and end: young bots are followed, a code has one row at a time and what is over stays over (`ImplementsSlots`), no row with a `start_time` hangs | 974,202, 53 |
| `MeetingLifecycleRequests` | `MCMeetingLifecycle` | the loop beside one call at any step, `/admin/scheduler-tick`, `/refresh`, `/stop` or the webhook, and a restart: a row is joined once as long as its claims are answered within `_CLAIM_TIMEOUT`; a followed bot is let go, whether or not its meeting has an end | 1,487,572, 53 |
| `MeetingLifecycleTwice` | `MCMeetingLifecycle` | `DispatchedOnce` violated | trace of 12 states |
| `MeetingLifecycleUntimed` | `MCMeetingLifecycle` | `NothingHangs` violated by an all-day event | trace of 8 states |
| `Detection` | `MCDetection` | poller, scanner, request and a restart, with links shared by events, mails and request: an upsert is rejected after a race or for two new events of one link only, `MeetingSlots` implemented through open transactions and upserts, every invitation is handled unless such a pair is on the calendar again and again | 616,384, 32 |
| `DetectionSharedLink` | `MCDetection` | `InvitationTracked` violated: the poller alone, three events, two with one link | trace of 9 states |
| `TranscriptIndex` | `MCTranscriptIndex` | two pollers, a failing call, a restart: dense rows, right numbers, chunks partition the transcript and all get indexed | 417,968, 26 |
| `CopilotMentions` | `MCCopilotMentions` | two pollers, every kind of message, lost and refused sends, a restart: one answer for a mention, `AnswerDesk` implemented (true and final records), PENDING is at work, every mention is captured | 167,054, 38 |
| `MeetingMemory` | `MCMeetingMemory` | two builders, failing calls, a restart: a rebuild buys its growth unless it was overtaken; in a meeting that goes on the memory catches up for good | 69,108, 30 |
| `WebhookDelivery` | `MCWebhookDelivery` | events refused, repeated, reordered, broken off by a failure or a restart, a ring of one id, beside a poll: ring and set agree, an event is acted on once per time its id is kept, acknowledged means acted on; an acted-on meeting is set back only by a poll answered before the end, once each; what has ended is settled in the end and stays so | 790,800, 27 |
| `TokenCache` | `MCTokenCache` | three callers through the lifetimes of a token, slow answers, retries, refusals, cancellations: returned tokens are fresh, refreshes are a lifetime apart, nobody starves | 46,093, 33 |

Each property of a passing run is broken by a variant of a definition (listed
under "mutants" in `PROJECT.json`), so none of them holds by the shape of the
model.

### Bounds

* `InsightEmail`: one actor of each kind (tick, webhook task, `/send-email`,
  `/analyze`), two attempts, one HTTP retry, one restart. A tick comes again for
  ever. Every pair of kinds meets at every place; a second actor of a kind adds
  no new pair of steps except two ticks, which exclude each other through the
  lock exactly as tick and webhook do. The proofs drop all these bounds for the
  safety properties.
* `MeetingLifecycle`: two rows of one room and the loop without requests, or one
  row with one call from outside of any kind, a second tick among them, in which a
  failed e-mail is not tried again (`MaxTries` 0). The theorem `OneDispatch` has
  any number of rows, tickers and requests. Two rows of a room are what the index,
  the younger-row cancellation, adoption of an old bot and the latest-row match are
  about; rows of different rooms share nothing. Of two rows the second may lack start
  and end, so that a row without a start meets one with one. One restart at any step.
  With one restart bot ids, claims and answers are lost in every combination.
* `Detection`: three events, two mails and a request, one restart. Two of the events,
  the mails and the request share a link: five sources of one code race for it.
  The third event has a link of its own and shows whether they take it down with them.
* `CopilotMentions`: four messages, two questions with a plain message and a bare
  handle between them, two pollers, one HTTP retry, one restart. Two
  pollers race for one message; a second question shows that what happened to the
  first does not disturb it.
* `TranscriptIndex`: four segments with lines of 1, 3 or 7 characters, target 5
  and maximum 8: several lines to a chunk, a line that closes a chunk by the
  target, one that closes it by the maximum. Two pollers, one failure, one restart.
* `MeetingMemory`: two builders, growth 3 and minimum 2, utterances of 1, 3 and 4
  characters (below, at and above the growth), 8 characters in all: three builds
  in a row, and an old build that commits after a newer one. Two failures, one
  restart.
* `WebhookDelivery`: a ring of one id; a completion tried three times and two events
  of another type, one of them without an id, so that the other evicts the
  completion. Two handlers, one poll, one failure, one restart. One meeting: events of
  different meetings share the ring only, which the event of another type does, too.
  The proofs have any number of each.
* `TokenCache`: a lifetime of 6, a margin of 3, a latency of 2, two retries, three
  callers (one waits behind one who waits) and a clock that runs to 10, over
  three cached lifetimes. Only the order of latency, margin and lifetime counts, and
  the proofs drop the numbers.

`CHECK_DEADLOCK FALSE` is set for `InsightEmail`, `TranscriptIndex`,
`CopilotMentions`, `MeetingMemory` and `WebhookDelivery` only: there the system may
come to rest (the meeting is settled, or ended).

### Fairness

Weak fairness for the steps of actors that have started and for what the runner
calls for ever: every remote call carries a deadline, `asyncio.Lock` is fair,
`_loop` catches every exception and calls again. Time passes. Nobody has to make
a request, no bot has to leave a call, nobody has to speak, and no
remote call has to succeed, with two exceptions stated in the models: the HTTP
and service failures of a run are finite where their counter says so
(`Retries`, `RETRIES`, `MaxFailures`). In `WebhookDelivery` no delivery has to arrive: only
handlers at work, polls, tasks and the tick go on, and no bot has to be admitted or
to leave. In `TokenCache` nobody has to ask,
and a caller that is being served is served to the end of its request
(`httpx.Timeout(10.0)`), with or without a token. `Converges` speaks of
meetings that go on; when one ends, its loop stops and the memory stays as it is.

## What is proved

TLAPS checks every proof, for any sets of actors, rows, rooms, sources and
pollers and any bounds. The assumptions are the named ones of the modules
(`ActorsAssumption`, `BoundsAssumption`, `LifecycleAssumption`,
`DetectionAssumption`, `IndexAssumption`, `MentionsAssumption`, `MemoryAssumption`,
`DeliveryAssumption`, `CacheAssumption`), which say that kinds of actors are
disjoint and bounds are numbers, and of the token cache that latency < margin <
lifetime (10 s, 60 s, `expires_in`). Theorems that need more say so in their
statement:

| assumption | says | why the code justifies it |
|---|---|---|
| `OneTicker`, `LoopAlone` | one process ticks; and nobody calls `/refresh`, `/stop` or the webhook | one process starts one scheduler loop (`services/runner.py`), a tick awaits its passes one after the other. `/admin/scheduler-tick` is a second ticking process, and requests come when they like: a theorem that excludes them is about the loop left to itself, and what breaks with them is said below |
| `OneBuilder` | one memory loop | the same, `copilot_memory` in `services/runner.py` |
| `RoomForAll` | the ring has room for all ids | 2048 of them (`api/routes/webhooks.py`): true of a process until so many events have come; after that `ActedOnce` with its `forgotten` is what remains |
| `Limits` | finitely many ticks and webhook tasks, `EMAIL_MAX_ATTEMPTS` above 0 | a task is one delivery; the default is 3 |

The theorems that state a run's property, every refinement among them, are
checked by TLC on the run's instance and proved for all. Others state invariants
that no run lists, as they carry the proofs of deeper properties or restate, for every
state, what one guard, the index or the lock enforces: `LockInPipeline` and
`CompletedIsFinal` (`InsightEmail`), `OneInFlight` (`MeetingLifecycle`), `OnePerCode`
and `OverIsOver` (`Detection`), `OneHandler`, `RecordIsTrue` and `RestIsFinal`
(`CopilotMentions`; the last two are what `ImplementsDesk` says of the records),
`CoversWhatWasSaid` (`MeetingMemory`) and `LockIsItsQueue` (`TokenCache`). A third
kind are bounds, and the safe halves of liveness properties; these follow last in
each of the paragraphs below.

* `InsightEmail_proofs`. `ClaimExclusive`, `LockInPipeline` and `NoSendAfterAck`
  need each other: the invariant `IInv` adds that only finalizers wait for the
  lock, that the claim is never set without a report, and that a confirmed send
  keeps the claim set with only the confirmed sender between claim and outcome.
  With it each step of `InsightEmail` is a step of `EmailOutbox` or a stutter
  (`RefinesOutbox`). As long as `Alone` holds (no restart and no sending route so
  far), a second invariant ties the status, the attempts and the loaded rows
  to what was delivered: under the lock an actor's loaded row is the row. From it
  follow `PipelineCompletesEmailed`, `AttemptsCountFailures` and
  `CompletedIsFinal`. `CopiesBounded`: there are at most `Retries + 1` copies
  for each failed send, and as many for one more. Each failed send has paid for the
  copies of its tries, and the one sender under way has delivered at most
  one for each try used up (`CopiesPaid`). So routes, ticks, webhooks and
  restarts together never duplicate an e-mail, lost answers do.
  `PipelineRetriesBounded`: under `Alone` fewer than
  `MaxAttempts + |Finalizers|` sends fail. `process_pending` reads the limit when it
  selects the row, nobody reads it again under the lock, and a webhook task not at
  all, so each further finalizer may add one (`RetriesBounded`); on the run's
  instance TLC reaches the bound.
* `MeetingLifecycle_proofs`. `OneInFlight` needs that the fixes a sweep is about to
  commit put at most one row of a code in flight. `DispatchedInTime` (`OneDispatch`)
  is proved for any number of ticking processes and any requests: the invariant
  (`Owned`) follows a row through the tick that claimed it (claimed, without a bot, in
  exactly that tick's list until its join returns) and shows that no refresh, stop,
  webhook or sweep of another tick gets it back into SCHEDULED as long as its claim
  has not got old. So a late answer is the only way to a second dispatch, and the run
  `MeetingLifecycleTwice` shows that with a late answer `DispatchedOnce` is false.
  `YoungBotIsFollowed` is proved for the loop by itself (`LoopAlone`; false with
  requests). The invariant `AInv` adds to what one ticking process knows of its own
  claims (`DInv`) what the tick may rely on in each pass although it awaited Vexa in
  between: the rows it joins are still JOINING, the rows it polls still in their call,
  the loaded status is the row's, a bot reported gone is gone, the rows it finalizes
  are past their call (`Knows`); and that the rows of a code are born one after the
  other's end (`InOrder`), so that a new bot in a room can only be that of the row
  being joined. From it follows `RefinesSlots`: what the tick saves is never based on
  a row that has ended in between. `OnlyEndedFinalized` needs less: it is proved with
  `/stop` at any step, since between the selection of a row and the end of its
  pipeline nobody takes it back into its call (`Closing`); with a late webhook it is
  false. `NoRowFallsThrough` is the safe
  half of `TimedNeverHangs`, with stops and webhooks: a row before its insights is
  found by `recover_stale` when its deadlines have passed (`NoRowEscapes`: `Fix` of
  the aged row is not "nothing to do"), because bot id and dispatch time come and go
  together and a JOINING row without them has a claim (`Watched`). The one exception
  is a SCHEDULED row without `start_time` (`Hangs`), which is the run
  `MeetingLifecycleUntimed`: the theorem says that there is no other. With `/refresh`
  it fails.
* `Detection_proofs`. `OnePerCode` follows from the index and the wait alone, and
  with it each step takes, withdraws or gives up slots (`RefinesSlots`).
  `RejectedForCause` (`FilterSuffices`) is proved whoever shares a link: a batch about
  to be written has no candidate whose code another row held when the loop
  looked, and in the scanner's batch no two of one code (`Filtered`). So the index rejects
  the scanner's batch only after a race, and the poller's, besides, only for two new
  events of one link.
* `TranscriptIndex_proofs`. The lemmas `ChunksGrow` (re-chunking a longer
  transcript extends the chunks: the same ones, only the last perhaps longer) and
  `AddFits` (the fold's chunks and buffer cover the segments) do the work. The
  invariant: rows are dense, what a poller counted is still there, what it
  fetched is extended by the present chunks. `OnlyTailsAreCut` draws the line
  around what the unfinished last chunk costs (see below): rows never change, and a
  row falls behind its chunk only if that was the last one of what its poller had fetched, or of the transcript
  until somebody spoke. `EachInsertCompletes` is the safe half of
  `EveryChunkIndexed`: a count that is out of date by the time of the insert
  leaves no gap.
* `CopilotMentions_proofs`. The invariant ties claim,
  place and record together: a handler's message is claimed, PENDING and nobody
  else's; what the handler has generated and posted follows from its place;
  records without an answer have no copies. The lemma `AdvanceTyped` (a poller at
  work is at one of the messages it fetched) carries the loop. With it each
  step is one of `AnswerDesk` or a stutter (`RefinesDesk`). A second invariant
  (`Kept`) is about the table of messages: a poller comes to a message with
  all earlier ones stored, so that the stored chat has no gaps
  (`StoredWithoutGaps`), and a stored mention is at rest, about to be
  claimed, at work, cut short by a restart or unsendable (`NoMentionDropped`, the safe
  half of `MentionsCaptured`).
* `MeetingMemory_proofs`. The invariant is that nobody knows of text that was not
  spoken and that a builder keeps, until it stores, the growth and the length it
  decided on (`Decided`). `RebuildBuysGrowth` follows. With one loop nobody
  overtakes a builder (`LooksLast`), so the memory never goes back and each write but the
  first adds `MIN_GROWTH` characters (`MemoryOnlyGrows`): this bounds the
  builds a meeting pays for by its length. With two loops it does go back.
* `WebhookDelivery_proofs`. `RingIsSet` by itself: dropping the head of the ring
  from the set keeps them equal because no id is in the ring twice. `ActedOnce`
  needs that acts under way count already: each act, done or to be done, has an id
  recorded or forgotten (`Accounted`). `HandedOff` needs that the meeting of a handler
  past its mark, and of an event acted on, has ended and is out of flight or was set
  back by a poll (`MarkHolds`, `ActedHolds`, `Kept`), and that a poll has set its
  row back only with an answer from before the end, of which it gets no second one
  (`OneLateAnswer`).
  If the ring has room for every id, ids are forgotten by restarts only
  (`Remembered`; the ring is injective, so it is not full while an id is
  missing), and an event is acted on at most once per run of the process
  (`OncePerRestart`).
* `TokenCache_proofs`. The invariant `IInv`: the lock is its queue (so a store finds
  no other refresh under way); a token on its way is not older than a request may
  be (`Underway`); who refreshes found the token due (`Due`); the cached lifetimes
  do not overlap and add up to the expiry (`Spent`); the cache's idea of an expiry
  is the margin less the latency before Google's (`Fresh`). `EveryTurnComes` is the
  ranking half of `NobodyStarves`: whoever queues has a natural number (`Wait`:
  the steps its holder has left, and a full turn for each other one ahead)
  which every step under the lock lowers and no step of anybody else, not
  even a cancellation in the middle of the queue, raises. What is left to liveness
  is that a holder can and does take a step.

Only model-checked: all liveness (`Settles`, `TimedNeverHangs`,
`FollowedUntilTheEnd`, `TrackedUnlessTwins`, `EveryChunkIndexed`,
`MentionsCaptured`, `Converges`, `EndedIsSettled`, `NobodyStarves`): fairness and
`ENABLED` are out of the prover's reach, so the theorems named above as halves of
them say only what a step may not do. All invariants, action properties and
refinements of the passing runs are proved.

## Where code and documentation differ

Three runs end in a counterexample on purpose. In short (`PROJECT.json` has the
quotes):

* `MeetingLifecycleTwice`: the loop and `/admin/scheduler-tick` dispatch a row twice
  if the first is still at its joins when the claim is older than `_CLAIM_TIMEOUT`,
  although claims are documented as safe for several workers and processes.
* `MeetingLifecycleUntimed`: an all-day event has no `start_time`, and neither the
  claim nor the sweep of missed windows selects such a row: it stays SCHEDULED for ever
  and blocks its Meet code.
* `DetectionSharedLink`: two new events with one link make every poll fail, with
  nobody else writing, until one of them is gone; an event with a link of its own fails with
  them.

Further behaviour the models have and no run reports.

Lifecycle and detection:

* A late `meeting.completed` finalizes the next meeting of a recurring link:
  `_find_meeting_id` (`api/routes/webhooks.py`) takes the latest row of the code
  (`Webhook`), although `finalize_meeting` is for a meeting that has ended.
  `FinalizesEnded` fails with a webhook, and holds without (`OnlyEndedFinalized`).
* `/refresh` of a FAILED_JOIN row whose bot did join gives an ACTIVE row without
  bot id, which hangs for ever (`Reconcile`), although `recover_stale` promises
  that no row does. `NoRowFallsThrough` excludes this request and no other.
* `/stop` during a join moves the row to PROCESSING while the bot still arrives
  (`JoinReturns`).
* `recover_stale` takes a bot that is out for three hours from `advance_active`,
  which would have stopped it for the same reason: it stays in the call
  (`Fix`; the exception in `YoungBotIsFollowed`).

Insights:

* The loser of the e-mail claim writes COMPLETED before the winner has
  succeeded: beside `/send-email`, which takes no lock, COMPLETED stays if the
  winner then fails, and nothing is sent (`LoseClaim`, `MarkAlreadySent`).
* `/analyze` and the pipeline may collide on the report. The failed flush leaves the
  session in need of a rollback, so the FAILED_ANALYSIS that `finalize_meeting` then
  sets cannot be committed: nothing is stored, the row stays PROCESSING, and the next
  tick finds the other's report and sends it (`StoreCollides`).
* A restart between claim and send loses the e-mail (`EmailOutbox`'s `Lose`), as the
  code's comments say. The HTTP layer repeats a POST whose answer was lost, so that
  the e-mail may be delivered twice before its first confirmation, although
  `send_report_email` says "never sends two emails" (`PostUnheard`; `EmailOutbox`
  promises no more).

Index:

* The unfinished last chunk is stored, grows, and its row is never replaced: that
  text cannot be retrieved, although `retrieval.py` says that a chunk's text is stable
  as the transcript grows (`Insert`). `OnlyTailsAreCut` says that nothing else is lost.

Webhook receiver:

* A poll that loaded JOINING and was answered "active" before the meeting ended
  writes ACTIVE over the webhook's PROCESSING (`PollWrites`), so that
  `process_pending`, which is to pick up what the task leaves, does not see the row.
  A later poll brings it back (`EndedIsSettled`); `HandedOff` says that only such an
  answer does this.
* The id is recorded before the event is acted on. If the handler then fails (a
  500) or dies, the redelivery is answered "duplicate" with a 200 and nothing is
  done (`broken`); the meeting is finalized by the poll only. The module's
  docstring knows no non-2xx but the 401.
* `_mark_processing` decides on the status it loaded, so that a row the tick has
  settled in between goes back to PROCESSING and is finalized once more (`Marked`).

Copilot:

* An answer may appear twice in the chat (`PostAccepted`). One whose send raises
  leaves its interaction PENDING for ever although `router.py` says any failure
  becomes FAILED (`raised`). A restart between storing a mention and claiming
  it, or while it is handled, leaves it unanswered for ever (`cut`).
* The docstring and ARCHITECTURE say that an empty memory is written for a short
  transcript; `refresh_memory` returns without writing (`Look`).
* Overlapping builds take the memory back to an earlier transcript for a while,
  and pay for more builds than the growth guard suggests (`Store`). Nobody
  passes `force`, so the final pass its docstring mentions does not happen: the
  last stretch of a meeting below `MIN_GROWTH_CHARS` never enters the memory.

Google:

* Nobody passes `force_refresh`, so a token that Google revokes stays cached until
  its expiry. While Google is down the callers wait behind each other's retries
  (`NobodyStarves` holds; the wait adds up).

## What is not modelled, and why

Text in, text out: invitation parsing, Meet links, e-mail template, transcript
formatting, prompts, the contents of a memory. Remote calls are their outcomes.
Signature and timestamp checks are functions of bytes: their verdict is a step
(`Refuse`). RSVPs to the calendar and the read-only routes change no state the
properties are about. The Google push channel only makes the poller look earlier;
the renewal before expiry that its docstring expects of the runner has no code.
The WebSocket client (`services/vexa/ws_client.py`) is started by nothing in the
running application, so there is no schedule to model it under. An event that is
edited to another Meet link is left out of `Detection`, whose codes are constants.

## Plan

Done, most important first: `InsightEmail` (with `EmailOutbox`),
`MeetingLifecycle`, `Detection`, `TranscriptIndex`, `CopilotMentions`,
`WebhookDelivery`, `MeetingMemory`, `TokenCache`, each with its proofs; the
contracts `MeetingSlots` and `AnswerDesk` with their refinements. Left:

1. Edited links in `Detection`: a row whose bot is in the old room.
2. Bots for `dispatch_by_url`, which only `Detection` has: a composition of it with
   `MeetingLifecycle` beyond the contract both implement (`MeetingSlots`).
3. `InsightEmail`'s outcomes as the specification of `FinalizeEnds`.
4. Rankings like that of `EveryTurnComes` for `EveryChunkIndexed` and `Converges`.
5. The WebSocket client, once the application starts it.
