--------------------------- MODULE WebhookDelivery ---------------------------
(***************************************************************************)
(* How Vexa's deliveries reach the insight pipeline: the receiver of       *)
(* api/routes/webhooks.py with its ring of event ids, the handlers it runs *)
(* concurrently, the finalize tasks they spawn, and the scheduler as the   *)
(* fallback for everything that gets lost on the way.                      *)
(*                                                                         *)
(* Vexa is external: it delivers an event until it hears a 2xx or gives    *)
(* up, and it may deliver again while a slow handler is still at work. A   *)
(* handler's steps are those between its awaits; all of _already_seen is   *)
(* one step. So are the steps of a poll, which reads the row, waits for    *)
(* Vexa's answer and writes what it made of the two. What finalize_meeting *)
(* does is InsightEmail's subject: here it settles the row or fails.       *)
(***************************************************************************)
EXTENDS Naturals, Sequences, FiniteSets

CONSTANTS
  Meetings,
  Events,        (* event_ids Vexa uses                                      *)
  About,         (* the meeting a completion is about, which has a row;
                    Nothing for an event of another type                     *)
  Nothing,
  NoEvent,       (* a handler that is not in use has none                    *)
  Anonymous,     (* events without an event_id                               *)
  Handlers,      (* requests that may be handled at the same time            *)
  Polls,         (* polls that may be under way at the same time             *)
  Polled,        (* the meeting each of them is about                        *)
  RingSize,      (* maxlen of _SEEN_EVENT_IDS                                *)
  Tries,         (* bound: times Vexa tries each event                       *)
  MaxFailures,   (* bound: database or pipeline failures                     *)
  MaxCrashes     (* bound: restarts                                          *)

ASSUME DeliveryAssumption ==
  /\ Nothing \notin Meetings
  /\ NoEvent \notin Events
  /\ About \in [Events -> Meetings \cup {Nothing}]
  /\ Anonymous \subseteq Events
  /\ IsFiniteSet(Handlers)
  /\ Polled \in [Polls -> Meetings]
  /\ RingSize \in Nat \ {0}
  /\ Tries \in [Events -> Nat]
  /\ MaxFailures \in Nat
  /\ MaxCrashes \in Nat

VARIABLES
  bot,       (* Vexa's status of each meeting's bot                          *)
  row,       (* the status of its row                                        *)
  pollAt,    (* where each poll is                                           *)
  held,      (* the status it has loaded                                     *)
  says,      (* what Vexa answered                                           *)
  setbacks,  (* history: times its write made the row of an ended meeting
                live again                                                   *)
  ring,      (* _SEEN_EVENT_IDS                                              *)
  seen,      (* _seen_event_set                                              *)
  at,        (* where each handler is                                        *)
  event,     (* the event it handles                                         *)
  loaded,    (* the status it has loaded                                     *)
  tasks,     (* finalize tasks at work on each meeting                       *)
  delivered, (* times Vexa tried each event                                  *)
  acked,     (* events Vexa got a 2xx for                                    *)
  acted,     (* history: times an event was acted on to the end              *)
  forgotten, (* history: times its id was dropped, by the ring or a restart  *)
  broken,    (* history: events whose handler failed or was killed           *)
  failures,
  crashes

memory == <<ring, seen, forgotten>>
handler == <<at, event, loaded>>
poll == <<pollAt, held, says, setbacks>>
vexa == <<delivered, acked>>
receiver == <<memory, handler, tasks, vexa, acted, broken>>
faults == <<failures, crashes>>
vars == <<bot, row, poll, receiver, faults>>

Places == {"idle", "find", "mark", "spawn"}
PollPlaces == {"idle", "load", "ask", "write", "stop"}
Live == {"joining", "active"}
Statuses == Live \cup {"processing", "settled"}
Answers == Live \cup {"processing", "failed", "gone"}

Init ==
  /\ bot = [m \in Meetings |-> "joining"]
  /\ row = [m \in Meetings |-> "joining"]
  /\ pollAt = [q \in Polls |-> "idle"]
  /\ held = [q \in Polls |-> "joining"]
  /\ says = [q \in Polls |-> "gone"]
  /\ setbacks = [q \in Polls |-> 0]
  /\ ring = <<>>
  /\ seen = {}
  /\ at = [h \in Handlers |-> "idle"]
  /\ event = [h \in Handlers |-> NoEvent]
  /\ loaded = [h \in Handlers |-> "joining"]
  /\ tasks = [m \in Meetings |-> 0]
  /\ delivered = [e \in Events |-> 0]
  /\ acked = {}
  /\ acted = [e \in Events |-> 0]
  /\ forgotten = [e \in Events |-> 0]
  /\ broken = {}
  /\ failures = 0
  /\ crashes = 0

-----------------------------------------------------------------------------
(* _already_seen *)

\* variant: what falls out of the ring stays in the set
DropsHalf ==
  IF Len(ring) = RingSize THEN <<Tail(ring), seen>> ELSE <<ring, seen>>

\* Ring and set with room for one more id.
Room ==
  IF Len(ring) = RingSize
    THEN <<Tail(ring), seen \ {Head(ring)}>>
    ELSE <<ring, seen>>

\* Counts the ids this step drops.
Forget ==
  forgotten' = [e \in Events |->
                  IF e \in seen \ seen' THEN forgotten[e] + 1 ELSE forgotten[e]]

\* variant: an empty id is recorded like any other
RecordAny(e) ==
  /\ ring' = Append(Room[1], e)
  /\ seen' = Room[2] \cup {e}
  /\ Forget

Record(e) ==
  IF e \in Anonymous
    THEN UNCHANGED memory
    ELSE /\ ring' = Append(Room[1], e)
         /\ seen' = Room[2] \cup {e}
         /\ Forget

-----------------------------------------------------------------------------
(* vexa_webhook_receiver *)

\* The handler answers with a 2xx, which Vexa hears or not.
Answer(e) == acked' \in {acked, acked \cup {e}}

\* Vexa sends the event, which exists once the meeting is over.
Delivery(e) ==
  /\ e \notin acked
  /\ About[e] \in Meetings => bot[About[e]] = "ended"
  /\ delivered[e] < Tries[e]
  /\ delivered' = [delivered EXCEPT ![e] = @ + 1]

\* variant: recorded before it is verified
RefuseKnown(e) ==
  /\ Delivery(e)
  /\ Record(e)
  /\ UNCHANGED <<bot, row, poll, handler, tasks, acked, acted, broken, faults>>

\* Signature or timestamp is refused, with a 401.
Refuse(e) ==
  /\ Delivery(e)
  /\ UNCHANGED <<bot, row, poll, memory, handler, tasks, acked, acted, broken, faults>>

\* variant: an id is known once its event has been acted on
KnownWhenActed(e) == e \notin Anonymous /\ e \in seen /\ acted[e] > 0

\* The id has been recorded. Without an id nothing has.
Known(e) == e \notin Anonymous /\ e \in seen

Duplicate(e) ==
  /\ Delivery(e)
  /\ Known(e)
  /\ Answer(e)
  /\ UNCHANGED <<bot, row, poll, memory, handler, tasks, acted, broken, faults>>

\* Recorded, and nothing to be done: another type of event.
Ignore(e) ==
  /\ Delivery(e)
  /\ ~Known(e)
  /\ About[e] = Nothing
  /\ Record(e)
  /\ Answer(e)
  /\ acted' = [acted EXCEPT ![e] = @ + 1]
  /\ UNCHANGED <<bot, row, poll, handler, tasks, broken, faults>>

\* Recorded, and on to the first await.
Begin(h, e) ==
  /\ at[h] = "idle"
  /\ Delivery(e)
  /\ ~Known(e)
  /\ About[e] \in Meetings
  /\ Record(e)
  /\ at' = [at EXCEPT ![h] = "find"]
  /\ event' = [event EXCEPT ![h] = e]
  /\ UNCHANGED <<bot, row, poll, loaded, tasks, acked, acted, broken, faults>>

Meeting(h) == About[event[h]]

\* _find_meeting_id finds the row, _mark_processing loads it.
Find(h) ==
  /\ at[h] = "find"
  /\ loaded' = [loaded EXCEPT ![h] = row[Meeting(h)]]
  /\ at' = [at EXCEPT ![h] = "mark"]
  /\ UNCHANGED <<bot, row, poll, memory, event, tasks, vexa, acted, broken, faults>>

\* variant: the mark is left to the task
MarkLater(status, old) == status

\* The status after the commit: what was loaded decides, so that a row that
\* was settled since goes back to processing.
Marked(status, old) == IF old \in Live THEN "processing" ELSE status

Mark(h) ==
  /\ at[h] = "mark"
  /\ row' = [row EXCEPT ![Meeting(h)] = Marked(@, loaded[h])]
  /\ at' = [at EXCEPT ![h] = "spawn"]
  /\ UNCHANGED <<bot, poll, memory, event, loaded, tasks, vexa, acted, broken, faults>>

Rest(h) ==
  /\ at' = [at EXCEPT ![h] = "idle"]
  /\ event' = [event EXCEPT ![h] = NoEvent]
  /\ loaded' = [loaded EXCEPT ![h] = "joining"]

\* _spawn_finalize and the answer.
Spawn(h) ==
  /\ at[h] = "spawn"
  /\ tasks' = [tasks EXCEPT ![Meeting(h)] = @ + 1]
  /\ acted' = [acted EXCEPT ![event[h]] = @ + 1]
  /\ Answer(event[h])
  /\ Rest(h)
  /\ UNCHANGED <<bot, row, poll, memory, delivered, broken, faults>>

\* The database fails while the handler looks or marks: a 500. The id stays.
HandlerFails(h) ==
  /\ at[h] \in {"find", "mark"}
  /\ failures < MaxFailures
  /\ failures' = failures + 1
  /\ broken' = broken \cup {event[h]}
  /\ Rest(h)
  /\ UNCHANGED <<bot, row, poll, memory, tasks, vexa, acted, crashes>>

-----------------------------------------------------------------------------
(* Polling: scheduler.advance_active, for one row                          *)

\* variant: rows that a webhook is about are left to it
PollAwaits(q) ==
  /\ pollAt[q] = "idle"
  /\ row[Polled[q]] \in Live
  /\ \A e \in Events : About[e] # Polled[q]
  /\ pollAt' = [pollAt EXCEPT ![q] = "load"]
  /\ UNCHANGED <<bot, row, held, says, setbacks, receiver, faults>>

\* The pass selects the row among those in flight, and comes to it later.
PollSelects(q) ==
  /\ pollAt[q] = "idle"
  /\ row[Polled[q]] \in Live
  /\ pollAt' = [pollAt EXCEPT ![q] = "load"]
  /\ UNCHANGED <<bot, row, held, says, setbacks, receiver, faults>>

PollLoads(q) ==
  /\ pollAt[q] = "load"
  /\ pollAt' = [pollAt EXCEPT ![q] = "ask"]
  /\ held' = [held EXCEPT ![q] = row[Polled[q]]]
  /\ UNCHANGED <<bot, row, says, setbacks, receiver, faults>>

\* A bot that has left is still listed as one that is done or has failed, or
\* is not listed any more.
AnswersFor(m) ==
  IF bot[m] = "ended" THEN {"processing", "failed", "gone"} ELSE {bot[m]}

\* Vexa's side of get_status. The answer is on its way from here.
PollAsks(q) ==
  /\ pollAt[q] = "ask"
  /\ pollAt' = [pollAt EXCEPT ![q] = "write"]
  /\ \E a \in AnswersFor(Polled[q]) : says' = [says EXCEPT ![q] = a]
  /\ UNCHANGED <<bot, row, held, setbacks, receiver, faults>>

\* refresh_status: what was loaded decides whether the answer is news, and
\* what is news is written over whatever the row has become meanwhile.
Refreshed(status, old, answer) ==
  CASE answer = "gone" -> IF old \in Live THEN "processing" ELSE status
    [] answer = "failed" -> "settled"
    [] OTHER -> IF answer # old THEN answer ELSE status

PollRests(q) ==
  /\ pollAt' = [pollAt EXCEPT ![q] = "idle"]
  /\ held' = [held EXCEPT ![q] = "joining"]
  /\ says' = [says EXCEPT ![q] = "gone"]

\* Written and read back: a row that is in flight still may be past its time,
\* and its bot is told to leave.
PollWrites(q) ==
  LET m == Polled[q]
      status == Refreshed(row[m], held[q], says[q])
  IN /\ pollAt[q] = "write"
     /\ row' = [row EXCEPT ![m] = status]
     /\ setbacks' = IF bot[m] = "ended" /\ row[m] \notin Live /\ status \in Live
                      THEN [setbacks EXCEPT ![q] = @ + 1]
                      ELSE setbacks
     /\ \/ PollRests(q)
        \/ /\ status \in Live
           /\ pollAt' = [pollAt EXCEPT ![q] = "stop"]
           /\ held' = [held EXCEPT ![q] = status]
           /\ says' = [says EXCEPT ![q] = "gone"]
     /\ UNCHANGED <<bot, receiver, faults>>

\* stop_meeting, whether Vexa acknowledges or not: the row was in flight when
\* it was read.
PollStops(q) ==
  /\ pollAt[q] = "stop"
  /\ row' = [row EXCEPT ![Polled[q]] = "processing"]
  /\ PollRests(q)
  /\ UNCHANGED <<bot, setbacks, receiver, faults>>

\* get_status raises: the pass goes on to the next row.
PollFails(q) ==
  /\ pollAt[q] = "ask"
  /\ failures < MaxFailures
  /\ failures' = failures + 1
  /\ PollRests(q)
  /\ UNCHANGED <<bot, row, setbacks, receiver, crashes>>

Poll(q) == PollSelects(q) \/ PollLoads(q) \/ PollAsks(q) \/ PollWrites(q) \/ PollStops(q)

-----------------------------------------------------------------------------
(* Finalizing *)

\* _finalize_meeting_now: settles the row, or logs what was raised.
TaskEnds(m) ==
  /\ tasks[m] > 0
  /\ tasks' = [tasks EXCEPT ![m] = @ - 1]
  /\ \/ /\ row' = [row EXCEPT ![m] = "settled"]
        /\ UNCHANGED failures
     \/ /\ failures < MaxFailures
        /\ failures' = failures + 1
        /\ UNCHANGED row
  /\ UNCHANGED <<bot, poll, memory, handler, vexa, acted, broken, crashes>>

\* process_pending: the tick finalizes a row in processing, or fails to.
ProcessPending(m) ==
  /\ row[m] = "processing"
  /\ \/ /\ row' = [row EXCEPT ![m] = "settled"]
        /\ UNCHANGED failures
     \/ /\ failures < MaxFailures
        /\ failures' = failures + 1
        /\ UNCHANGED row
  /\ UNCHANGED <<bot, poll, receiver, crashes>>

-----------------------------------------------------------------------------

\* The bot is let in.
Admit(m) ==
  /\ bot[m] = "joining"
  /\ bot' = [bot EXCEPT ![m] = "active"]
  /\ UNCHANGED <<row, poll, receiver, faults>>

\* It has left, or was never let in.
End(m) ==
  /\ bot[m] # "ended"
  /\ bot' = [bot EXCEPT ![m] = "ended"]
  /\ UNCHANGED <<row, poll, receiver, faults>>

\* The process restarts: ring, handlers, polls and tasks are gone.
Crash ==
  /\ crashes < MaxCrashes
  /\ crashes' = crashes + 1
  /\ ring' = <<>>
  /\ seen' = {}
  /\ Forget
  /\ broken' = broken \cup {event[h] : h \in {g \in Handlers : at[g] # "idle"}}
  /\ at' = [h \in Handlers |-> "idle"]
  /\ event' = [h \in Handlers |-> NoEvent]
  /\ loaded' = [h \in Handlers |-> "joining"]
  /\ pollAt' = [q \in Polls |-> "idle"]
  /\ held' = [q \in Polls |-> "joining"]
  /\ says' = [q \in Polls |-> "gone"]
  /\ tasks' = [m \in Meetings |-> 0]
  /\ UNCHANGED <<bot, row, setbacks, vexa, acted, failures>>

Handle(h) == Find(h) \/ Mark(h) \/ Spawn(h)

Next ==
  \/ \E e \in Events : \/ Refuse(e) \/ Duplicate(e) \/ Ignore(e)
                       \/ \E h \in Handlers : Begin(h, e)
  \/ \E h \in Handlers : Handle(h) \/ HandlerFails(h)
  \/ \E q \in Polls : Poll(q) \/ PollFails(q)
  \/ \E m \in Meetings : Admit(m) \/ End(m) \/ TaskEnds(m) \/ ProcessPending(m)
  \/ Crash

Spec == Init /\ [][Next]_vars

FairSpec ==
  /\ Spec
  /\ \A h \in Handlers : WF_vars(Handle(h))
  /\ \A q \in Polls : WF_vars(Poll(q))
  /\ \A m \in Meetings : WF_vars(TaskEnds(m)) /\ WF_vars(ProcessPending(m))

-----------------------------------------------------------------------------

\* What may be stored where.
TypeOK ==
  /\ bot \in [Meetings -> Live \cup {"ended"}]
  /\ row \in [Meetings -> Statuses]
  /\ pollAt \in [Polls -> PollPlaces]
  /\ held \in [Polls -> Statuses]
  /\ says \in [Polls -> Answers]
  /\ setbacks \in [Polls -> Nat]
  /\ ring \in Seq(Events \ Anonymous)
  /\ seen \subseteq Events \ Anonymous
  /\ at \in [Handlers -> Places]
  /\ event \in [Handlers -> {e \in Events : About[e] \in Meetings} \cup {NoEvent}]
  /\ \A h \in Handlers : at[h] = "idle" <=> event[h] = NoEvent
  /\ loaded \in [Handlers -> Statuses]
  /\ tasks \in [Meetings -> Nat]
  /\ delivered \in [Events -> Nat]
  /\ \A e \in Events : delivered[e] <= Tries[e]
  /\ acked \subseteq Events
  /\ acted \in [Events -> Nat]
  /\ forgotten \in [Events -> Nat]
  /\ broken \subseteq Events
  /\ failures \in 0 .. MaxFailures
  /\ crashes \in 0 .. MaxCrashes

\* Ring and set are one collection: the same ids, each once, and at most
\* RingSize of them however many events come (_already_seen).
RingIsSet ==
  /\ seen = {ring[i] : i \in DOMAIN ring}
  /\ \A i, j \in DOMAIN ring : ring[i] = ring[j] => i = j
  /\ Len(ring) <= RingSize

\* Whatever is redelivered, and while whatever handler is still at work, an
\* event is acted on once for each time its id was forgotten, and once more.
ActedOnce ==
  \A e \in Events \ Anonymous : acted[e] <= forgotten[e] + 1

\* Vexa stops redelivering an event only when it was acted on or is in a
\* handler's hands, unless a handler of it broke after its id was recorded.
AckedIsActedOn ==
  \A e \in acked :
    acted[e] > 0 \/ e \in broken \/ \E h \in Handlers : event[h] = e

\* Once an event was acted on, its meeting is in the hands of process_pending,
\* whatever becomes of the task ("durable handoff", _mark_processing), but for
\* one thing: a poll that Vexa answered before the end may write after the mark.
\* A meeting that was acted on and is in flight again was set back by such a
\* poll, and each does so once at most, so that the handoff is lost no more
\* often than there were polls under way when the meeting ended.
HandedOff ==
  /\ \A e \in Events :
       acted[e] > 0 /\ About[e] \in Meetings /\ row[About[e]] \in Live =>
         \E q \in Polls : Polled[q] = About[e] /\ setbacks[q] > 0
  /\ \A q \in Polls : setbacks[q] <= 1

\* "a missing webhook only costs latency, never correctness": with deliveries
\* lost, refused, repeated or broken off, and polls that write what they read
\* before, what has ended is settled in the end and stays so.
EndedIsSettled ==
  \A m \in Meetings : <>(bot[m] = "ended") => <>[](row[m] = "settled")
=============================================================================
