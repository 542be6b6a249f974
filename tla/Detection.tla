----------------------------- MODULE Detection -----------------------------
(***************************************************************************)
(* How meetings get their rows: the calendar poller, the Gmail invite      *)
(* scanner and POST /meetings/dispatch, all writing the meetings table     *)
(* under its unique keys.                                                  *)
(*                                                                         *)
(* A row is known by what it came from: a calendar event                   *)
(* (google_event_id), an e-mail (gmail_message_id) or a request. Its life  *)
(* after that is one step, from in flight to over: MeetingLifecycle.tla    *)
(* has its inside.                                                         *)
(***************************************************************************)
EXTENDS Naturals

CONSTANTS
  Events,    (* calendar events with a Meet link                             *)
  Mails,     (* invitation e-mails                                           *)
  Manuals,   (* POST /meetings/dispatch requests                             *)
  CodeOf,    (* the Meet code of each of them                                *)
  MaxCrashes (* bound: restarts of the process                               *)

Sources == Events \cup Mails \cup Manuals
Loops == {"poller", "scanner"}

ASSUME DetectionAssumption ==
  /\ Events \cap Mails = {}
  /\ (Events \cup Mails) \cap Manuals = {}
  /\ DOMAIN CodeOf = Sources
  /\ MaxCrashes \in Nat

VARIABLES
  rows,    (* the meetings table                                             *)
  listed,  (* events in the poller's window of the calendar                  *)
  past,    (* events that have left it                                       *)
  inbox,   (* e-mails the scanner's query finds                              *)
  at,      (* where each loop is                                             *)
  batch,   (* what a loop is about to write                                  *)
  seen,    (* the rows in flight when the loop looked                        *)
  crashes

vars == <<rows, listed, past, inbox, at, batch, seen, crashes>>
world == <<listed, past, inbox, crashes>>

\* open: inserted by a transaction that has not committed, so that nobody reads
\* it, and whoever inserts the same key waits for it
States == {"absent", "open", "inflight", "over"}

Init ==
  /\ rows = [s \in Sources |-> "absent"]
  /\ listed = {}
  /\ past = {}
  /\ inbox = {}
  /\ at = [l \in Loops |-> "idle"]
  /\ batch = [l \in Loops |-> {}]
  /\ seen = [l \in Loops |-> {}]
  /\ crashes = 0

-----------------------------------------------------------------------------
(* The table *)

InFlight == {s \in Sources : rows[s] = "inflight"}
SameCode(s, S) == {t \in S : CodeOf[t] = CodeOf[s]}

New(S) == {s \in S : rows[s] = "absent"}

\* uq_meetings_active_native against the rows of S that are not there yet: one
\* per code, and none of a code in flight.
Rejected(S) ==
  \E s \in New(S) : SameCode(s, New(S) \cup InFlight) # {s}

Waits(S) == \E s \in New(S) : \E t \in SameCode(s, Sources) : rows[t] = "open"

\* variant: the status is among the columns an upsert sets
UpsertReset(S) ==
  /\ ~Waits(S)
  /\ rows' = IF Rejected(S)
               THEN rows
               ELSE [s \in Sources |-> IF s \in S THEN "inflight" ELSE rows[s]]

\* INSERT ... ON CONFLICT DO UPDATE: new rows are SCHEDULED, the others keep
\* their status. All of the batch, or, if the index objects, nothing.
Upsert(S) ==
  /\ ~Waits(S)
  /\ rows' = IF Rejected(S)
               THEN rows
               ELSE [s \in Sources |-> IF s \in New(S) THEN "inflight" ELSE rows[s]]

Rest(l) ==
  /\ at' = [at EXCEPT ![l] = "idle"]
  /\ batch' = [batch EXCEPT ![l] = {}]
  /\ seen' = [seen EXCEPT ![l] = {}]

Proceed(l, place, S) ==
  IF S = {}
    THEN Rest(l)
    ELSE /\ at' = [at EXCEPT ![l] = place]
         /\ batch' = [batch EXCEPT ![l] = S]
         /\ UNCHANGED seen

-----------------------------------------------------------------------------
(* calendar_poller.poll_once *)

\* variant: the poller takes up what is in flight, too
PollListTracked ==
  /\ at["poller"] = "idle"
  /\ Proceed("poller", "look", listed \cup InFlight)
  /\ UNCHANGED <<rows, world>>

PollList ==
  /\ at["poller"] = "idle"
  /\ Proceed("poller", "look", listed)
  /\ UNCHANGED <<rows, world>>

\* partition_calendar_candidates: an event is kept if nobody holds its code or
\* it does so itself.
Keep(S, held) == {e \in S : SameCode(e, held) = {} \/ e \in held}

PollLook ==
  LET held == InFlight
      kept == Keep(batch["poller"], held)
  IN /\ at["poller"] = "look"
     /\ IF kept = {}
          THEN Rest("poller")
          ELSE /\ at' = [at EXCEPT !["poller"] = "write"]
               /\ batch' = [batch EXCEPT !["poller"] = kept]
               /\ seen' = [seen EXCEPT !["poller"] = held]
     /\ UNCHANGED <<rows, world>>

\* variant: a rejected batch is tried again as it is
PollWriteAgain ==
  /\ at["poller"] = "write"
  /\ Upsert(batch["poller"])
  /\ IF Rejected(batch["poller"])
       THEN UNCHANGED <<at, batch, seen>>
       ELSE Rest("poller")
  /\ UNCHANGED world

PollWrite ==
  /\ at["poller"] = "write"
  /\ Upsert(batch["poller"])
  /\ Rest("poller")
  /\ UNCHANGED world

-----------------------------------------------------------------------------
(* gmail_scanner.scan_once *)

\* The e-mails without a row are fetched and parsed; some fetches may fail.
ScanList ==
  /\ at["scanner"] = "idle"
  /\ \E S \in SUBSET New(inbox) : Proceed("scanner", "look", S)
  /\ UNCHANGED <<rows, world>>

\* variant: the batch is not deduplicated
PickEvery(S, held) == {{g \in S : SameCode(g, held) = {}}}

\* What the cross-source check leaves of a batch: of each code that nobody
\* holds, one e-mail.
Pick(S, held) ==
  LET free == {g \in S : SameCode(g, held) = {}}
  IN {T \in SUBSET free : \A g \in free : \E h \in T : SameCode(g, T) = {h}}

ScanLook ==
  LET held == InFlight
  IN /\ at["scanner"] = "look"
     /\ \E S \in Pick(batch["scanner"], held) :
          IF S = {}
            THEN Rest("scanner")
            ELSE /\ at' = [at EXCEPT !["scanner"] = "write"]
                 /\ batch' = [batch EXCEPT !["scanner"] = S]
                 /\ seen' = [seen EXCEPT !["scanner"] = held]
     /\ UNCHANGED <<rows, world>>

ScanWrite ==
  /\ at["scanner"] = "write"
  /\ Upsert(batch["scanner"])
  /\ Rest("scanner")
  /\ UNCHANGED world

-----------------------------------------------------------------------------
(* POST /meetings/dispatch: dispatch_by_url *)

\* The row is flushed, and stays uncommitted while Vexa is asked for a bot.
DispatchOpens(u) ==
  /\ u \in Manuals
  /\ rows[u] = "absent"
  /\ ~Waits({u})
  /\ ~Rejected({u})
  /\ rows' = [rows EXCEPT ![u] = "open"]
  /\ UNCHANGED <<world, at, batch, seen>>

\* JOINING if Vexa sent a bot, FAILED_JOIN if not.
DispatchCommits(u) ==
  /\ rows[u] = "open"
  /\ \E s \in {"inflight", "over"} : rows' = [rows EXCEPT ![u] = s]
  /\ UNCHANGED <<world, at, batch, seen>>

-----------------------------------------------------------------------------
(* The world *)

EventAppears(e) ==
  /\ e \notin listed \cup past
  /\ listed' = listed \cup {e}
  /\ UNCHANGED <<rows, past, inbox, at, batch, seen, crashes>>

EventPasses(e) ==
  /\ e \in listed
  /\ listed' = listed \ {e}
  /\ past' = past \cup {e}
  /\ UNCHANGED <<rows, inbox, at, batch, seen, crashes>>

MailArrives(g) ==
  /\ g \notin inbox
  /\ inbox' = inbox \cup {g}
  /\ UNCHANGED <<rows, listed, past, at, batch, seen, crashes>>

MeetingEnds(s) ==
  /\ rows[s] = "inflight"
  /\ rows' = [rows EXCEPT ![s] = "over"]
  /\ UNCHANGED <<world, at, batch, seen>>

\* A restart rolls open transactions back.
Crash ==
  /\ crashes < MaxCrashes
  /\ crashes' = crashes + 1
  /\ rows' = [s \in Sources |-> IF rows[s] = "open" THEN "absent" ELSE rows[s]]
  /\ at' = [l \in Loops |-> "idle"]
  /\ batch' = [l \in Loops |-> {}]
  /\ seen' = [l \in Loops |-> {}]
  /\ UNCHANGED <<listed, past, inbox>>

Poller == PollList \/ PollLook \/ PollWrite
Scanner == ScanList \/ ScanLook \/ ScanWrite

Next ==
  \/ Poller
  \/ Scanner
  \/ \E u \in Manuals : DispatchOpens(u) \/ DispatchCommits(u)
  \/ \E e \in Events : EventAppears(e) \/ EventPasses(e)
  \/ \E g \in Mails : MailArrives(g)
  \/ \E s \in Sources : MeetingEnds(s)
  \/ Crash

Spec == Init /\ [][Next]_vars

\* The loops run for ever and a call to Vexa times out.
Fairness ==
  /\ WF_vars(PollList) /\ WF_vars(PollLook) /\ WF_vars(PollWrite)
  /\ \A u \in Manuals : WF_vars(DispatchCommits(u))
FairSpec == Spec /\ Fairness

-----------------------------------------------------------------------------
(* Properties *)

TypeOK ==
  /\ rows \in [Sources -> States]
  /\ listed \subseteq Events
  /\ past \subseteq Events
  /\ inbox \subseteq Mails
  /\ at \in [Loops -> {"idle", "look", "write"}]
  /\ batch \in [Loops -> SUBSET Sources]
  /\ batch["poller"] \subseteq Events
  /\ batch["scanner"] \subseteq Mails
  /\ seen \in [Loops -> SUBSET Sources]
  /\ crashes \in 0 .. MaxCrashes

(* No two meetings of one Meet code are in flight, counting those whose      *)
(* transaction is still open.                                                *)
OnePerCode ==
  \A s \in Sources :
    rows[s] \in {"open", "inflight"} =>
      \A t \in SameCode(s, Sources) : rows[t] \in {"open", "inflight"} => s = t

\* Two new rows of S are for one Meet code.
Twins(S) == \E s \in New(S) : SameCode(s, New(S)) # {s}

(* The cross-source filters let an upsert be rejected only if somebody got   *)
(* in between their look at the table and the write, or, in the poller, if   *)
(* two new events of the batch share a link: partition_calendar_candidates   *)
(* compares an event with the rows in flight and not with the other events,  *)
(* where the scanner deduplicates its batch.                                 *)
RejectedForCause ==
  \A l \in Loops :
    at[l] = "write" /\ Rejected(batch[l]) =>
      \/ ~(InFlight \subseteq seen[l])
      \/ l = "poller" /\ Twins(batch[l])

\* e has a row, has left the calendar, or its Meet code is followed from elsewhere.
Handled(e) == rows[e] # "absent" \/ e \notin listed \/ SameCode(e, InFlight) # {}

(* Every invitation on the calendar gets its row ("upserts each Meet-bearing *)
(* event into meetings": calendar_poller.py). Not true as soon as two new    *)
(* events on the calendar share a link.                                      *)
InvitationTracked == \A e \in Events : e \in listed ~> Handled(e)

(* It is as long as they do not: an invitation that is never handled, its    *)
(* own link shared or not, is on the calendar with two new events of one     *)
(* link again and again. Other sources, races and restarts only delay it.    *)
TrackedUnlessTwins == \A e \in Events : e \in listed ~> Handled(e) \/ Twins(listed)

(* A row that a detector found over is not put in flight again, so that a    *)
(* finished meeting is not joined twice from one invitation.                 *)
OverIsOver == [][\A s \in Sources : rows[s] = "over" => rows'[s] = "over"]_vars
-----------------------------------------------------------------------------
(* Detection implements MeetingSlots under this mapping.                     *)

\* What a row makes of its Meet code; one that is not committed holds it too.
Holding(state) ==
  CASE state = "absent" -> "free"
    [] state \in {"open", "inflight"} -> "held"
    [] state = "over" -> "over"

slot == [s \in Sources |-> Holding(rows[s])]

Slots == INSTANCE MeetingSlots WITH Meetings <- Sources, SlotOf <- CodeOf

(* Whatever the loops and requests read before they wrote, and with          *)
(* transactions that stay open or are rolled back, a Meet code goes from one *)
(* meeting to the next, and no invitation puts a finished meeting back.      *)
ImplementsSlots == Slots!SlotsSpec
=============================================================================
