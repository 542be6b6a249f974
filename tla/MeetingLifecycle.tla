-------------------------- MODULE MeetingLifecycle --------------------------
(***************************************************************************)
(* The life of the meetings rows: services/scheduler.py's tick (recover,   *)
(* claim and dispatch, advance, process), the /stop and /refresh routes    *)
(* and the Vexa webhook, against Vexa's bots, with restarts.               *)
(*                                                                         *)
(* Every process works row by row with a session of its own: it loads the  *)
(* row, awaits Vexa or the insight pipeline, and then writes; between the  *)
(* two anybody else may write. Timestamps are abstracted to the side of    *)
(* their deadline they are on, so that nothing bounds time:                *)
(*   window  start_time against _claim_due's window, "none" without one    *)
(*   claim   dispatch_claimed_at against _CLAIM_TIMEOUT                    *)
(*   age     bot_dispatched_at against _ACTIVE_TIMEOUT                     *)
(*   end     end_time against now - meeting_end_grace_seconds              *)
(* The insight pipeline is one step here; InsightEmail.tla has its inside. *)
(***************************************************************************)
EXTENDS Naturals, FiniteSets

CONSTANTS
  Rows,       (* ids of meetings rows, ascending in time                      *)
  Rooms,      (* Meet codes                                                   *)
  RoomOf,     (* native_meeting_id of each row                                *)
  Untimed,    (* rows that may have no start_time (all-day events)            *)
  Endless,    (* rows that may have no end_time (all-day events, instant      *)
              (* meets)                                                       *)
  Long,       (* rows whose bot may be out for _ACTIVE_TIMEOUT                *)
  Ticks,      (* processes that run tick(): the loop, /admin/scheduler-tick   *)
  Once,       (* those of them that tick once                                 *)
  Requests,   (* calls from outside, one run each                             *)
  Kinds,      (* what those calls may be                                      *)
  MaxTries,   (* settings.email_max_attempts                                  *)
  MaxCalls,   (* bound: requests and single ticks                             *)
  MaxCrashes, (* bound: restarts of the process                               *)
  None

Procs == Ticks \cup Requests

ASSUME LifecycleAssumption ==
  /\ Rows \subseteq Nat
  /\ RoomOf \in [Rows -> Rooms]
  /\ Untimed \subseteq Rows
  /\ Endless \subseteq Rows
  /\ Long \subseteq Rows
  /\ Once \subseteq Ticks
  /\ Ticks \cap Requests = {}
  /\ Kinds \subseteq {"refresh", "stop", "webhook"}
  /\ MaxTries \in Nat
  /\ MaxCalls \in Nat
  /\ MaxCrashes \in Nat
  /\ None \notin Rows

VARIABLES
  db,        (* the meetings table                                            *)
  bots,      (* Vexa: the latest bot of each room                             *)
  at,        (* where each process is                                         *)
  todo,      (* the ids a tick has selected for its current pass              *)
  cur,       (* the row a process is working on                               *)
  mem,       (* that row's status as the process's session loaded it          *)
  reply,     (* what Vexa answered to the process                             *)
  fixes,     (* what recover_stale is about to commit                         *)
  finLock,   (* rows whose finalize lock is held                              *)
  hooks,     (* rooms of which Vexa delivers meeting.completed, once or more  *)
  stopAsked, (* history: rooms whose latest bot was told to leave             *)
  late,      (* history: rows whose claim once was older than _CLAIM_TIMEOUT  *)
  crashes

vars == <<db, bots, at, todo, cur, mem, reply, fixes, finLock, hooks,
          stopAsked, late, crashes>>
local == <<at, todo, cur, mem, reply, fixes>>

InFlight == {"SCHEDULED", "JOINING", "ACTIVE", "PROCESSING"}
Over == {"COMPLETED", "CANCELLED", "FAILED_JOIN", "FAILED_ANALYSIS", "EMAIL_FAILED"}
Statuses == InFlight \cup Over \cup {"UNBORN"}
Row == [status : Statuses, bot : BOOLEAN,
        window : {"none", "early", "due", "missed"}, claim : {"none", "fresh", "old"},
        age : {"none", "fresh", "old"}, end : {"never", "later", "past"},
        tries : 0 .. MaxTries]

\* leaving: out of the room after a stop, and still reported as active
BotStates == {"none", "joining", "active", "leaving", "ended", "failed"}
LiveBot == {"joining", "active"}

Places == {"idle", "recovering", "claim", "dispatch", "joining", "advance", "polled",
           "stopping", "process", "finalizing", "mark", "done"}

Calls == Requests \cup Once

\* The loop comes to its next tick, or somebody calls.
Starts(p) ==
  /\ at[p] = "idle"
  /\ p \in Calls => Cardinality({q \in Calls : at[q] # "idle"}) < MaxCalls

\* Where p is when it is through.
Rests(p) == IF p \in Calls THEN "done" ELSE "idle"

NoFixes == [m \in Rows |-> "UNBORN"]

Init ==
  /\ \E untimed \in SUBSET Untimed, endless \in SUBSET Endless :
       db = [m \in Rows |->
              [status |-> "UNBORN", bot |-> FALSE,
               window |-> IF m \in untimed THEN "none" ELSE "early",
               claim |-> "none", age |-> "none",
               end |-> IF m \in endless THEN "never" ELSE "later", tries |-> 0]]
  /\ bots = [r \in Rooms |-> "none"]
  /\ at = [p \in Procs |-> "idle"]
  /\ todo = [p \in Procs |-> {}]
  /\ cur = [p \in Procs |-> None]
  /\ mem = [p \in Procs |-> "UNBORN"]
  /\ reply = [p \in Procs |-> "none"]
  /\ fixes = [p \in Procs |-> NoFixes]
  /\ finLock = {}
  /\ hooks = {}
  /\ stopAsked = {}
  /\ late = {}
  /\ crashes = 0

-----------------------------------------------------------------------------
(* Sessions *)

\* uq_meetings_active_native: one in-flight row per Meet code.
IndexAllows(m, s) ==
  s \in InFlight =>
    \A n \in Rows \ {m} : RoomOf[n] = RoomOf[m] => db[n].status \notin InFlight

\* The row after p's session set the status to s and the other columns as in
\* row, and committed: a status equal to the loaded one is not written, and a
\* commit the unique index rejects changes nothing.
Saved(p, m, row, s) ==
  LET status == IF mem[p] = s THEN db[m].status ELSE s
  IN IF IndexAllows(m, status) THEN [row EXCEPT !.status = status] ELSE db[m]

Save(p, row, s) == db' = [db EXCEPT ![cur[p]] = Saved(p, cur[p], row, s)]

\* end_time = end_time or now
Ended(row) == [row EXCEPT !.end = IF @ = "never" THEN "later" ELSE @]

Load(p, m, place) ==
  /\ at' = [at EXCEPT ![p] = place]
  /\ cur' = [cur EXCEPT ![p] = m]
  /\ mem' = [mem EXCEPT ![p] = db[m].status]

\* The pass a tick returns to when it is through with a row; a request is over.
Back(p) ==
  IF p \in Requests
    THEN "done"
    ELSE CASE at[p] = "joining" -> "dispatch"
           [] at[p] \in {"polled", "stopping"} -> "advance"
           [] OTHER -> "process"

Through(p) ==
  /\ at' = [at EXCEPT ![p] = Back(p)]
  /\ todo' = [todo EXCEPT ![p] = @ \ {cur[p]}]
  /\ cur' = [cur EXCEPT ![p] = None]
  /\ mem' = [mem EXCEPT ![p] = "UNBORN"]
  /\ reply' = [reply EXCEPT ![p] = "none"]

-----------------------------------------------------------------------------
(* Vexa *)

\* What GET /bots says of a room, as _VEXA_TO_STATUS maps it; GONE: not listed.
Reports(r) ==
  CASE bots[r] = "joining" -> {"JOINING"}
    [] bots[r] \in {"active", "leaving"} -> {"ACTIVE"}
    [] bots[r] = "ended" -> {"PROCESSING", "GONE"}
    [] bots[r] = "failed" -> {"FAILED_JOIN", "GONE"}
    [] OTHER -> {"GONE"}

BotMoves(r, from, to) ==
  /\ bots[r] \in from
  /\ bots' = [bots EXCEPT ![r] = to]
  /\ hooks' = IF to = "ended" /\ "webhook" \in Kinds THEN hooks \cup {r} ELSE hooks
  /\ UNCHANGED <<db, local, finLock, stopAsked, late, crashes>>

Admitted(r) == BotMoves(r, {"joining"}, "active")
Refused(r) == BotMoves(r, {"joining"}, "failed")
CallEnds(r) == BotMoves(r, {"active", "leaving"}, "ended")

-----------------------------------------------------------------------------
(* Detection and time *)

\* The poller or the scanner inserts the row of a new meeting.
Insert(m) ==
  /\ db[m].status = "UNBORN"
  /\ \A n \in Rows : n < m => db[n].status # "UNBORN"
  /\ IndexAllows(m, "SCHEDULED")
  /\ db' = [db EXCEPT ![m].status = "SCHEDULED"]
  /\ UNCHANGED <<bots, local, finLock, hooks, stopAsked, late, crashes>>

TimePasses(m) ==
  /\ db[m].status # "UNBORN"
  /\ \/ /\ db[m].window \in {"early", "due"}
        /\ db' = [db EXCEPT ![m].window = IF @ = "early" THEN "due" ELSE "missed"]
     \/ /\ db[m].claim = "fresh"
        /\ db[m].status = "JOINING"    \* nobody looks at it otherwise
        /\ db' = [db EXCEPT ![m].claim = "old"]
     \/ /\ db[m].age = "fresh"
        /\ m \in Long
        /\ db[m].window = "missed"    \* three hours are longer than the window
        /\ db' = [db EXCEPT ![m].age = "old"]
     \/ /\ db[m].end = "later"
        /\ db[m].window # "early"     \* a meeting ends after it starts
        /\ db' = [db EXCEPT ![m].end = "past"]
  /\ late' = IF db'[m].claim = "old" THEN late \cup {m} ELSE late
  /\ UNCHANGED <<bots, local, finLock, hooks, stopAsked, crashes>>

-----------------------------------------------------------------------------
(* recover_stale *)

\* variant: a claim looks stuck even if its bot was dispatched
FixAnyClaim(row) ==
  CASE row.status = "JOINING" /\ row.claim = "old" -> "SCHEDULED"
    [] row.status = "SCHEDULED" /\ ~row.bot /\ row.window = "missed" -> "FAILED_JOIN"
    [] OTHER -> "UNBORN"

\* variant: a claim looks stuck before _CLAIM_TIMEOUT
FixTooSoon(row) ==
  CASE row.status = "JOINING" /\ ~row.bot /\ row.claim # "none" -> "SCHEDULED"
    [] row.status \in {"JOINING", "ACTIVE"} /\ row.age = "old" -> "PROCESSING"
    [] row.status = "SCHEDULED" /\ ~row.bot /\ row.window = "missed" -> "FAILED_JOIN"
    [] OTHER -> "UNBORN"

\* variant: missed windows are not retired
FixNoMissed(row) ==
  CASE row.status = "JOINING" /\ ~row.bot /\ row.claim = "old" -> "SCHEDULED"
    [] row.status \in {"JOINING", "ACTIVE"} /\ row.age = "old" -> "PROCESSING"
    [] OTHER -> "UNBORN"

\* variant: the cap of a bot holds whatever became of its row
FixAnyAge(row) ==
  CASE row.status = "JOINING" /\ ~row.bot /\ row.claim = "old" -> "SCHEDULED"
    [] row.age = "old" -> "PROCESSING"
    [] row.status = "SCHEDULED" /\ ~row.bot /\ row.window = "missed" -> "FAILED_JOIN"
    [] OTHER -> "UNBORN"

\* variant: no absolute cap on a bot
FixUncapped(row) ==
  CASE row.status = "JOINING" /\ ~row.bot /\ row.claim = "old" -> "SCHEDULED"
    [] row.status = "SCHEDULED" /\ ~row.bot /\ row.window = "missed" -> "FAILED_JOIN"
    [] OTHER -> "UNBORN"

\* What is wrong with a row, as the three queries see it: a claim that never
\* got its bot, a bot that runs absurdly long, a window that has passed. The
\* last asks for a start_time, so that it overlooks a row without one.
Fix(row) ==
  CASE row.status = "JOINING" /\ ~row.bot /\ row.claim = "old" -> "SCHEDULED"
    [] row.status \in {"JOINING", "ACTIVE"} /\ row.age = "old" -> "PROCESSING"
    [] row.status = "SCHEDULED" /\ ~row.bot /\ row.window = "missed" -> "FAILED_JOIN"
    [] OTHER -> "UNBORN"

RecoverRead(p) ==
  /\ p \in Ticks
  /\ Starts(p)
  /\ fixes' = [fixes EXCEPT ![p] = [m \in Rows |-> Fix(db[m])]]
  /\ at' = [at EXCEPT ![p] = "recovering"]
  /\ UNCHANGED <<db, bots, todo, cur, mem, reply, finLock, hooks, stopAsked, late, crashes>>

Fixed(row, s) ==
  CASE s = "SCHEDULED" -> [row EXCEPT !.status = s, !.claim = "none"]
    [] s = "PROCESSING" -> [Ended(row) EXCEPT !.status = s]
    [] s = "FAILED_JOIN" -> [row EXCEPT !.status = s]
    [] OTHER -> row

\* One commit for all of them; if the index rejects it, the tick is over.
RecoverCommit(p) ==
  /\ at[p] = "recovering"
  /\ IF \A m \in Rows : IndexAllows(m, fixes[p][m])
       THEN /\ db' = [m \in Rows |-> Fixed(db[m], fixes[p][m])]
            /\ at' = [at EXCEPT ![p] = "claim"]
       ELSE UNCHANGED db /\ at' = [at EXCEPT ![p] = Rests(p)]
  /\ fixes' = [fixes EXCEPT ![p] = NoFixes]
  /\ UNCHANGED <<bots, todo, cur, mem, reply, finLock, hooks, stopAsked, late, crashes>>

-----------------------------------------------------------------------------
(* dispatch_due *)

\* _claim_due: the due rows become JOINING under row locks; of two for one room
\* the younger is cancelled. A row without a start_time is never due.
Claim(p) ==
  LET due == {m \in Rows : db[m].status = "SCHEDULED" /\ db[m].window = "due"}
      first(m) == \A n \in due : RoomOf[n] = RoomOf[m] => m <= n
  IN /\ at[p] = "claim"
     /\ db' = [m \in Rows |->
                 IF m \notin due THEN db[m]
                 ELSE IF first(m)
                   THEN [db[m] EXCEPT !.status = "JOINING", !.claim = "fresh"]
                   ELSE [db[m] EXCEPT !.status = "CANCELLED", !.claim = "none"]]
     /\ todo' = [todo EXCEPT ![p] = {m \in due : first(m)}]
     /\ at' = [at EXCEPT ![p] = "dispatch"]
     /\ UNCHANGED <<bots, cur, mem, reply, fixes, finLock, hooks, stopAsked, late, crashes>>

\* dispatch_existing calls provider.join. Vexa has a bot in the room already
\* (409) and it is adopted, or makes one, or makes one and the answer is lost;
\* ERROR: no bot to be found, or no answer.
Join(p) ==
  \E m \in todo[p], r \in Rooms :
    /\ at[p] = "dispatch"
    /\ r = RoomOf[m]
    /\ Load(p, m, "joining")
    /\ IF bots[r] \in LiveBot \cup {"leaving"}
         THEN /\ UNCHANGED <<bots, stopAsked>>
              /\ \E a \in Reports(r) \cup {"ERROR"} : reply' = [reply EXCEPT ![p] = a]
         ELSE \/ /\ bots' = [bots EXCEPT ![r] = "joining"]
                 /\ stopAsked' = stopAsked \ {r}
                 /\ \E a \in {"JOINING", "ERROR"} : reply' = [reply EXCEPT ![p] = a]
              \/ /\ UNCHANGED <<bots, stopAsked>>
                 /\ reply' = [reply EXCEPT ![p] = "ERROR"]
    /\ UNCHANGED <<db, todo, fixes, finLock, hooks, late, crashes>>

\* variant: the failed join is not caught
JoinReturnsUncaught(p) ==
  /\ at[p] = "joining"
  /\ Save(p, [db[cur[p]] EXCEPT !.bot = TRUE, !.age = "fresh"], reply[p])
  /\ Through(p)
  /\ UNCHANGED <<bots, fixes, finLock, hooks, stopAsked, late, crashes>>

\* Whatever became of the row in the meantime, the answer is recorded.
JoinReturns(p) ==
  /\ at[p] = "joining"
  /\ LET row == db[cur[p]]
     IN IF reply[p] = "ERROR"
          THEN Save(p, row, "FAILED_JOIN")
          ELSE Save(p, [row EXCEPT !.bot = TRUE, !.age = "fresh"], reply[p])
  /\ Through(p)
  /\ UNCHANGED <<bots, fixes, finLock, hooks, stopAsked, late, crashes>>

-----------------------------------------------------------------------------
(* advance_active, refresh_status, stop_meeting *)

SelectActive(p) ==
  /\ at[p] = "dispatch"
  /\ todo[p] = {}
  /\ todo' = [todo EXCEPT ![p] =
                {m \in Rows : db[m].status \in {"JOINING", "ACTIVE"} /\ db[m].bot}]
  /\ at' = [at EXCEPT ![p] = "advance"]
  /\ UNCHANGED <<db, bots, cur, mem, reply, fixes, finLock, hooks, stopAsked, late, crashes>>

Ask(p, m) ==
  /\ Load(p, m, "polled")
  /\ \E a \in Reports(RoomOf[m]) \cup {"ERROR"} : reply' = [reply EXCEPT ![p] = a]
  /\ UNCHANGED <<db, bots, todo, fixes, finLock, hooks, stopAsked, late, crashes>>

Poll(p) == at[p] = "advance" /\ \E m \in todo[p] : Ask(p, m)

\* The status refresh_status sets, given what it loaded and what Vexa says.
Reconciled(loaded, a) ==
  IF a # "GONE"
    THEN a
    ELSE IF loaded \in {"JOINING", "ACTIVE"} THEN "PROCESSING" ELSE loaded

\* refresh_status writes and re-reads the row; a tick then asks end_reason
\* whether the bot must go.
Reconcile(p) ==
  /\ at[p] = "polled"
  /\ LET m == cur[p]
         s == Reconciled(mem[p], reply[p])
         row == IF reply[p] = "GONE" /\ s # mem[p] THEN Ended(db[m]) ELSE db[m]
         new == IF reply[p] = "ERROR" THEN db[m] ELSE Saved(p, m, row, s)
         raised == reply[p] = "ERROR"
                   \/ ~IndexAllows(m, IF s = mem[p] THEN db[m].status ELSE s)
     IN /\ db' = [db EXCEPT ![m] = new]
        /\ IF /\ ~raised
              /\ p \in Ticks
              /\ new.status \in {"JOINING", "ACTIVE"}
              /\ new.end = "past" \/ new.age = "old"
             THEN /\ at' = [at EXCEPT ![p] = "stopping"]
                  /\ mem' = [mem EXCEPT ![p] = new.status]
                  /\ reply' = [reply EXCEPT ![p] = "none"]
                  /\ UNCHANGED <<todo, cur>>
             ELSE Through(p)
  /\ UNCHANGED <<bots, fixes, finLock, hooks, stopAsked, late, crashes>>

\* A row loaded in a call is moved to PROCESSING.
EndCall(p) ==
  IF mem[p] \in {"JOINING", "ACTIVE"}
    THEN Save(p, Ended(db[cur[p]]), "PROCESSING")
    ELSE UNCHANGED db

\* stop_meeting of a row with a bot: tell it to leave, as best we can, and end
\* the call without waiting for Vexa.
Stop(p) ==
  /\ at[p] = "stopping"
  /\ LET r == RoomOf[cur[p]]
     IN /\ stopAsked' = stopAsked \cup {r}
        /\ \/ UNCHANGED bots
           \/ /\ bots[r] \in LiveBot
              /\ bots' = [bots EXCEPT ![r] = "leaving"]
  /\ EndCall(p)
  /\ Through(p)
  /\ UNCHANGED <<fixes, finLock, hooks, late, crashes>>

\* stop_meeting of a row without a bot, and _mark_processing, which goes on to
\* spawn the finalize task unless the index rejects its commit.
Mark(p) ==
  /\ at[p] = "mark"
  /\ EndCall(p)
  /\ LET rejected == mem[p] \in {"JOINING", "ACTIVE"} /\ ~IndexAllows(cur[p], "PROCESSING")
     IN at' = [at EXCEPT ![p] = IF todo[p] = {} \/ rejected THEN "done" ELSE "process"]
  /\ cur' = [cur EXCEPT ![p] = None]
  /\ mem' = [mem EXCEPT ![p] = "UNBORN"]
  /\ UNCHANGED <<bots, todo, reply, fixes, finLock, hooks, stopAsked, late, crashes>>

-----------------------------------------------------------------------------
(* process_pending and the webhook's finalize task *)

SelectPending(p) ==
  /\ at[p] = "advance"
  /\ todo[p] = {}
  /\ todo' = [todo EXCEPT ![p] =
                {m \in Rows : \/ db[m].status = "PROCESSING"
                              \/ db[m].status = "EMAIL_FAILED" /\ db[m].tries < MaxTries}]
  /\ at' = [at EXCEPT ![p] = "process"]
  /\ UNCHANGED <<db, bots, cur, mem, reply, fixes, finLock, hooks, stopAsked, late, crashes>>

\* finalize_meeting up to its first await: lock, re-read, COMPLETED is a no-op.
FinalizeBegins(p) ==
  /\ at[p] = "process"
  /\ \E m \in todo[p] \ finLock :
       IF db[m].status = "COMPLETED"
         THEN /\ todo' = [todo EXCEPT ![p] = @ \ {m}]
              /\ at' = [at EXCEPT ![p] = IF p \in Requests THEN "done" ELSE @]
              /\ UNCHANGED <<cur, mem, finLock>>
         ELSE /\ Load(p, m, "finalizing")
              /\ finLock' = finLock \cup {m}
              /\ UNCHANGED todo
  /\ UNCHANGED <<db, bots, reply, fixes, hooks, stopAsked, late, crashes>>

\* How it may end: no transcript (nothing is written), no analysis, e-mailed or
\* found e-mailed, e-mail failed.
FinalizeEnds(p) ==
  /\ at[p] = "finalizing"
  /\ LET row == db[cur[p]]
     IN \/ UNCHANGED db
        \/ Save(p, row, "FAILED_ANALYSIS")
        \/ Save(p, row, "COMPLETED")
        \/ Save(p, [row EXCEPT !.tries = IF @ < MaxTries THEN @ + 1 ELSE @], "EMAIL_FAILED")
  /\ finLock' = finLock \ {cur[p]}
  /\ Through(p)
  /\ UNCHANGED <<bots, fixes, hooks, stopAsked, late, crashes>>

TickEnds(p) ==
  /\ p \in Ticks
  /\ at[p] = "process"
  /\ todo[p] = {}
  /\ at' = [at EXCEPT ![p] = Rests(p)]
  /\ UNCHANGED <<db, bots, todo, cur, mem, reply, fixes, finLock, hooks, stopAsked, late, crashes>>

-----------------------------------------------------------------------------
(* Requests *)

Born == {m \in Rows : db[m].status # "UNBORN"}

RequestRefresh(q) ==
  /\ "refresh" \in Kinds
  /\ Starts(q)
  /\ \E m \in Born : Ask(q, m)

RequestStop(q) ==
  /\ "stop" \in Kinds
  /\ Starts(q)
  /\ \E m \in Born : Load(q, m, IF db[m].bot THEN "stopping" ELSE "mark")
  /\ UNCHANGED <<db, bots, todo, reply, fixes, finLock, hooks, stopAsked, late, crashes>>

\* meeting.completed for a room: the latest row of the room is the one meant.
Webhook(q) ==
  /\ "webhook" \in Kinds
  /\ Starts(q)
  /\ \E m \in Born :
       /\ RoomOf[m] \in hooks
       /\ \A n \in Born : RoomOf[n] = RoomOf[m] => n <= m
       /\ Load(q, m, "mark")
       /\ todo' = [todo EXCEPT ![q] = {m}]
  /\ UNCHANGED <<db, bots, reply, fixes, finLock, hooks, stopAsked, late, crashes>>

-----------------------------------------------------------------------------

Crash ==
  /\ crashes < MaxCrashes
  /\ crashes' = crashes + 1
  /\ at' = [p \in Procs |-> IF at[p] = "idle" THEN "idle" ELSE Rests(p)]
  /\ todo' = [p \in Procs |-> {}]
  /\ cur' = [p \in Procs |-> None]
  /\ mem' = [p \in Procs |-> "UNBORN"]
  /\ reply' = [p \in Procs |-> "none"]
  /\ fixes' = [p \in Procs |-> NoFixes]
  /\ finLock' = {}
  /\ UNCHANGED <<db, bots, hooks, stopAsked, late>>

Step(p) ==
  \/ RecoverRead(p) \/ RecoverCommit(p)
  \/ Claim(p) \/ Join(p) \/ JoinReturns(p)
  \/ SelectActive(p) \/ Poll(p) \/ Reconcile(p) \/ Stop(p) \/ Mark(p)
  \/ SelectPending(p) \/ FinalizeBegins(p) \/ FinalizeEnds(p) \/ TickEnds(p)

Request(q) == RequestRefresh(q) \/ RequestStop(q) \/ Webhook(q)
Vexa(r) == Admitted(r) \/ Refused(r) \/ CallEnds(r)

Next == \/ \E p \in Procs : Step(p)
        \/ \E q \in Requests : Request(q)
        \/ \E r \in Rooms : Vexa(r)
        \/ \E m \in Rows : Insert(m) \/ TimePasses(m)
        \/ Crash

Spec == Init /\ [][Next]_vars

\* The runner calls tick() for ever, awaits end, and time passes. Nobody must
\* call, and no bot must leave by itself.
Fairness == /\ \A p \in Procs : WF_vars(Step(p))
            /\ \A m \in Rows : WF_vars(TimePasses(m))
FairSpec == Spec /\ Fairness

-----------------------------------------------------------------------------
(* Properties *)

TypeOK ==
  /\ db \in [Rows -> Row]
  /\ bots \in [Rooms -> BotStates]
  /\ at \in [Procs -> Places]
  /\ todo \in [Procs -> SUBSET Rows]
  /\ cur \in [Procs -> Rows \cup {None}]
  /\ mem \in [Procs -> Statuses]
  /\ reply \in [Procs -> {"none", "ERROR", "GONE"} \cup Statuses]
  /\ fixes \in [Procs -> [Rows -> Statuses]]
  /\ finLock \subseteq Rows
  /\ hooks \subseteq Rooms
  /\ stopAsked \subseteq Rooms
  /\ late \subseteq Rows
  /\ crashes \in 0 .. MaxCrashes

(* At most one row of a Meet code is in flight.                              *)
OneInFlight ==
  \A m, n \in Rows :
    RoomOf[m] = RoomOf[n] /\ db[m].status \in InFlight /\ db[n].status \in InFlight
    => m = n

\* p awaits Vexa's answer about a bot for row m.
Joins(p, m) == at[p] = "joining" /\ cur[p] = m

\* The join of m is under way only while m has no bot, and by one process.
OneJoin(m) ==
  \A p \in Procs : Joins(p, m) =>
    /\ ~db[m].bot
    /\ \A q \in Procs : Joins(q, m) => p = q

(* No row is dispatched twice ("claim-locking so two workers never           *)
(* double-dispatch", db/models.py). Not true when two run tick(): the loop   *)
(* and /admin/scheduler-tick.                                                *)
DispatchedOnce == \A m \in Rows : OneJoin(m)

(* It is, however many run tick() and whatever stops, refreshes, webhooks    *)
(* and restarts do, of a row whose claims all got their answer within        *)
(* _CLAIM_TIMEOUT: only recover_stale's verdict "stuck" on a claim that is   *)
(* still being worked on lets a second process in.                           *)
DispatchedInTime == \A m \in Rows \ late : OneJoin(m)

\* The bot that row m records is in a call, and nobody told it to leave.
InCall(m) ==
  /\ db[m].bot
  /\ \A n \in Born : RoomOf[n] = RoomOf[m] => n <= m
  /\ bots[RoomOf[m]] \in LiveBot
  /\ RoomOf[m] \notin stopAsked

Followed(m) == db[m].status \in {"JOINING", "ACTIVE"}

(* A bot in a call is followed: its row is JOINING or ACTIVE until the bot   *)
(* was told to leave ("Used to stop a bot that is lingering in a Meet past   *)
(* when the meeting should be over": end_reason, services/scheduler.py). Not *)
(* true of a bot that has been out for _ACTIVE_TIMEOUT: recover_stale moves  *)
(* its row away before advance_active would stop it.                         *)
YoungBotIsFollowed ==
  \A m \in Rows : InCall(m) /\ db[m].age = "fresh" => Followed(m)

(* A meeting is finalized only when it is over ("take an ended meeting       *)
(* through transcript -> insights -> email": finalize_meeting).              *)
FinalizesEnded ==
  \A p \in Procs : at[p] = "finalizing" => mem[p] \notin {"SCHEDULED", "JOINING", "ACTIVE"}

\* Before its insights.
Begun(m) == db[m].status \in {"SCHEDULED", "JOINING", "ACTIVE"}

(* No meeting hangs before its insights ("so they never hang forever":       *)
(* recover_stale). Not true of an event without a start_time, nor beside     *)
(* /refresh.                                                                 *)
NothingHangs == \A m \in Rows : Begun(m) ~> ~Begun(m)

(* Every row with a start_time leaves SCHEDULED, JOINING and ACTIVE, even if *)
(* the process dies between claim and dispatch, the bot never leaves, or the *)
(* meeting is endless.                                                       *)
TimedNeverHangs == \A m \in Rows : Begun(m) /\ db[m].window # "none" ~> ~Begun(m)

(* The same of a row whose bot is out, whatever the requests do.             *)
FollowedUntilTheEnd ==
  \A m \in Rows : Followed(m) /\ db[m].bot ~> ~Followed(m)
-----------------------------------------------------------------------------
(* MeetingLifecycle implements MeetingSlots under this mapping, as long as   *)
(* nobody calls (see MeetingLifecycle_proofs).                               *)

\* What a row makes of its Meet code.
Holding(status) ==
  CASE status = "UNBORN" -> "free"
    [] status \in InFlight -> "held"
    [] status \in Over -> "over"

slot == [m \in Rows |-> Holding(db[m].status)]

Slots == INSTANCE MeetingSlots WITH Meetings <- Rows, SlotOf <- RoomOf

(* What the detectors take for granted of the loop (MeetingEnds in           *)
(* Detection.tla): it keeps one row of a code in flight, and brings a row to *)
(* its end once, whatever it retries, retires or finds undone after a        *)
(* restart.                                                                  *)
ImplementsSlots == Slots!SlotsSpec
=============================================================================
