---------------------------- MODULE MeetingMemory ----------------------------
(***************************************************************************)
(* The rolling memory of one live meeting: live.copilot_memory_tick        *)
(* fetches the transcript, memory.refresh_memory compares its length with  *)
(* the length the meeting_memory row covers, pays for a build when enough  *)
(* was said since, and upserts the row.                                    *)
(*                                                                         *)
(* A transcript is its length: the docstring's "the transcript only grows" *)
(* is taken at its word. A row is the length it was built from, which      *)
(* stands for its contents, too. Between looking at the row and writing it *)
(* lie the seconds of a Gemini call, and the write looks at nothing.       *)
(***************************************************************************)
EXTENDS Naturals

CONSTANTS
  Builders,    (* copilot_memory loops: one in a process, more in a deployment
                  of several or while an old one gives way to a new one       *)
  NoRow,       (* the meeting has no meeting_memory row                       *)
  MIN_CHARS,   (* _MIN_CHARS                                                  *)
  MIN_GROWTH,  (* MIN_GROWTH_CHARS                                            *)
  Utterances,  (* lengths by which the transcript may grow                    *)
  MaxChars,    (* bound: length of the transcript                             *)
  MaxFailures, (* bound: calls of Vexa or Gemini that fail                    *)
  MaxCrashes   (* bound: restarts                                             *)

ASSUME MemoryAssumption ==
  /\ NoRow \notin Nat
  /\ MIN_CHARS \in Nat
  /\ MIN_GROWTH \in Nat \ {0}
  /\ Utterances \subseteq Nat \ {0}
  /\ MaxChars \in Nat
  /\ MaxFailures \in Nat
  /\ MaxCrashes \in Nat

VARIABLES
  live,     (* the meeting is JOINING or ACTIVE with a bot                   *)
  chars,    (* length of the transcript Vexa has                             *)
  covered,  (* transcript_chars of the row, or NoRow                         *)
  at,       (* where each builder is                                         *)
  fetched,  (* length of the transcript it fetched                           *)
  seen,     (* what the row covered when it looked                           *)
  failures,
  crashes

vars == <<live, chars, covered, at, fetched, seen, failures, crashes>>
builder == <<at, fetched, seen>>

Covers == Nat \cup {NoRow}

Init ==
  /\ live = TRUE
  /\ chars = 0
  /\ covered = NoRow
  /\ at = [b \in Builders |-> "idle"]
  /\ fetched = [b \in Builders |-> 0]
  /\ seen = [b \in Builders |-> NoRow]
  /\ failures = 0
  /\ crashes = 0

-----------------------------------------------------------------------------
(* The meeting *)

Speak(n) ==
  /\ live
  /\ chars + n <= MaxChars
  /\ chars' = chars + n
  /\ UNCHANGED <<live, covered, builder, failures, crashes>>

End ==
  /\ live
  /\ live' = FALSE
  /\ UNCHANGED <<chars, covered, builder, failures, crashes>>

-----------------------------------------------------------------------------
(* copilot_memory_tick *)

Rest(b) ==
  /\ at' = [at EXCEPT ![b] = "idle"]
  /\ fetched' = [fetched EXCEPT ![b] = 0]
  /\ seen' = [seen EXCEPT ![b] = NoRow]

\* The meeting is one of _live_meeting_ids.
Select(b) ==
  /\ at[b] = "idle"
  /\ live
  /\ at' = [at EXCEPT ![b] = "fetch"]
  /\ UNCHANGED <<live, chars, covered, fetched, seen, failures, crashes>>

\* get_transcript answers.
Fetch(b) ==
  /\ at[b] = "fetch"
  /\ fetched' = [fetched EXCEPT ![b] = chars]
  /\ at' = [at EXCEPT ![b] = "look"]
  /\ UNCHANGED <<live, chars, covered, seen, failures, crashes>>

\* variant: every pass is forced
Forced(current, old) == TRUE

\* should_rebuild; nobody passes force.
ShouldRebuild(current, old) == old = NoRow \/ current >= old + MIN_GROWTH

\* refresh_memory reads the row and decides; a text that is too short is left
\* alone after the same look.
Look(b) ==
  /\ at[b] = "look"
  /\ IF ShouldRebuild(fetched[b], covered) /\ fetched[b] >= MIN_CHARS
       THEN /\ seen' = [seen EXCEPT ![b] = covered]
            /\ at' = [at EXCEPT ![b] = "build"]
            /\ UNCHANGED fetched
       ELSE Rest(b)
  /\ UNCHANGED <<live, chars, covered, failures, crashes>>

\* variant: ON CONFLICT DO NOTHING
Kept(old, new) == IF old = NoRow THEN new ELSE old

\* variant: the row keeps the growth, not the length
Growth(old, new) == IF old = NoRow THEN new ELSE new - old

\* What the row covers after the upsert: ON CONFLICT DO UPDATE, of whatever
\* the row covers by now.
Upserted(old, new) == new

\* The build is done and stored.
Store(b) ==
  /\ at[b] = "build"
  /\ covered' = Upserted(covered, fetched[b])
  /\ Rest(b)
  /\ UNCHANGED <<live, chars, failures, crashes>>

\* Vexa or Gemini fails: the tick logs it and goes on.
Fails(b) ==
  /\ at[b] \in {"fetch", "build"}
  /\ failures < MaxFailures
  /\ failures' = failures + 1
  /\ Rest(b)
  /\ UNCHANGED <<live, chars, covered, crashes>>

\* The builder's process restarts.
Crash(b) ==
  /\ at[b] # "idle"
  /\ crashes < MaxCrashes
  /\ crashes' = crashes + 1
  /\ Rest(b)
  /\ UNCHANGED <<live, chars, covered, failures>>

Tick(b) == Select(b) \/ Fetch(b) \/ Look(b) \/ Store(b)

Next ==
  \/ \E n \in Utterances : Speak(n)
  \/ End
  \/ \E b \in Builders : Tick(b) \/ Fails(b) \/ Crash(b)

Spec == Init /\ [][Next]_vars

FairSpec == Spec /\ \A b \in Builders : WF_vars(Tick(b))

-----------------------------------------------------------------------------

\* What may be stored where; a builder knows of no text that was not spoken.
TypeOK ==
  /\ live \in BOOLEAN
  /\ chars \in Nat
  /\ covered \in Covers
  /\ at \in [Builders -> {"idle", "fetch", "look", "build"}]
  /\ fetched \in [Builders -> Nat]
  /\ seen \in [Builders -> Covers]
  /\ failures \in 0 .. MaxFailures
  /\ crashes \in 0 .. MaxCrashes

\* The row never claims text that was not said, so a later look cannot take a
\* meeting for covered that is not (the cost guard subtracts from this length).
CoversWhatWasSaid ==
  /\ covered # NoRow => covered \in MIN_CHARS .. chars
  /\ \A b \in Builders : fetched[b] <= chars

\* A build that nobody else's write has overtaken buys MIN_GROWTH new
\* characters, and memory goes back to an earlier transcript only when two
\* builds overlap (the guard and the write are a Gemini call apart).
RebuildBuysGrowth ==
  [][\A b \in Builders :
       /\ at[b] = "build" /\ at'[b] = "idle" /\ covered' # covered
       /\ covered # NoRow
       => seen[b] # covered \/ covered' >= covered + MIN_GROWTH]_vars

UpToDate ==
  IF covered = NoRow THEN chars < MIN_CHARS ELSE chars < covered + MIN_GROWTH

\* "concurrent refresh passes converge": in a meeting that goes on, whatever
\* older build wrote last, memory catches up to within MIN_GROWTH and stays.
Converges == <>[]live => <>[]UpToDate
=============================================================================
