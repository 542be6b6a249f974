--------------------------- MODULE CopilotMentions ---------------------------
(***************************************************************************)
(* The chat of a live meeting: services/copilot/capture.py stores each     *)
(* message once and hands a new @mention to router.handle_mention, which   *)
(* claims it, answers it and sends the answer to the chat.                 *)
(*                                                                         *)
(* A message is known by its place in the chat: what get_chat returns is   *)
(* the messages up to now, in order. Messages with one dedup_key are one   *)
(* message here, as the code cannot tell them apart.                       *)
(***************************************************************************)
EXTENDS Naturals, Sequences

CONSTANTS
  Pollers,     (* copilot chat loops at work on the meeting                  *)
  Kind,        (* of each message: "question", "handle" (a mention with      *)
               (* nothing to ask) or "other" (no mention, or the bot's own)  *)
  Retries,     (* request_with_retries(retries=...)                          *)
  MaxCrashes   (* bound: restarts of the process                             *)

Messages == 1 .. Len(Kind)

ASSUME MentionsAssumption ==
  /\ Kind \in Seq({"question", "handle", "other"})
  /\ Retries \in Nat
  /\ MaxCrashes \in Nat

VARIABLES
  said,      (* the number of messages in the chat                           *)
  live,      (* the meeting is JOINING or ACTIVE with a bot                  *)
  stored,    (* the meeting_chat_messages rows                               *)
  claimed,   (* messages with a copilot_interactions row                     *)
  status,    (* that row's status                                            *)
  at,        (* where each poller is                                         *)
  cur,       (* the message it is working on                                 *)
  last,      (* the last message of those it fetched                         *)
  http,      (* retries its current request to the chat has used up          *)
  generated, (* history: answers the engine gave to each message             *)
  posted,    (* history: copies of an answer the chat has accepted           *)
  raised,    (* history: messages whose answer could not be sent             *)
  cut,       (* history: mentions whose handling a restart ended             *)
  crashes

vars == <<said, live, stored, claimed, status, at, cur, last, http, generated,
          posted, raised, cut, crashes>>
meeting == <<said, live>>
loops == <<at, cur, last, http>>
history == <<generated, posted, raised>>
restarts == <<cut, crashes>>

Resting == {"SKIPPED", "ANSWERED", "FAILED"}

\* Places between claiming a message and recording what became of it.
Handling == {"skip", "ack", "answer", "post", "answered", "failed"}

Init ==
  /\ said = 0
  /\ live = TRUE
  /\ stored = {}
  /\ claimed = {}
  /\ status = [m \in Messages |-> "none"]
  /\ at = [p \in Pollers |-> "idle"]
  /\ cur = [p \in Pollers |-> 0]
  /\ last = [p \in Pollers |-> 0]
  /\ http = [p \in Pollers |-> 0]
  /\ generated = [m \in Messages |-> 0]
  /\ posted = [m \in Messages |-> 0]
  /\ raised = {}
  /\ cut = {}
  /\ crashes = 0

-----------------------------------------------------------------------------
(* The meeting *)

Speak ==
  /\ live
  /\ said + 1 \in Messages
  /\ said' = said + 1
  /\ UNCHANGED <<live, stored, claimed, status, loops, history, restarts>>

End ==
  /\ live
  /\ live' = FALSE
  /\ UNCHANGED <<said, stored, claimed, status, loops, history, restarts>>

-----------------------------------------------------------------------------
(* capture_chat *)

\* INSERT ... ON CONFLICT DO NOTHING RETURNING id has an id.
Inserted(m, table) == m \notin table

Goto(p, place) ==
  /\ at' = [at EXCEPT ![p] = place]
  /\ UNCHANGED <<cur, last>>

\* On to the next message that was fetched, or to the end of the tick.
Advance(p) ==
  /\ IF cur[p] < last[p]
       THEN /\ at' = [at EXCEPT ![p] = "persist"]
            /\ cur' = [cur EXCEPT ![p] = @ + 1]
            /\ UNCHANGED last
       ELSE /\ at' = [at EXCEPT ![p] = "idle"]
            /\ cur' = [cur EXCEPT ![p] = 0]
            /\ last' = [last EXCEPT ![p] = 0]
  /\ http' = [http EXCEPT ![p] = 0]

\* The tick finds the meeting and get_chat answers (an error ends the capture).
\* The chat stands still after the end, so a tick that selected the meeting
\* before may as well fetch before.
Fetch(p) ==
  /\ at[p] = "idle"
  /\ live
  /\ said > 0
  /\ at' = [at EXCEPT ![p] = "persist"]
  /\ cur' = [cur EXCEPT ![p] = 1]
  /\ last' = [last EXCEPT ![p] = said]
  /\ UNCHANGED <<meeting, stored, claimed, status, http, history, restarts>>

\* variant: a known message ends the capture
PersistUpToKnown(p) ==
  /\ at[p] = "persist"
  /\ stored' = stored \cup {cur[p]}
  /\ IF ~Inserted(cur[p], stored)
       THEN /\ at' = [at EXCEPT ![p] = "idle"]
            /\ cur' = [cur EXCEPT ![p] = 0]
            /\ last' = [last EXCEPT ![p] = 0]
            /\ UNCHANGED http
       ELSE IF Kind[cur[p]] # "other"
              THEN Goto(p, "claim") /\ UNCHANGED http
              ELSE Advance(p)
  /\ UNCHANGED <<meeting, claimed, status, history, restarts>>

\* _persist_message; a new mention is handed to handle_mention.
Persist(p) ==
  /\ at[p] = "persist"
  /\ stored' = stored \cup {cur[p]}
  /\ IF Inserted(cur[p], stored) /\ Kind[cur[p]] # "other"
       THEN Goto(p, "claim") /\ UNCHANGED http
       ELSE Advance(p)
  /\ UNCHANGED <<meeting, claimed, status, history, restarts>>

-----------------------------------------------------------------------------
(* handle_mention *)

\* _claim_interaction: the winner goes on.
Claim(p) ==
  /\ at[p] = "claim"
  /\ IF Inserted(cur[p], claimed)
       THEN /\ claimed' = claimed \cup {cur[p]}
            /\ status' = [status EXCEPT ![cur[p]] = "PENDING"]
            /\ Goto(p, IF Kind[cur[p]] = "handle" THEN "skip" ELSE "ack")
            /\ UNCHANGED http
       ELSE Advance(p) /\ UNCHANGED <<claimed, status>>
  /\ UNCHANGED <<meeting, stored, history, restarts>>

Record(p, place, s) ==
  /\ at[p] = place
  /\ status' = [status EXCEPT ![cur[p]] = s]
  /\ Advance(p)
  /\ UNCHANGED <<meeting, stored, claimed, history, restarts>>

\* variant: nothing to answer, nothing to record
SkipUnrecorded(p) ==
  /\ at[p] = "skip"
  /\ Advance(p)
  /\ UNCHANGED <<meeting, stored, claimed, status, history, restarts>>

Skip(p) == Record(p, "skip", "SKIPPED")

\* _send_thinking_ack: whatever becomes of it, the answer is next.
Acknowledge(p) ==
  /\ at[p] = "ack"
  /\ Goto(p, "answer")
  /\ UNCHANGED <<meeting, stored, claimed, status, http, history, restarts>>

Answer(p) ==
  /\ at[p] = "answer"
  /\ generated' = [generated EXCEPT ![cur[p]] = @ + 1]
  /\ Goto(p, "post")
  /\ UNCHANGED <<meeting, stored, claimed, status, http, posted, raised, restarts>>

\* The context cannot be assembled, or the engine raises.
AnswerFails(p) ==
  /\ at[p] = "answer"
  /\ Goto(p, "failed")
  /\ UNCHANGED <<meeting, stored, claimed, status, http, history, restarts>>

-----------------------------------------------------------------------------
(* send_chat of the answer, and _finalize *)

Again(p) ==
  /\ http[p] < Retries
  /\ http' = [http EXCEPT ![p] = @ + 1]
  /\ UNCHANGED <<at, cur, last, raised>>

\* variant: the answer is generated anew
RetryOrRaiseAnew(p) ==
  \/ Again(p)
  \/ http[p] = Retries /\ Goto(p, "answer") /\ UNCHANGED <<http, raised>>

\* After a transport error: request_with_retries tries again, or raises;
\* capture_chat logs the exception and goes on to the next message.
RetryOrRaise(p) ==
  \/ Again(p)
  \/ http[p] = Retries /\ Advance(p) /\ raised' = raised \cup {cur[p]}

\* variant: one try too many
RetryOrRefusedLate(p) ==
  IF http[p] <= Retries
    THEN http' = [http EXCEPT ![p] = @ + 1] /\ UNCHANGED <<at, cur, last, raised>>
    ELSE Goto(p, "failed") /\ UNCHANGED <<http, raised>>

\* variant: any response counts as sent
RetryOrSent(p) ==
  \/ Again(p)
  \/ http[p] = Retries /\ Goto(p, "answered") /\ UNCHANGED <<http, raised>>

\* After a 429 or 5xx: it tries again, or returns the response, and send_chat
\* returns False.
RetryOrRefused(p) ==
  \/ Again(p)
  \/ http[p] = Retries /\ Goto(p, "failed") /\ UNCHANGED <<http, raised>>

\* The chat accepts the message; heard or not.
PostAccepted(p) ==
  /\ at[p] = "post"
  /\ posted' = [posted EXCEPT ![cur[p]] = @ + 1]
  /\ \/ Goto(p, "answered") /\ UNCHANGED <<http, raised>>
     \/ RetryOrRaise(p)
  /\ UNCHANGED <<meeting, stored, claimed, status, generated, restarts>>

\* It does not: no connection, 429 or 5xx, or a status that is not retried.
PostFails(p) ==
  /\ at[p] = "post"
  /\ \/ RetryOrRaise(p)
     \/ RetryOrRefused(p)
     \/ Goto(p, "failed") /\ UNCHANGED <<http, raised>>
  /\ UNCHANGED <<meeting, stored, claimed, status, generated, posted, restarts>>

RecordAnswered(p) == Record(p, "answered", "ANSWERED")
RecordFailed(p) == Record(p, "failed", "FAILED")

-----------------------------------------------------------------------------

Crash ==
  /\ crashes < MaxCrashes
  /\ crashes' = crashes + 1
  /\ cut' = cut \cup {cur[p] : p \in {q \in Pollers : at[q] \in {"claim"} \cup Handling}}
  /\ at' = [p \in Pollers |-> "idle"]
  /\ cur' = [p \in Pollers |-> 0]
  /\ last' = [p \in Pollers |-> 0]
  /\ http' = [p \in Pollers |-> 0]
  /\ UNCHANGED <<meeting, stored, claimed, status, history>>

Capture(p) == Fetch(p) \/ Persist(p)
Handle(p) ==
  \/ Claim(p) \/ Skip(p) \/ Acknowledge(p) \/ Answer(p) \/ AnswerFails(p)
  \/ PostAccepted(p) \/ PostFails(p) \/ RecordAnswered(p) \/ RecordFailed(p)

Next == Speak \/ End \/ Crash \/ \E p \in Pollers : Capture(p) \/ Handle(p)

Spec == Init /\ [][Next]_vars

\* The loop calls the tick for ever, awaits end, and get_chat answers at times.
FairSpec == Spec /\ \A p \in Pollers : WF_vars(Capture(p) \/ Handle(p))

-----------------------------------------------------------------------------
(* Properties *)

TypeOK ==
  /\ said \in Messages \cup {0}
  /\ live \in BOOLEAN
  /\ stored \subseteq Messages
  /\ claimed \subseteq Messages
  /\ status \in [Messages -> {"none", "PENDING"} \cup Resting]
  /\ at \in [Pollers -> {"idle", "persist", "claim"} \cup Handling]
  /\ cur \in [Pollers -> Messages \cup {0}]
  /\ last \in [Pollers -> Messages \cup {0}]
  /\ http \in [Pollers -> 0 .. Retries]
  /\ generated \in [Messages -> Nat]
  /\ posted \in [Messages -> Nat]
  /\ raised \subseteq Messages
  /\ cut \subseteq Messages
  /\ crashes \in 0 .. MaxCrashes

(* A mention is handled by the one poller that claimed it, and its           *)
(* interaction is PENDING as long ("a mention delivered over both the        *)
(* WebSocket and the polling fallback yields one answer": router.py).        *)
OneHandler ==
  \A p \in Pollers : at[p] \in Handling =>
    /\ status[cur[p]] = "PENDING"
    /\ \A q \in Pollers \ {p} : at[q] \in Handling => cur[q] # cur[p]

(* The engine answers a message at most once, whoever fetches it, however    *)
(* sends fail and whenever the process restarts; only questions are          *)
(* answered, and only the answer generated is posted.                        *)
OneAnswer ==
  \A m \in Messages :
    /\ generated[m] <= IF Kind[m] = "question" THEN 1 ELSE 0
    /\ posted[m] > 0 => generated[m] = 1

(* What the interaction records is true: ANSWERED was accepted by the chat,  *)
(* and what has no interaction, or a SKIPPED one, was not answered.          *)
RecordIsTrue ==
  \A m \in Messages :
    /\ status[m] = "ANSWERED" => posted[m] > 0
    /\ status[m] \in {"none", "SKIPPED"} => posted[m] = 0

(* An interaction that has come to rest is final, and nothing is sent for    *)
(* it any more.                                                              *)
RestIsFinal ==
  [][\A m \in Messages : status[m] \in Resting =>
       status'[m] = status[m] /\ posted'[m] = posted[m]]_vars

(* A PENDING interaction has its handler at work, unless a restart cut that  *)
(* short or the answer could not be sent (the send is not in the try block   *)
(* that records failures).                                                   *)
PendingIsHandled ==
  \A m \in Messages : status[m] = "PENDING" =>
    \/ \E p \in Pollers : at[p] \in Handling /\ cur[p] = m
    \/ m \in raised
    \/ m \in cut

(* Every message is stored while the meeting is on, and a mention gets its   *)
(* interaction unless the process dies between the two commits.              *)
MentionsCaptured ==
  \A m \in Messages :
    said >= m ~> \/ ~live
                 \/ m \in stored /\ (Kind[m] # "other" => m \in claimed \/ m \in cut)
-----------------------------------------------------------------------------
(* CopilotMentions implements AnswerDesk under this mapping.                 *)

\* What becomes of a PENDING message: its handler may be gone.
Hand(m) ==
  IF \E p \in Pollers : at[p] \in Handling /\ cur[p] = m THEN "taken" ELSE "lost"

\* What became of a message, for whoever asked.
CaseOf(s, pending) ==
  CASE s = "none" -> "open"
    [] s = "PENDING" -> pending
    [] s = "ANSWERED" -> "answered"
    [] s = "FAILED" -> "failed"
    [] s = "SKIPPED" -> "skipped"

phase == [m \in Messages |-> CaseOf(status[m], Hand(m))]

Desk == INSTANCE AnswerDesk
          WITH Cases <- Messages, MaxCopies <- Retries + 1, copies <- posted

(* For the chat, every mention is a case that one handler takes and closes   *)
(* once, and closes truthfully: answered if the chat has accepted a copy,    *)
(* skipped if not; with request_with_retries' tries as the bound of copies.  *)
(* A case whose handler was lost is not taken up again.                      *)
ImplementsDesk == Desk!DeskSpec
=============================================================================
