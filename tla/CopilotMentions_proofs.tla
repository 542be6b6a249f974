----------------------- MODULE CopilotMentions_proofs -----------------------
(***************************************************************************)
(* Proofs about CopilotMentions for any number of pollers, any chat and    *)
(* any number of retries and restarts.                                     *)
(***************************************************************************)
EXTENDS CopilotMentions, TLAPS

\* A poller at work is at one of the messages it fetched.
InRange == \A p \in Pollers : at[p] # "idle" => cur[p] \in 1 .. last[p]

Typed == TypeOK /\ InRange

LEMMA MessagesAre ==
  /\ Len(Kind) \in Nat
  /\ Retries \in Nat
  /\ MaxCrashes \in Nat
  /\ \A m \in Messages : Kind[m] \in {"question", "handle", "other"}
BY MentionsAssumption DEF MentionsAssumption, Messages

LEMMA TypedInitial == ASSUME Init PROVE Typed
BY MessagesAre DEF Init, Typed, TypeOK, InRange, Messages

(* Going on to the next message, or back to the start of the tick.           *)
LEMMA AdvanceTyped ==
  ASSUME Typed, NEW p \in Pollers, at[p] # "idle", Advance(p)
  PROVE  /\ at' \in [Pollers -> {"idle", "persist", "claim"} \cup Handling]
         /\ cur' \in [Pollers -> Messages \cup {0}]
         /\ last' \in [Pollers -> Messages \cup {0}]
         /\ http' \in [Pollers -> 0 .. Retries]
         /\ InRange'
         /\ at'[p] \in {"idle", "persist"}
         /\ \A q \in Pollers \ {p} : at'[q] = at[q] /\ cur'[q] = cur[q]
<1>1. cur[p] \in 1 .. last[p] /\ last[p] \in Messages \cup {0}
  BY DEF Typed, TypeOK, InRange
<1>2. cur[p] < last[p] => cur[p] + 1 \in 1 .. last[p] /\ cur[p] + 1 \in Messages
  BY <1>1, MessagesAre DEF Messages
<1>3. 0 \in 0 .. Retries
  BY MessagesAre
<1>4. http' \in [Pollers -> 0 .. Retries]
  BY <1>3 DEF Advance, Typed, TypeOK
<1>5. CASE cur[p] < last[p]
  <2>1. /\ at' = [at EXCEPT ![p] = "persist"]
        /\ cur' = [cur EXCEPT ![p] = @ + 1]
        /\ last' = last
    BY <1>5 DEF Advance
  <2>2. at' \in [Pollers -> {"idle", "persist", "claim"} \cup Handling]
    BY <2>1 DEF Typed, TypeOK
  <2>3. cur' \in [Pollers -> Messages \cup {0}] /\ cur'[p] \in 1 .. last[p]
    BY <1>2, <1>5, <2>1 DEF Typed, TypeOK
  <2>4. /\ at'[p] = "persist"
        /\ \A q \in Pollers \ {p} : at'[q] = at[q] /\ cur'[q] = cur[q]
    BY <2>1 DEF Typed, TypeOK
  <2>5. InRange'
    BY <2>1, <2>3, <2>4 DEF Typed, InRange
  <2>6. QED
    BY <1>4, <2>1, <2>2, <2>3, <2>4, <2>5 DEF Typed, TypeOK
<1>6. CASE ~(cur[p] < last[p])
  <2>1. /\ at' = [at EXCEPT ![p] = "idle"]
        /\ cur' = [cur EXCEPT ![p] = 0]
        /\ last' = [last EXCEPT ![p] = 0]
    BY <1>6 DEF Advance
  <2>2. /\ at' \in [Pollers -> {"idle", "persist", "claim"} \cup Handling]
        /\ cur' \in [Pollers -> Messages \cup {0}]
        /\ last' \in [Pollers -> Messages \cup {0}]
    BY <2>1 DEF Typed, TypeOK
  <2>3. /\ at'[p] = "idle"
        /\ \A q \in Pollers \ {p} : at'[q] = at[q] /\ cur'[q] = cur[q] /\ last'[q] = last[q]
    BY <2>1 DEF Typed, TypeOK
  <2>4. InRange'
    BY <2>3 DEF Typed, InRange
  <2>5. QED
    BY <1>4, <2>2, <2>3, <2>4
<1>7. QED
  BY <1>5, <1>6

LEMMA GotoTyped ==
  ASSUME Typed, NEW p \in Pollers, at[p] # "idle",
         NEW place \in {"claim"} \cup Handling, Goto(p, place)
  PROVE  /\ at' \in [Pollers -> {"idle", "persist", "claim"} \cup Handling]
         /\ cur' \in [Pollers -> Messages \cup {0}]
         /\ last' \in [Pollers -> Messages \cup {0}]
         /\ InRange'
         /\ at'[p] = place
         /\ \A q \in Pollers \ {p} : at'[q] = at[q]
<1>1. /\ at'[p] = place
      /\ \A q \in Pollers \ {p} : at'[q] = at[q]
      /\ cur' = cur /\ last' = last
  BY DEF Goto, Typed, TypeOK
<1>2. at' \in [Pollers -> {"idle", "persist", "claim"} \cup Handling]
  BY DEF Goto, Typed, TypeOK
<1>3. InRange'
  BY <1>1 DEF Typed, InRange
<1>4. QED
  BY <1>1, <1>2, <1>3 DEF Typed, TypeOK

LEMMA AgainTyped ==
  ASSUME Typed, NEW p \in Pollers, Again(p)
  PROVE  http' \in [Pollers -> 0 .. Retries]
<1>1. http[p] + 1 \in 0 .. Retries
  BY MessagesAre DEF Again, Typed, TypeOK
<1>2. QED
  BY <1>1 DEF Again, Typed, TypeOK

\* What a step of a poller may do to its place, whatever else it does.
Moved(p, places) ==
  \/ Advance(p)
  \/ \E place \in places : Goto(p, place) /\ UNCHANGED http
  \/ Again(p) /\ UNCHANGED <<at, cur, last>>

LEMMA MovedTyped ==
  ASSUME Typed, NEW p \in Pollers, at[p] # "idle",
         Moved(p, {"claim"} \cup Handling)
  PROVE  /\ at' \in [Pollers -> {"idle", "persist", "claim"} \cup Handling]
         /\ cur' \in [Pollers -> Messages \cup {0}]
         /\ last' \in [Pollers -> Messages \cup {0}]
         /\ http' \in [Pollers -> 0 .. Retries]
         /\ InRange'
<1>1. CASE Advance(p)
  BY <1>1, AdvanceTyped
<1>2. ASSUME NEW place \in {"claim"} \cup Handling, Goto(p, place), UNCHANGED http
      PROVE  /\ at' \in [Pollers -> {"idle", "persist", "claim"} \cup Handling]
             /\ cur' \in [Pollers -> Messages \cup {0}]
             /\ last' \in [Pollers -> Messages \cup {0}]
             /\ http' \in [Pollers -> 0 .. Retries]
             /\ InRange'
  BY <1>2, GotoTyped DEF Typed, TypeOK
<1>3. CASE Again(p) /\ UNCHANGED <<at, cur, last>>
  BY <1>3, AgainTyped DEF Typed, TypeOK, InRange
<1>4. QED
  BY <1>1, <1>2, <1>3 DEF Moved

LEMMA HandlesMove ==
  ASSUME NEW p \in Pollers, Persist(p) \/ Handle(p)
  PROVE  at[p] # "idle" /\ Moved(p, {"claim"} \cup Handling)
<1>1. CASE Persist(p) \/ Claim(p)
  BY <1>1 DEF Persist, Claim, Moved, Handling
<1>2. CASE Skip(p) \/ RecordAnswered(p) \/ RecordFailed(p)
  BY <1>2 DEF Skip, RecordAnswered, RecordFailed, Record, Moved
<1>3. CASE Acknowledge(p) \/ Answer(p) \/ AnswerFails(p)
  BY <1>3 DEF Acknowledge, Answer, AnswerFails, Moved, Handling
<1>4. CASE PostAccepted(p) \/ PostFails(p)
  <2>1. RetryOrRaise(p) => Moved(p, {"claim"} \cup Handling)
    BY DEF RetryOrRaise, Moved, Again
  <2>2. RetryOrRefused(p) => Moved(p, {"claim"} \cup Handling)
    BY DEF RetryOrRefused, Moved, Again, Handling
  <2>3. (Goto(p, "answered") \/ Goto(p, "failed")) /\ UNCHANGED <<http, raised>>
          => Moved(p, {"claim"} \cup Handling)
    BY DEF Moved, Handling
  <2>4. at[p] # "idle"
    BY <1>4 DEF PostAccepted, PostFails
  <2>5. QED
    BY <1>4, <2>1, <2>2, <2>3, <2>4 DEF PostAccepted, PostFails
<1>5. QED
  BY <1>1, <1>2, <1>3, <1>4 DEF Handle

LEMMA AtMessage ==
  ASSUME Typed, NEW p \in Pollers, at[p] # "idle"
  PROVE  cur[p] \in Messages
BY MessagesAre DEF Typed, TypeOK, InRange, Messages

(* What a step of a poller does to the tables and the history.               *)
LEMMA TablesTyped ==
  ASSUME Typed, NEW p \in Pollers, Persist(p) \/ Handle(p)
  PROVE  /\ stored' \subseteq Messages
         /\ claimed' \subseteq Messages
         /\ status' \in [Messages -> {"none", "PENDING"} \cup Resting]
         /\ generated' \in [Messages -> Nat]
         /\ posted' \in [Messages -> Nat]
         /\ raised' \subseteq Messages
         /\ UNCHANGED <<said, live, cut, crashes>>
<1>1. cur[p] \in Messages
  BY HandlesMove, AtMessage
<1>2. CASE Persist(p)
  BY <1>1, <1>2 DEF Persist, Typed, TypeOK, meeting, history, restarts
<1>3. CASE Claim(p)
  BY <1>1, <1>3 DEF Claim, Typed, TypeOK, meeting, history, restarts
<1>4. CASE Skip(p) \/ RecordAnswered(p) \/ RecordFailed(p)
  BY <1>1, <1>4
     DEF Skip, RecordAnswered, RecordFailed, Record, Resting, Typed, TypeOK, meeting, history, restarts
<1>5. CASE Acknowledge(p) \/ AnswerFails(p)
  BY <1>5 DEF Acknowledge, AnswerFails, Typed, TypeOK, meeting, history, restarts
<1>6. CASE Answer(p)
  BY <1>1, <1>6 DEF Answer, Typed, TypeOK, meeting, restarts
<1>7. CASE PostAccepted(p)
  <2>1. raised' \subseteq Messages
    BY <1>1, <1>7 DEF PostAccepted, RetryOrRaise, Again, Typed, TypeOK
  <2>2. QED
    BY <1>1, <1>7, <2>1 DEF PostAccepted, Typed, TypeOK, meeting, restarts
<1>8. CASE PostFails(p)
  <2>1. raised' \subseteq Messages
    BY <1>1, <1>8 DEF PostFails, RetryOrRaise, RetryOrRefused, Again, Typed, TypeOK
  <2>2. QED
    BY <1>8, <2>1 DEF PostFails, Typed, TypeOK, meeting, restarts
<1>9. QED
  BY <1>2, <1>3, <1>4, <1>5, <1>6, <1>7, <1>8 DEF Handle

LEMMA TypedInductive ==
  ASSUME Typed, [Next]_vars
  PROVE  Typed'
<1>1. CASE UNCHANGED vars
  BY <1>1 DEF vars, Typed, TypeOK, InRange
<1>2. CASE Speak \/ End
  BY <1>2 DEF Speak, End, Typed, TypeOK, InRange, loops, history, restarts
<1>3. CASE Crash
  <2>1. cut' \subseteq Messages
    BY <1>3, AtMessage DEF Crash, Typed, TypeOK, Handling
  <2>2. QED
    BY <1>3, <2>1, MessagesAre DEF Crash, Typed, TypeOK, InRange, meeting, history
<1>4. ASSUME NEW p \in Pollers, Fetch(p)
      PROVE  Typed'
  <2>1. said \in Messages /\ 1 \in 1 .. said /\ 1 \in Messages
    BY <1>4, MessagesAre DEF Fetch, Typed, TypeOK, Messages
  <2>2. /\ at' \in [Pollers -> {"idle", "persist", "claim"} \cup Handling]
        /\ cur' \in [Pollers -> Messages \cup {0}]
        /\ last' \in [Pollers -> Messages \cup {0}]
        /\ cur'[p] = 1 /\ last'[p] = said
        /\ \A q \in Pollers \ {p} : at'[q] = at[q] /\ cur'[q] = cur[q] /\ last'[q] = last[q]
    BY <1>4, <2>1 DEF Fetch, Typed, TypeOK
  <2>3. InRange'
    BY <2>1, <2>2 DEF Typed, InRange
  <2>4. QED
    BY <1>4, <2>2, <2>3 DEF Fetch, Typed, TypeOK, meeting, history, restarts
<1>5. ASSUME NEW p \in Pollers, Persist(p) \/ Handle(p)
      PROVE  Typed'
  <2>1. /\ at' \in [Pollers -> {"idle", "persist", "claim"} \cup Handling]
        /\ cur' \in [Pollers -> Messages \cup {0}]
        /\ last' \in [Pollers -> Messages \cup {0}]
        /\ http' \in [Pollers -> 0 .. Retries]
        /\ InRange'
    BY <1>5, HandlesMove, MovedTyped
  <2>2. QED
    BY <1>5, <2>1, TablesTyped DEF Typed, TypeOK
<1>6. QED
  BY <1>1, <1>2, <1>3, <1>4, <1>5 DEF Next, Capture

LEMMA TypedAlways == Spec => []Typed
BY TypedInitial, TypedInductive, PTL DEF Spec

(* Pollers, tables and the history keep their types.                         *)
THEOREM TypeCorrect == Spec => []TypeOK
<1>1. Typed => TypeOK
  BY DEF Typed
<1>2. QED
  BY <1>1, TypedAlways, PTL

-----------------------------------------------------------------------------
(* One handler, one answer, true records *)

\* The claim: who handles a message claimed it, and alone.
Claims ==
  /\ \A m \in Messages : (status[m] = "none") = (m \notin claimed)
  /\ \A p \in Pollers : at[p] \in Handling => status[cur[p]] = "PENDING"
  /\ \A p, q \in Pollers :
       at[p] \in Handling /\ at[q] \in Handling /\ cur[p] = cur[q] => p = q

\* What a handler at a place has done to its message so far.
Progress ==
  \A p \in Pollers :
    LET m == cur[p]
    IN /\ at[p] = "claim" => Kind[m] # "other"
       /\ at[p] = "skip" => generated[m] = 0 /\ posted[m] = 0
       /\ at[p] \in {"ack", "answer"} =>
            Kind[m] = "question" /\ generated[m] = 0 /\ posted[m] = 0
       /\ at[p] \in {"post", "answered"} => Kind[m] = "question" /\ generated[m] = 1
       /\ at[p] = "answered" => posted[m] > 0

Records ==
  \A m \in Messages :
    /\ status[m] \in {"none", "SKIPPED"} => generated[m] = 0 /\ posted[m] = 0
    /\ status[m] = "ANSWERED" => posted[m] > 0

IInv == Claims /\ Progress /\ OneAnswer /\ Records

(* Steps that leave the claims and the history alone and take no poller into *)
(* a handler's place keep the invariant.                                     *)
LEMMA Undisturbed ==
  ASSUME Typed, IInv, UNCHANGED <<claimed, status, generated, posted>>,
         \A p \in Pollers :
           \/ at'[p] = at[p] /\ cur'[p] = cur[p]
           \/ at'[p] \in {"idle", "persist"}
           \/ at'[p] = "claim" /\ Kind[cur'[p]] # "other"
  PROVE  IInv'
<1>1. \A p \in Pollers : at'[p] \in Handling => at[p] = at'[p] /\ cur'[p] = cur[p]
  BY DEF Handling
<1>2. Claims'
  BY <1>1 DEF IInv, Claims
<1>3. Progress'
  BY DEF IInv, Progress
<1>4. OneAnswer' /\ Records'
  BY DEF IInv, OneAnswer, Records
<1>5. QED
  BY <1>2, <1>3, <1>4 DEF IInv

(* A handler that leaves its message in some state.                          *)
LEMMA Leaves ==
  ASSUME Typed, IInv, NEW p \in Pollers, at[p] \in Handling, Advance(p),
         UNCHANGED <<claimed, generated>>,
         posted' \in [Messages -> Nat],
         \A m \in Messages : posted'[m] >= posted[m]
                             /\ (posted'[m] # posted[m] => generated[m] = 1 /\ m = cur[p]),
         NEW s \in {"PENDING"} \cup Resting,
         status' = [status EXCEPT ![cur[p]] = s],
         s = "ANSWERED" => posted'[cur[p]] > 0,
         s = "SKIPPED" => generated[cur[p]] = 0 /\ posted'[cur[p]] = 0
  PROVE  IInv'
<1>1. cur[p] \in Messages
  BY AtMessage DEF Handling
<1>2. /\ at'[p] \in {"idle", "persist"}
      /\ \A q \in Pollers \ {p} : at'[q] = at[q] /\ cur'[q] = cur[q]
  BY AdvanceTyped DEF Handling
<1>3. \A q \in Pollers \ {p} :
        at[q] # "idle" => cur[q] \in Messages /\ (at[q] \in Handling => cur[q] # cur[p])
  BY AtMessage DEF IInv, Claims, Handling
<1>4. \A m \in Messages : status'[m] = IF m = cur[p] THEN s ELSE status[m]
  BY <1>1 DEF Typed, TypeOK
<1>5. status[cur[p]] = "PENDING" /\ s # "none"
  BY DEF IInv, Claims, Resting
<1>6. Claims'
  BY <1>2, <1>3, <1>4, <1>5 DEF IInv, Claims, Handling
<1>7. Progress'
  BY <1>2, <1>3 DEF IInv, Progress, Handling
<1>8. OneAnswer'
  BY DEF IInv, OneAnswer, Typed, TypeOK
<1>9. Records'
  BY <1>4, <1>5 DEF IInv, Records, Typed, TypeOK
<1>10. QED
  BY <1>6, <1>7, <1>8, <1>9 DEF IInv

(* A handler that goes on with its message.                                  *)
LEMMA GoesOn ==
  ASSUME Typed, IInv, NEW p \in Pollers, at[p] \in Handling,
         NEW place \in Handling, at' = [at EXCEPT ![p] = place],
         UNCHANGED <<cur, claimed, status>>,
         generated' \in [Messages -> Nat], posted' \in [Messages -> Nat],
         \A m \in Messages \ {cur[p]} : generated'[m] = generated[m] /\ posted'[m] = posted[m],
         OneAnswer', Progress'
  PROVE  IInv'
<1>1. at'[p] = place /\ \A q \in Pollers \ {p} : at'[q] = at[q]
  BY DEF Typed, TypeOK
<1>2. Claims'
  BY <1>1 DEF IInv, Claims
<1>3. Records'
  BY DEF IInv, Claims, Records
<1>4. QED
  BY <1>2, <1>3 DEF IInv

LEMMA IInvInitial == ASSUME Init PROVE IInv
BY DEF Init, IInv, Claims, Progress, OneAnswer, Records, Handling

LEMMA ClaimKeeps ==
  ASSUME Typed, IInv, NEW p \in Pollers, Claim(p)
  PROVE  IInv'
<1>1. cur[p] \in Messages
  BY AtMessage DEF Claim
<1>2. CASE ~Inserted(cur[p], claimed)
  <2>1. Advance(p) /\ UNCHANGED <<claimed, status, generated, posted>>
    BY <1>2 DEF Claim, history
  <2>2. \A q \in Pollers : \/ at'[q] = at[q] /\ cur'[q] = cur[q]
                           \/ at'[q] \in {"idle", "persist"}
    BY <2>1, AdvanceTyped DEF Claim
  <2>3. QED
    BY <2>1, <2>2, Undisturbed
<1>3. CASE Inserted(cur[p], claimed)
  <2> DEFINE place == IF Kind[cur[p]] = "handle" THEN "skip" ELSE "ack"
  <2>1. /\ claimed' = claimed \cup {cur[p]}
        /\ status' = [status EXCEPT ![cur[p]] = "PENDING"]
        /\ at' = [at EXCEPT ![p] = place]
        /\ UNCHANGED <<cur, generated, posted>>
        /\ cur[p] \notin claimed
    BY <1>3 DEF Claim, Goto, Inserted, history
  <2>2. /\ at'[p] = place
        /\ \A q \in Pollers \ {p} : at'[q] = at[q]
        /\ \A m \in Messages : status'[m] = IF m = cur[p] THEN "PENDING" ELSE status[m]
    BY <1>1, <2>1 DEF Typed, TypeOK
  <2>3. status[cur[p]] = "none"
    BY <1>1, <2>1 DEF IInv, Claims
  <2>4. \A q \in Pollers \ {p} : at[q] \in Handling => cur[q] # cur[p] /\ cur[q] \in Messages
    BY <2>3, AtMessage DEF IInv, Claims, Handling
  <2>5. Claims'
    BY <1>1, <2>1, <2>2, <2>4 DEF IInv, Claims
  <2>6. generated[cur[p]] = 0 /\ posted[cur[p]] = 0
    BY <1>1, <2>3 DEF IInv, Records
  <2>7. Kind[cur[p]] = "handle" \/ Kind[cur[p]] = "question"
    BY <1>1, MessagesAre DEF Claim, IInv, Progress
  <2>8. Progress'
    BY <2>1, <2>2, <2>6, <2>7 DEF IInv, Progress
  <2>9. OneAnswer' /\ Records'
    BY <2>1, <2>2 DEF IInv, OneAnswer, Records
  <2>10. QED
    BY <2>5, <2>8, <2>9 DEF IInv
<1>4. QED
  BY <1>2, <1>3

LEMMA PersistKeeps ==
  ASSUME Typed, IInv, NEW p \in Pollers, Persist(p)
  PROVE  IInv'
<1>1. UNCHANGED <<claimed, status, generated, posted>>
  BY DEF Persist, history
<1>2. CASE Advance(p)
  <2>1. \A q \in Pollers : \/ at'[q] = at[q] /\ cur'[q] = cur[q]
                           \/ at'[q] \in {"idle", "persist"}
    BY <1>2, AdvanceTyped DEF Persist
  <2>2. QED
    BY <1>1, <2>1, Undisturbed
<1>3. CASE Goto(p, "claim") /\ Kind[cur[p]] # "other"
  <2>1. \A q \in Pollers : \/ at'[q] = at[q] /\ cur'[q] = cur[q]
                           \/ at'[q] = "claim" /\ Kind[cur'[q]] # "other"
    BY <1>3 DEF Goto, Typed, TypeOK
  <2>2. QED
    BY <1>1, <2>1, Undisturbed
<1>4. QED
  BY <1>2, <1>3 DEF Persist

LEMMA RecordKeeps ==
  ASSUME Typed, IInv, NEW p \in Pollers, Skip(p) \/ RecordAnswered(p) \/ RecordFailed(p)
  PROVE  IInv'
<1>1. /\ at[p] \in Handling
      /\ Advance(p)
      /\ UNCHANGED <<claimed, generated, posted>>
  BY DEF Skip, RecordAnswered, RecordFailed, Record, Handling, history
<1>2. /\ posted' \in [Messages -> Nat]
      /\ \A m \in Messages : posted'[m] >= posted[m] /\ posted'[m] = posted[m]
  BY <1>1 DEF Typed, TypeOK
<1>3. CASE Skip(p)
  <2>1. status' = [status EXCEPT ![cur[p]] = "SKIPPED"]
        /\ generated[cur[p]] = 0 /\ posted'[cur[p]] = 0
    BY <1>1, <1>3 DEF Skip, Record, IInv, Progress
  <2>2. QED
    BY <1>1, <1>2, <2>1, Leaves DEF Resting
<1>4. CASE RecordAnswered(p)
  <2>1. status' = [status EXCEPT ![cur[p]] = "ANSWERED"] /\ posted'[cur[p]] > 0
    BY <1>1, <1>4 DEF RecordAnswered, Record, IInv, Progress
  <2>2. QED
    BY <1>1, <1>2, <2>1, Leaves DEF Resting
<1>5. CASE RecordFailed(p)
  <2>1. status' = [status EXCEPT ![cur[p]] = "FAILED"]
    BY <1>5 DEF RecordFailed, Record
  <2>2. QED
    BY <1>1, <1>2, <2>1, Leaves DEF Resting
<1>6. QED
  BY <1>3, <1>4, <1>5

LEMMA AnswerKeeps ==
  ASSUME Typed, IInv, NEW p \in Pollers, Acknowledge(p) \/ Answer(p) \/ AnswerFails(p)
  PROVE  IInv'
<1>1. at[p] \in {"ack", "answer"} /\ cur[p] \in Messages
  BY AtMessage DEF Acknowledge, Answer, AnswerFails
<1>2. Kind[cur[p]] = "question" /\ generated[cur[p]] = 0 /\ posted[cur[p]] = 0
  BY <1>1 DEF IInv, Progress
<1>3. \A q \in Pollers \ {p} : at[q] \in Handling => cur[q] # cur[p]
  BY <1>1 DEF IInv, Claims, Handling
<1>4. CASE Acknowledge(p) \/ AnswerFails(p)
  <2>1. PICK place \in {"answer", "failed"} :
          at' = [at EXCEPT ![p] = place] /\ UNCHANGED <<cur, claimed, status, generated, posted>>
    BY <1>4 DEF Acknowledge, AnswerFails, Goto, history
  <2>2. at'[p] = place /\ \A q \in Pollers \ {p} : at'[q] = at[q]
    BY <2>1 DEF Typed, TypeOK
  <2>3. Progress'
    BY <1>2, <2>1, <2>2 DEF IInv, Progress
  <2>4. OneAnswer'
    BY <2>1 DEF IInv, OneAnswer
  <2>5. QED
    BY <1>1, <2>1, <2>3, <2>4, GoesOn DEF Handling, Typed, TypeOK
<1>5. CASE Answer(p)
  <2>1. /\ at' = [at EXCEPT ![p] = "post"]
        /\ generated' = [generated EXCEPT ![cur[p]] = @ + 1]
        /\ UNCHANGED <<cur, claimed, status, posted>>
    BY <1>5 DEF Answer, Goto
  <2>2. /\ at'[p] = "post"
        /\ \A q \in Pollers \ {p} : at'[q] = at[q]
        /\ generated'[cur[p]] = 1
        /\ \A m \in Messages \ {cur[p]} : generated'[m] = generated[m]
        /\ generated' \in [Messages -> Nat]
    BY <1>1, <1>2, <2>1 DEF Typed, TypeOK
  <2>3. \A q \in Pollers \ {p} : at[q] \in Handling => cur[q] \in Messages \ {cur[p]}
    BY <1>3, AtMessage DEF Handling
  <2>4. Progress'
    BY <1>2, <2>1, <2>2, <2>3 DEF IInv, Progress, Handling
  <2>5. OneAnswer'
    BY <1>2, <2>1, <2>2 DEF IInv, OneAnswer
  <2>6. QED
    BY <1>1, <2>1, <2>2, <2>4, <2>5, GoesOn DEF Handling, Typed, TypeOK
<1>6. QED
  BY <1>4, <1>5

\* The outcomes of one try to send the answer.
Tried(p) ==
  \/ Advance(p)
  \/ at' = at /\ cur' = cur
  \/ at' = [at EXCEPT ![p] = "failed"] /\ cur' = cur
  \/ at' = [at EXCEPT ![p] = "answered"] /\ cur' = cur /\ posted'[cur[p]] > 0

LEMMA PostKeeps ==
  ASSUME Typed, IInv, NEW p \in Pollers, PostAccepted(p) \/ PostFails(p)
  PROVE  IInv'
<1>1. at[p] = "post" /\ cur[p] \in Messages
  BY AtMessage DEF PostAccepted, PostFails
<1>2. Kind[cur[p]] = "question" /\ generated[cur[p]] = 1
  BY <1>1 DEF IInv, Progress
<1>3. /\ UNCHANGED <<claimed, status, generated>>
      /\ posted' \in [Messages -> Nat]
      /\ \A m \in Messages : posted'[m] >= posted[m]
      /\ \A m \in Messages \ {cur[p]} : posted'[m] = posted[m]
      /\ PostAccepted(p) => posted'[cur[p]] > 0
  BY <1>1 DEF PostAccepted, PostFails, Typed, TypeOK
<1>4. Tried(p)
  BY <1>1, <1>3 DEF PostAccepted, PostFails, RetryOrRaise, RetryOrRefused, Again, Goto, Tried
<1>5. \A q \in Pollers \ {p} : at[q] \in Handling => cur[q] \in Messages \ {cur[p]}
  BY <1>1, AtMessage DEF IInv, Claims, Handling
<1>6. CASE Advance(p)
  <2>1. status[cur[p]] = "PENDING" /\ status' = [status EXCEPT ![cur[p]] = "PENDING"]
    BY <1>1, <1>3 DEF IInv, Claims, Handling, Typed, TypeOK
  <2>2. QED
    BY <1>1, <1>2, <1>3, <1>6, <2>1, Leaves DEF Handling
<1>7. ASSUME NEW place \in {"post", "failed", "answered"},
             at' = [at EXCEPT ![p] = place], cur' = cur,
             place = "answered" => posted'[cur[p]] > 0
      PROVE  IInv'
  <2>1. at'[p] = place /\ \A q \in Pollers \ {p} : at'[q] = at[q]
    BY <1>7 DEF Typed, TypeOK
  <2>2. Progress'
    BY <1>2, <1>3, <1>5, <1>7, <2>1 DEF IInv, Progress, Handling
  <2>3. OneAnswer'
    BY <1>2, <1>3 DEF IInv, OneAnswer
  <2>4. generated' \in [Messages -> Nat]
    BY <1>3 DEF Typed, TypeOK
  <2>5. QED
    BY <1>1, <1>3, <1>7, <2>2, <2>3, <2>4, GoesOn DEF Handling
<1>8. at' = at => at' = [at EXCEPT ![p] = "post"]
  BY <1>1 DEF Typed, TypeOK
<1>9. QED
  BY <1>4, <1>6, <1>7, <1>8 DEF Tried

LEMMA IInvInductive ==
  ASSUME Typed, IInv, [Next]_vars
  PROVE  IInv'
<1>1. CASE UNCHANGED vars \/ Speak \/ End
  <2>1. UNCHANGED <<claimed, status, generated, posted, at, cur>>
    BY <1>1 DEF vars, Speak, End, loops, history, restarts
  <2>2. QED
    BY <2>1, Undisturbed
<1>2. CASE Crash
  <2>1. \A p \in Pollers : at'[p] = "idle"
    BY <1>2 DEF Crash
  <2>2. UNCHANGED <<claimed, status, generated, posted>>
    BY <1>2 DEF Crash, history
  <2>3. QED
    BY <2>1, <2>2, Undisturbed
<1>3. ASSUME NEW p \in Pollers, Fetch(p)
      PROVE  IInv'
  <2>1. UNCHANGED <<claimed, status, generated, posted>>
    BY <1>3 DEF Fetch, history
  <2>2. \A q \in Pollers : (at'[q] = at[q] /\ cur'[q] = cur[q]) \/ at'[q] = "persist"
    BY <1>3 DEF Fetch, Typed, TypeOK
  <2>3. QED
    BY <2>1, <2>2, Undisturbed
<1>4. QED
  BY <1>1, <1>2, <1>3, PersistKeeps, ClaimKeeps, RecordKeeps, AnswerKeeps, PostKeeps
     DEF Next, Capture, Handle

LEMMA InvAlways == Spec => [](Typed /\ IInv)
<1>1. Init => Typed /\ IInv
  BY TypedInitial, IInvInitial
<1>2. Typed /\ IInv /\ [Next]_vars => Typed' /\ IInv'
  BY TypedInductive, IInvInductive
<1>3. QED
  BY <1>1, <1>2, PTL DEF Spec

(* A mention is handled by the one poller that claimed it, for any number of *)
(* pollers, deliveries and restarts.                                         *)
THEOREM OneHandlerEach == Spec => []OneHandler
<1>1. IInv => OneHandler
  BY DEF IInv, Claims, OneHandler
<1>2. QED
  BY <1>1, InvAlways, PTL

(* The engine answers a message at most once, and what is sent is that one   *)
(* answer.                                                                   *)
THEOREM OneAnswerEach == Spec => []OneAnswer
<1>1. IInv => OneAnswer
  BY DEF IInv
<1>2. QED
  BY <1>1, InvAlways, PTL

(* ANSWERED interactions were accepted by the chat; SKIPPED and missing ones *)
(* never were.                                                               *)
THEOREM RecordsAreTrue == Spec => []RecordIsTrue
<1>1. IInv => RecordIsTrue
  BY DEF IInv, Records, RecordIsTrue
<1>2. QED
  BY <1>1, InvAlways, PTL

-----------------------------------------------------------------------------
(* Rest is final, PENDING is at work *)

(* What a step of a poller can do to a message's interaction and answer.     *)
LEMMA TouchesOwn ==
  ASSUME Typed, IInv, NEW p \in Pollers, Persist(p) \/ Handle(p), NEW m \in Messages,
         status[m] \in Resting
  PROVE  status'[m] = status[m] /\ posted'[m] = posted[m]
<1>1. cur[p] \in Messages
  BY HandlesMove, AtMessage
<1>2. CASE Persist(p) \/ Acknowledge(p) \/ Answer(p) \/ AnswerFails(p)
  BY <1>2 DEF Persist, Acknowledge, Answer, AnswerFails, history
<1>3. CASE Claim(p)
  <2>1. cur[p] \notin claimed => status[cur[p]] = "none"
    BY <1>1 DEF IInv, Claims
  <2>2. QED
    BY <1>1, <1>3, <2>1 DEF Claim, Inserted, Resting, history, Typed, TypeOK
<1>4. CASE Skip(p) \/ RecordAnswered(p) \/ RecordFailed(p) \/ PostAccepted(p) \/ PostFails(p)
  <2>1. at[p] \in Handling
    BY <1>4 DEF Skip, RecordAnswered, RecordFailed, Record, PostAccepted, PostFails, Handling
  <2>2. status[cur[p]] = "PENDING"
    BY <2>1 DEF IInv, Claims
  <2>3. cur[p] # m
    BY <2>2 DEF Resting
  <2>4. QED
    BY <1>1, <1>4, <2>3
       DEF Skip, RecordAnswered, RecordFailed, Record, PostAccepted, PostFails, history,
           Typed, TypeOK
<1>5. QED
  BY <1>2, <1>3, <1>4 DEF Handle

(* An interaction that was skipped, answered or failed stays so, and nothing *)
(* is sent for it any more, whatever other pollers do.                       *)
THEOREM RestStays == Spec => RestIsFinal
<1> DEFINE Stays == \A m \in Messages : status[m] \in Resting =>
                      status'[m] = status[m] /\ posted'[m] = posted[m]
<1>1. ASSUME Typed, IInv, [Next]_vars
      PROVE  Stays
  <2>1. CASE UNCHANGED vars \/ Speak \/ End \/ Crash \/ \E p \in Pollers : Fetch(p)
    BY <1>1, <2>1 DEF vars, Speak, End, Crash, Fetch, history
  <2>2. CASE \E p \in Pollers : Persist(p) \/ Handle(p)
    BY <1>1, <2>2, TouchesOwn
  <2>3. QED
    BY <1>1, <2>1, <2>2 DEF Next, Capture
<1>2. Typed /\ IInv /\ [Next]_vars => [Stays]_vars
  BY <1>1
<1>3. QED
  BY <1>2, InvAlways, PTL DEF Spec, RestIsFinal

\* Who may have a PENDING message.
Excused(m) ==
  \/ \E p \in Pollers : at[p] \in Handling /\ cur[p] = m
  \/ m \in raised
  \/ m \in cut

(* A poller's step leaves the handlers of other messages where they are; its *)
(* own message goes on being handled, comes to rest or is raised.            *)
LEMMA HandlerStays ==
  ASSUME Typed, IInv, PendingIsHandled, NEW p \in Pollers, Persist(p) \/ Handle(p)
  PROVE  PendingIsHandled'
<1> SUFFICES ASSUME NEW m \in Messages, status'[m] = "PENDING" PROVE Excused(m)'
  BY DEF PendingIsHandled, Excused
<1>1. cur[p] \in Messages /\ at[p] # "idle"
  BY HandlesMove, AtMessage
<1>2. /\ raised \subseteq raised' /\ cut' = cut
  BY DEF Persist, Handle, Claim, Skip, RecordAnswered, RecordFailed, Record, Acknowledge, Answer,
         AnswerFails, PostAccepted, PostFails, RetryOrRaise, RetryOrRefused, Again, history, restarts
<1>3. \A q \in Pollers \ {p} : at'[q] = at[q] /\ cur'[q] = cur[q]
  <2>1. Advance(p) => \A q \in Pollers \ {p} : at'[q] = at[q] /\ cur'[q] = cur[q]
    BY <1>1, AdvanceTyped
  <2>2. QED
    BY <2>1, HandlesMove DEF Moved, Goto, Typed, TypeOK
<1>4. status[m] = "PENDING" \/ (Claim(p) /\ m = cur[p] /\ cur[p] \notin claimed)
  BY <1>1 DEF Persist, Handle, Claim, Skip, RecordAnswered, RecordFailed, Record, Acknowledge,
              Answer, AnswerFails, PostAccepted, PostFails, Inserted, Typed, TypeOK, history
<1>5. CASE Claim(p) /\ m = cur[p] /\ cur[p] \notin claimed
  <2>1. at'[p] \in Handling /\ cur'[p] = m
    BY <1>5 DEF Claim, Goto, Inserted, Handling, Typed, TypeOK
  <2>2. QED
    BY <2>1 DEF Excused
<1>6. CASE status[m] = "PENDING" /\ (m # cur[p] \/ at[p] \notin Handling)
  BY <1>2, <1>3, <1>6 DEF PendingIsHandled, Excused
<1>7. CASE status[m] = "PENDING" /\ m = cur[p] /\ at[p] \in Handling
  <2>1. ~Persist(p) /\ ~Claim(p)
    BY <1>7 DEF Persist, Claim, Handling
  <2>2. ~Skip(p) /\ ~RecordAnswered(p) /\ ~RecordFailed(p)
    BY <1>1, <1>7 DEF Skip, RecordAnswered, RecordFailed, Record, Typed, TypeOK
  <2>3. CASE Acknowledge(p) \/ Answer(p) \/ AnswerFails(p)
    <3>1. at'[p] \in Handling /\ cur'[p] = m
      BY <1>7, <2>3 DEF Acknowledge, Answer, AnswerFails, Goto, Handling, Typed, TypeOK
    <3>2. QED
      BY <3>1 DEF Excused
  <2>4. CASE PostAccepted(p) \/ PostFails(p)
    <3>1. m \in raised' \/ (at'[p] \in Handling /\ cur'[p] = m)
      BY <1>7, <2>4 DEF PostAccepted, PostFails, RetryOrRaise, RetryOrRefused, Again, Goto,
                        Handling, Typed, TypeOK
    <3>2. QED
      BY <3>1 DEF Excused
  <2>5. QED
    BY <2>1, <2>2, <2>3, <2>4 DEF Handle
<1>8. QED
  BY <1>4, <1>5, <1>6, <1>7

(* Only a restart and an answer that could not be sent leave an interaction  *)
(* PENDING that nobody works on.                                             *)
THEOREM PendingHasHandler == Spec => []PendingIsHandled
<1>1. Init => PendingIsHandled
  BY DEF Init, PendingIsHandled
<1>2. ASSUME Typed, IInv, PendingIsHandled, [Next]_vars
      PROVE  PendingIsHandled'
  <2>1. CASE UNCHANGED vars \/ Speak \/ End
    BY <1>2, <2>1 DEF vars, Speak, End, loops, history, restarts, PendingIsHandled
  <2>2. CASE Crash
    BY <1>2, <2>2 DEF Crash, history, PendingIsHandled
  <2>3. ASSUME NEW p \in Pollers, Fetch(p)
        PROVE  PendingIsHandled'
    <3>1. \A q \in Pollers : at[q] \in Handling => at'[q] = at[q] /\ cur'[q] = cur[q]
      BY <1>2, <2>3 DEF Fetch, Handling, Typed, TypeOK
    <3>2. UNCHANGED <<status, raised, cut>>
      BY <2>3 DEF Fetch, history, restarts
    <3>3. QED
      BY <1>2, <3>1, <3>2 DEF PendingIsHandled
  <2>4. QED
    BY <1>2, <2>1, <2>2, <2>3, HandlerStays DEF Next, Capture
<1>3. QED
  BY <1>1, <1>2, InvAlways, PTL DEF Spec

-----------------------------------------------------------------------------
(* Every mention is a case of the desk *)

\* A try that may have been heard has used up its turn.
Bounded ==
  /\ \A p \in Pollers :
       /\ at[p] \notin {"post", "answered", "failed"} => http[p] = 0
       /\ at[p] = "post" => posted[cur[p]] <= http[p]
  /\ \A m \in Messages : posted[m] <= Retries + 1

(* A step of a poller leaves the other pollers where they are.               *)
LEMMA OthersStay ==
  ASSUME Typed, NEW p \in Pollers, Persist(p) \/ Handle(p)
  PROVE  \A q \in Pollers \ {p} : at'[q] = at[q] /\ cur'[q] = cur[q] /\ http'[q] = http[q]
<1>1. Advance(p) => \A q \in Pollers \ {p} : at'[q] = at[q] /\ cur'[q] = cur[q]
  BY AdvanceTyped, HandlesMove
<1>2. Moved(p, {"claim"} \cup Handling)
  BY HandlesMove
<1>3. \A q \in Pollers \ {p} : http'[q] = http[q]
  BY <1>2 DEF Moved, Advance, Again, Typed, TypeOK
<1>4. QED
  BY <1>1, <1>2, <1>3 DEF Moved, Goto, Typed, TypeOK

(* A step that is no try leaves the counter at zero and the history alone.   *)
LEMMA QuietBound ==
  ASSUME Typed, IInv, Bounded, NEW p \in Pollers,
         Persist(p) \/ Claim(p) \/ Skip(p) \/ Acknowledge(p) \/ Answer(p) \/ AnswerFails(p)
         \/ RecordAnswered(p) \/ RecordFailed(p)
  PROVE  Bounded'
<1>1. Persist(p) \/ Handle(p)
  BY DEF Handle
<1>2. UNCHANGED posted
  BY DEF Persist, Claim, Skip, RecordAnswered, RecordFailed, Record, Acknowledge, Answer,
         AnswerFails, history
<1>3. \/ Advance(p)
      \/ at'[p] \in {"claim", "skip", "ack", "answer"} /\ http'[p] = 0
      \/ at'[p] = "post" /\ cur'[p] = cur[p] /\ http'[p] = 0 /\ posted[cur[p]] = 0
      \/ at'[p] = "failed"
  <2>1. CASE Persist(p) \/ Claim(p)
    BY <2>1 DEF Persist, Claim, Goto, Bounded, Typed, TypeOK
  <2>2. CASE Skip(p) \/ RecordAnswered(p) \/ RecordFailed(p)
    BY <2>2 DEF Skip, RecordAnswered, RecordFailed, Record
  <2>3. CASE Acknowledge(p) \/ AnswerFails(p)
    BY <2>3 DEF Acknowledge, AnswerFails, Goto, Bounded, Typed, TypeOK
  <2>4. CASE Answer(p)
    <3>1. at[p] = "answer" /\ Goto(p, "post") /\ UNCHANGED http
      BY <2>4 DEF Answer
    <3>2. http[p] = 0 /\ posted[cur[p]] = 0
      BY <3>1 DEF Bounded, IInv, Progress
    <3>3. QED
      BY <3>1, <3>2 DEF Goto, Typed, TypeOK
  <2>5. QED
    BY <2>1, <2>2, <2>3, <2>4
<1>4. Advance(p) => at'[p] \in {"idle", "persist"} /\ http'[p] = 0
  BY <1>1, HandlesMove, AdvanceTyped DEF Advance, Typed, TypeOK
<1>5. \A q \in Pollers \ {p} : at'[q] = at[q] /\ cur'[q] = cur[q] /\ http'[q] = http[q]
  BY <1>1, OthersStay
<1>6. QED
  BY <1>2, <1>3, <1>4, <1>5 DEF Bounded

LEMMA TryBound ==
  ASSUME Typed, IInv, Bounded, NEW p \in Pollers, PostAccepted(p) \/ PostFails(p)
  PROVE  Bounded'
<1>1. Persist(p) \/ Handle(p)
  BY DEF Handle
<1>2. at[p] = "post" /\ cur[p] \in Messages
  BY AtMessage DEF PostAccepted, PostFails
<1>3. /\ posted[cur[p]] \in Nat /\ http[p] \in 0 .. Retries /\ Retries \in Nat
      /\ posted[cur[p]] <= http[p]
  BY <1>2, MessagesAre DEF Bounded, Typed, TypeOK
<1>4. /\ posted'[cur[p]] \in {posted[cur[p]], posted[cur[p]] + 1}
      /\ \A m \in Messages \ {cur[p]} : posted'[m] = posted[m]
  BY <1>2 DEF PostAccepted, PostFails, Typed, TypeOK
<1>5. posted'[cur[p]] <= http[p] + 1 /\ posted'[cur[p]] <= Retries + 1
  BY <1>3, <1>4
<1>6. \/ Advance(p)
      \/ at'[p] = "post" /\ cur'[p] = cur[p] /\ http'[p] = http[p] + 1
      \/ at'[p] \in {"answered", "failed"}
  <2>1. Again(p) => at'[p] = "post" /\ cur'[p] = cur[p] /\ http'[p] = http[p] + 1
    BY <1>2 DEF Again, Typed, TypeOK
  <2>2. \A place : Goto(p, place) => at'[p] = place
    BY DEF Goto, Typed, TypeOK
  <2>3. QED
    BY <2>1, <2>2 DEF PostAccepted, PostFails, RetryOrRaise, RetryOrRefused
<1>7. Advance(p) => at'[p] \in {"idle", "persist"} /\ http'[p] = 0
  BY <1>2, AdvanceTyped DEF Advance, Typed, TypeOK
<1>8. \A q \in Pollers \ {p} :
        /\ at'[q] = at[q] /\ cur'[q] = cur[q] /\ http'[q] = http[q]
        /\ at[q] = "post" => cur[q] \in Messages \ {cur[p]}
  BY <1>1, <1>2, OthersStay, AtMessage DEF IInv, Claims, Handling
<1>9. QED
  BY <1>4, <1>5, <1>6, <1>7, <1>8 DEF Bounded

DeskInv == Typed /\ IInv /\ Bounded

LEMMA BoundedInductive ==
  ASSUME DeskInv, [Next]_vars
  PROVE  Bounded'
<1>1. CASE UNCHANGED vars \/ Speak \/ End
  BY <1>1 DEF vars, Speak, End, loops, history, restarts, DeskInv, Bounded
<1>2. CASE Crash
  BY <1>2 DEF Crash, history, DeskInv, Bounded
<1>3. ASSUME NEW p \in Pollers, Fetch(p) PROVE Bounded'
  <2>1. /\ UNCHANGED <<posted, http>> /\ at[p] = "idle" /\ at'[p] = "persist"
        /\ \A q \in Pollers \ {p} : at'[q] = at[q] /\ cur'[q] = cur[q]
    BY <1>3 DEF Fetch, history, DeskInv, Typed, TypeOK
  <2>2. QED
    BY <2>1 DEF DeskInv, Bounded
<1>4. QED
  BY <1>1, <1>2, <1>3, QuietBound, TryBound DEF Next, Capture, Handle, DeskInv

(* Whose hand a message is in changes only with its own handler.             *)
LEMMA HandStays ==
  ASSUME Typed, NEW p \in Pollers, Persist(p) \/ Handle(p), NEW m \in Messages,
         m # cur[p] \/ (at[p] \notin Handling /\ at'[p] \notin Handling)
  PROVE  Hand(m)' = Hand(m)
<1>1. \A q \in Pollers \ {p} : at'[q] = at[q] /\ cur'[q] = cur[q]
  BY OthersStay
<1>2. at'[p] \in Handling => cur'[p] = cur[p]
  <2>1. Advance(p) => at'[p] \notin Handling
    BY HandlesMove, AdvanceTyped DEF Handling
  <2>2. QED
    BY <2>1, HandlesMove DEF Moved, Goto, Again
<1>3. (at'[p] \in Handling /\ cur'[p] = m) <=> (at[p] \in Handling /\ cur[p] = m)
  <2>1. CASE at[p] \notin Handling /\ at'[p] \notin Handling
    BY <2>1
  <2>2. CASE m # cur[p]
    BY <1>2, <2>2
  <2>3. QED
    BY <2>1, <2>2
<1>4. (\E q \in Pollers : at'[q] \in Handling /\ cur'[q] = m)
      <=> (\E q \in Pollers : at[q] \in Handling /\ cur[q] = m)
  BY <1>1, <1>3
<1>5. QED
  BY <1>4 DEF Hand

(* A handler goes on with its message, or lets it go.                        *)
LEMMA HandOwn ==
  ASSUME Typed, IInv, NEW p \in Pollers, Persist(p) \/ Handle(p), at[p] \in Handling
  PROVE  /\ Hand(cur[p]) = "taken"
         /\ at'[p] \in Handling /\ cur'[p] = cur[p] => (Hand(cur[p]))' = "taken"
         /\ Advance(p) => \A m \in Messages : m = cur[p] => Hand(m)' = "lost"
<1>1. Hand(cur[p]) = "taken"
  BY DEF Hand
<1>2. ASSUME at'[p] \in Handling, cur'[p] = cur[p] PROVE (Hand(cur[p]))' = "taken"
  BY <1>2 DEF Hand
<1>3. ASSUME Advance(p), NEW m \in Messages, m = cur[p] PROVE Hand(m)' = "lost"
  <2>1. at'[p] \notin Handling
    BY <1>3, HandlesMove, AdvanceTyped DEF Handling
  <2>2. \A q \in Pollers \ {p} : at'[q] \in Handling => cur'[q] # m
    BY <1>3, OthersStay DEF IInv, Claims
  <2>3. QED
    BY <2>1, <2>2 DEF Hand
<1>4. QED
  BY <1>1, <1>2, <1>3

LEMMA CaseIs ==
  ASSUME NEW s \in {"none", "PENDING"} \cup Resting, NEW h
  PROVE  CaseOf(s, h) = IF s = "none" THEN "open"
                        ELSE IF s = "PENDING" THEN h
                        ELSE IF s = "ANSWERED" THEN "answered"
                        ELSE IF s = "FAILED" THEN "failed" ELSE "skipped"
BY DEF CaseOf, Resting

(* What becomes of the case of message c, the others left alone.             *)
LEMMA PhaseMoves ==
  ASSUME NEW c \in Messages, NEW h, Hand(c)' = h,
         \A m \in Messages \ {c} : status'[m] = status[m] /\ Hand(m)' = Hand(m)
  PROVE  phase' = [phase EXCEPT ![c] = CaseOf(status'[c], h)]
BY DEF phase

LEMMA PhaseStays ==
  ASSUME \A m \in Messages : status'[m] = status[m] /\ Hand(m)' = Hand(m)
  PROVE  UNCHANGED phase
BY DEF phase

\* What the desk must see of one step.
DeskStep ==
  \/ UNCHANGED <<phase, posted>>
  \/ \E c \in Messages : Desk!Take(c) \/ Desk!Send(c) \/ Desk!Close(c)
  \/ \E S \in SUBSET Messages : Desk!Lose(S)

LEMMA ClaimTakes ==
  ASSUME DeskInv, NEW p \in Pollers, Persist(p) \/ Claim(p)
  PROVE  DeskStep
<1> USE DEF DeskInv
<1>1. /\ cur[p] \in Messages /\ (Persist(p) \/ Handle(p))
      /\ at[p] \notin Handling
      /\ UNCHANGED posted
  BY AtMessage DEF Persist, Claim, Handle, Handling, history
<1>2. CASE ~(Claim(p) /\ Inserted(cur[p], claimed))
  <2>1. UNCHANGED status
    BY <1>2 DEF Persist, Claim
  <2>2. Advance(p) \/ Goto(p, "claim")
    BY <1>2 DEF Persist, Claim
  <2>3. at'[p] \notin Handling
    BY <1>1, <2>2, HandlesMove, AdvanceTyped DEF Goto, Handling, Typed, TypeOK
  <2>4. \A m \in Messages : Hand(m)' = Hand(m)
    BY <1>1, <2>3, HandStays
  <2>5. QED
    BY <1>1, <2>1, <2>4, PhaseStays DEF DeskStep
<1>3. CASE Claim(p) /\ Inserted(cur[p], claimed)
  <2>c. PICK c \in Messages : c = cur[p]
    BY <1>1
  <2>1. /\ status' = [status EXCEPT ![c] = "PENDING"] /\ cur' = cur
        /\ at'[p] \in Handling /\ c \notin claimed
    BY <1>3, <2>c DEF Claim, Inserted, Goto, Handling, Typed, TypeOK
  <2>2. /\ status'[c] = "PENDING" /\ status[c] = "none"
        /\ \A m \in Messages \ {c} : status'[m] = status[m]
    BY <1>1, <2>1 DEF IInv, Claims, Typed, TypeOK
  <2>3. \A m \in Messages \ {c} : Hand(m)' = Hand(m)
    BY <1>1, <2>c, HandStays
  <2>4. Hand(c)' = "taken"
    BY <2>c, <2>1 DEF Hand
  <2>5. phase' = [phase EXCEPT ![c] = "taken"]
    BY <2>2, <2>3, <2>4, PhaseMoves, CaseIs
  <2>6. phase[c] = "open"
    BY <2>2, CaseIs DEF phase
  <2>7. Desk!Take(c)
    BY <1>1, <2>5, <2>6 DEF Desk!Take, Desk!Move
  <2>8. QED
    BY <2>7 DEF DeskStep
<1>4. QED
  BY <1>2, <1>3

(* Before there is anything to send, the desk sees nothing.                  *)
LEMMA AnswerHides ==
  ASSUME DeskInv, NEW p \in Pollers, Acknowledge(p) \/ Answer(p) \/ AnswerFails(p)
  PROVE  DeskStep
<1> USE DEF DeskInv
<1>1. /\ cur[p] \in Messages /\ (Persist(p) \/ Handle(p))
      /\ at[p] \in Handling /\ at'[p] \in Handling /\ cur' = cur
      /\ UNCHANGED <<status, posted>>
  BY AtMessage
  DEF Acknowledge, Answer, AnswerFails, Handle, Goto, Handling, history, Typed, TypeOK
<1>2. \A m \in Messages : Hand(m)' = Hand(m)
  BY <1>1, HandStays DEF Hand
<1>3. QED
  BY <1>1, <1>2, PhaseStays DEF DeskStep

(* The end of a handler closes its case.                                     *)
LEMMA RecordCloses ==
  ASSUME DeskInv, NEW p \in Pollers, Skip(p) \/ RecordAnswered(p) \/ RecordFailed(p)
  PROVE  DeskStep
<1> USE DEF DeskInv
<1>1. /\ cur[p] \in Messages /\ (Persist(p) \/ Handle(p))
      /\ at[p] \in Handling /\ Advance(p)
      /\ UNCHANGED posted
  BY AtMessage DEF Skip, RecordAnswered, RecordFailed, Record, Handle, Handling, history
<1>c. PICK c \in Messages : c = cur[p]
  BY <1>1
<1>2. PICK s \in Resting :
        /\ status' = [status EXCEPT ![c] = s]
        /\ s = "ANSWERED" => posted[c] > 0
        /\ s = "SKIPPED" => posted[c] = 0
  BY <1>c DEF Skip, RecordAnswered, RecordFailed, Record, IInv, Progress, Resting
<1>3. /\ status'[c] = s /\ status[c] = "PENDING"
      /\ \A m \in Messages \ {c} : status'[m] = status[m]
  BY <1>1, <1>c, <1>2 DEF IInv, Claims, Typed, TypeOK
<1>4. phase[c] = "taken"
  BY <1>1, <1>c, <1>3, HandOwn, CaseIs DEF phase
<1>5. phase' = [phase EXCEPT ![c] = CaseOf(s, "lost")]
  <2>1. \A m \in Messages \ {c} : Hand(m)' = Hand(m)
    BY <1>1, <1>c, HandStays
  <2>2. Hand(c)' = "lost"
    BY <1>1, <1>c, HandOwn
  <2>3. QED
    BY <1>3, <2>1, <2>2, PhaseMoves
<1>6. CaseOf(s, "lost") = IF s = "ANSWERED" THEN "answered"
                          ELSE IF s = "FAILED" THEN "failed" ELSE "skipped"
  BY <1>2, CaseIs DEF Resting
<1>7. Desk!Close(c)
  BY <1>1, <1>2, <1>4, <1>5, <1>6 DEF Desk!Close, Desk!Move, Resting
<1>8. QED
  BY <1>7 DEF DeskStep

(* A try sends a copy or none, and keeps the case or loses it.               *)
LEMMA TrySends ==
  ASSUME DeskInv, NEW p \in Pollers, PostAccepted(p) \/ PostFails(p)
  PROVE  DeskStep
<1> USE DEF DeskInv
<1>1. cur[p] \in Messages /\ (Persist(p) \/ Handle(p)) /\ at[p] = "post" /\ at[p] \in Handling
  BY AtMessage DEF PostAccepted, PostFails, Handle, Handling
<1>c. PICK c \in Messages : c = cur[p]
  BY <1>1
<1>2. UNCHANGED status /\ status[c] = "PENDING"
  BY <1>1, <1>c DEF PostAccepted, PostFails, IInv, Claims
<1>3. Advance(p) \/ (at'[p] \in Handling /\ cur' = cur)
  BY <1>1 DEF PostAccepted, PostFails, RetryOrRaise, RetryOrRefused, Again, Goto, Handling,
              Typed, TypeOK
<1>4. \A m \in Messages \ {c} : Hand(m)' = Hand(m)
  BY <1>1, <1>c, HandStays
<1>5. PICK h \in {"taken", "lost"} : Hand(c)' = h
  BY DEF Hand
<1>6. phase[c] = "taken"
  BY <1>1, <1>c, <1>2, HandOwn, CaseIs DEF phase
<1>7. phase' = [phase EXCEPT ![c] = h]
  BY <1>2, <1>4, <1>5, PhaseMoves, CaseIs
<1>8. CASE PostAccepted(p)
  <2>1. posted[c] < Retries + 1
    BY <1>1, <1>c, MessagesAre DEF Bounded, Typed, TypeOK
  <2>2. posted' = [posted EXCEPT ![c] = @ + 1]
    BY <1>c, <1>8 DEF PostAccepted
  <2>3. Desk!Send(c)
    BY <1>6, <1>7, <2>1, <2>2 DEF Desk!Send, Desk!Move
  <2>4. QED
    BY <2>3 DEF DeskStep
<1>9. CASE PostFails(p)
  <2>1. UNCHANGED posted
    BY <1>9 DEF PostFails
  <2>2. phase = [m \in Messages |-> phase[m]]
    BY DEF phase
  <2>3. CASE h = "taken"
    BY <1>6, <1>7, <2>1, <2>2, <2>3 DEF DeskStep
  <2>4. CASE h = "lost"
    <3>1. phase' = [m \in Messages |-> IF m \in {c} THEN "lost" ELSE phase[m]]
      BY <1>7, <2>2, <2>4
    <3>2. Desk!Lose({c})
      BY <1>6, <2>1, <3>1 DEF Desk!Lose
    <3>3. QED
      BY <3>2 DEF DeskStep
  <2>5. QED
    BY <2>3, <2>4
<1>10. QED
  BY <1>8, <1>9

(* A restart loses every case in hand.                                       *)
LEMMA CrashLoses ==
  ASSUME DeskInv, Crash
  PROVE  DeskStep
<1> DEFINE S == {m \in Messages : phase[m] = "taken"}
<1>1. /\ UNCHANGED <<status, posted>> /\ \A p \in Pollers : at'[p] = "idle"
      /\ status \in [Messages -> {"none", "PENDING"} \cup Resting]
  BY DEF Crash, history, DeskInv, Typed, TypeOK
<1>2. \A m \in Messages : Hand(m)' = "lost" /\ Hand(m) \in {"taken", "lost"}
  BY <1>1 DEF Hand, Handling
<1>3. \A m \in Messages : phase[m] = CaseOf(status[m], Hand(m))
                          /\ phase'[m] = CaseOf(status[m], "lost")
  BY <1>1, <1>2 DEF phase
<1>4. ASSUME NEW m \in Messages
      PROVE  phase'[m] = IF m \in S THEN "lost" ELSE phase[m]
  <2>1. PICK s \in {"none", "PENDING"} \cup Resting, h \in {"taken", "lost"} :
          s = status[m] /\ h = Hand(m)
    BY <1>1, <1>2
  <2>2. phase[m] = CaseOf(s, h) /\ phase'[m] = CaseOf(s, "lost")
    BY <1>3, <2>1
  <2>3. (m \in S) = (phase[m] = "taken")
    BY DEF S
  <2> HIDE DEF S
  <2>4. CASE s = "PENDING"
    <3>1. phase[m] = h /\ phase'[m] = "lost"
      BY <2>2, <2>4 DEF CaseOf
    <3>2. QED
      BY <2>3, <3>1
  <2>5. CASE s # "PENDING"
    <3>1. phase'[m] = phase[m] /\ phase[m] \in {"open", "answered", "failed", "skipped"}
      BY <2>2, <2>5, CaseIs DEF Resting
    <3>2. QED
      BY <2>3, <3>1
  <2>6. QED
    BY <2>4, <2>5
<1>5. phase' = [m \in Messages |-> IF m \in S THEN "lost" ELSE phase[m]]
  BY <1>4 DEF phase
<1>6. Desk!Lose(S)
  BY <1>1, <1>5 DEF Desk!Lose
<1>7. QED
  BY <1>6 DEF DeskStep

LEMMA StepsDesk ==
  ASSUME DeskInv, [Next]_vars
  PROVE  DeskStep
<1>1. CASE UNCHANGED vars \/ Speak \/ End
  <2>1. UNCHANGED <<status, posted, at, cur>>
    BY <1>1 DEF vars, Speak, End, loops, history
  <2>2. QED
    BY <2>1 DEF DeskStep, phase, Hand
<1>2. ASSUME NEW p \in Pollers, Fetch(p) PROVE DeskStep
  <2>1. /\ UNCHANGED <<status, posted>> /\ at[p] = "idle" /\ at'[p] = "persist"
        /\ \A q \in Pollers \ {p} : at'[q] = at[q] /\ cur'[q] = cur[q]
    BY <1>2 DEF Fetch, history, DeskInv, Typed, TypeOK
  <2>2. \A m \in Messages : Hand(m)' = Hand(m)
    BY <2>1 DEF Hand, Handling
  <2>3. QED
    BY <2>1, <2>2, PhaseStays DEF DeskStep
<1>3. QED
  BY <1>1, <1>2, CrashLoses, ClaimTakes, AnswerHides, RecordCloses, TrySends
  DEF Next, Capture, Handle

(* The chat's copilot is the desk AnswerDesk describes, for any chat, any    *)
(* number of pollers and restarts: a case is taken once, its answer is       *)
(* accepted at most once per try, and it is closed truthfully and for good,  *)
(* or lost with its handler.                                                 *)
THEOREM RefinesDesk == Spec => ImplementsDesk
<1>1. Init => DeskInv
  <2>1. Init => Bounded
    BY MessagesAre DEF Init, Bounded
  <2>2. QED
    BY <2>1, TypedInitial, IInvInitial DEF DeskInv
<1>2. DeskInv /\ [Next]_vars => DeskInv'
  BY TypedInductive, IInvInductive, BoundedInductive DEF DeskInv
<1>3. Init => Desk!DeskInit
  BY DEF Init, Desk!DeskInit, phase, CaseOf
<1>4. DeskInv /\ [Next]_vars => [Desk!DeskNext]_Desk!deskVars
  BY StepsDesk DEF DeskStep, Desk!DeskNext, Desk!deskVars
<1>5. QED
  BY <1>1, <1>2, <1>3, <1>4, PTL DEF Spec, ImplementsDesk, Desk!DeskSpec
-----------------------------------------------------------------------------
(* What is stored, and what becomes of a stored mention *)

(* A poller has stored what it has gone past, so that nothing is stored      *)
(* before what was said earlier.                                             *)
InOrder ==
  /\ \A m \in stored : 1 .. m \subseteq stored
  /\ \A p \in Pollers : at[p] = "persist" => 1 .. (cur[p] - 1) \subseteq stored
  /\ \A p \in Pollers : at[p] \in {"claim"} \cup Handling => 1 .. cur[p] \subseteq stored

\* A mention between its two commits has the poller that stored it about to
\* claim it.
Awaited(m) ==
  \/ m \in claimed
  \/ m \in cut
  \/ \E p \in Pollers : at[p] = "claim" /\ cur[p] = m

MentionsAwaited == \A m \in stored : Kind[m] # "other" => Awaited(m)

Kept == InOrder /\ MentionsAwaited

LEMMA PersistStores ==
  ASSUME Typed, Kept, NEW p \in Pollers, Persist(p)
  PROVE  Kept'
<1>1. /\ at[p] = "persist" /\ cur[p] \in Messages /\ cur[p] \in Nat
      /\ stored' = stored \cup {cur[p]}
      /\ UNCHANGED <<claimed, cut>>
  BY AtMessage DEF Persist, Messages, restarts
<1>2. \A q \in Pollers \ {p} : at'[q] = at[q] /\ cur'[q] = cur[q]
  BY OthersStay
<1>3. 1 .. cur[p] \subseteq stored'
  BY <1>1 DEF Kept, InOrder
<1>4. \A m \in stored' : 1 .. m \subseteq stored'
  BY <1>1, <1>3 DEF Kept, InOrder
<1>5. CASE Advance(p)
  <2>1. /\ at'[p] = "persist" => cur'[p] = cur[p] + 1
        /\ at'[p] \in {"persist", "idle"}
    BY <1>1, <1>5 DEF Advance, Typed, TypeOK
  <2>2. at'[p] = "persist" => 1 .. (cur'[p] - 1) \subseteq stored'
    BY <1>1, <1>3, <2>1
  <2>3. InOrder'
    BY <1>1, <1>2, <1>4, <2>1, <2>2 DEF Kept, InOrder, Handling
  <2>4. cur[p] \in stored \/ Kind[cur[p]] = "other"
    <3>1. ~(Goto(p, "claim") /\ UNCHANGED http) \/ Kind[cur[p]] = "other" \/ cur[p] \in stored
      BY <1>5, <2>1 DEF Goto, Typed, TypeOK
    <3>2. QED
      BY <3>1 DEF Persist, Inserted
  <2>5. MentionsAwaited'
    BY <1>1, <1>2, <2>4 DEF Kept, MentionsAwaited, Awaited
  <2>6. QED
    BY <2>3, <2>5 DEF Kept
<1>6. CASE Goto(p, "claim")
  <2>1. at'[p] = "claim" /\ cur' = cur
    BY <1>6 DEF Goto, Typed, TypeOK
  <2>2. InOrder'
    BY <1>1, <1>2, <1>3, <1>4, <2>1 DEF Kept, InOrder
  <2>3. MentionsAwaited'
    BY <1>1, <1>2, <2>1 DEF Kept, MentionsAwaited, Awaited
  <2>4. QED
    BY <2>2, <2>3 DEF Kept
<1>7. QED
  BY <1>5, <1>6 DEF Persist

LEMMA HandleKeeps ==
  ASSUME Typed, Kept, NEW p \in Pollers, Handle(p)
  PROVE  Kept'
<1>1. /\ at[p] \in {"claim"} \cup Handling /\ cur[p] \in Messages /\ cur[p] \in Nat
      /\ UNCHANGED <<stored, cut>>
  BY AtMessage, HandlesMove
  DEF Handle, Claim, Skip, Acknowledge, Answer, AnswerFails, PostAccepted, PostFails,
      RecordAnswered, RecordFailed, Record, Handling, Messages, restarts, history
<1>2. \A q \in Pollers \ {p} : at'[q] = at[q] /\ cur'[q] = cur[q]
  BY OthersStay
<1>3. \/ at'[p] = "persist" /\ cur'[p] = cur[p] + 1
      \/ at'[p] = "idle"
      \/ at'[p] \in {"claim"} \cup Handling /\ cur'[p] = cur[p]
  <2>1. Moved(p, {"claim"} \cup Handling)
    BY HandlesMove
  <2>2. QED
    BY <1>1, <2>1 DEF Moved, Advance, Goto, Typed, TypeOK
<1>4. InOrder'
  <2>1. at'[p] = "persist" => 1 .. (cur'[p] - 1) \subseteq stored'
    BY <1>1, <1>3 DEF Kept, InOrder, Handling
  <2>2. at'[p] \in {"claim"} \cup Handling => 1 .. cur'[p] \subseteq stored'
    BY <1>1, <1>3 DEF Kept, InOrder, Handling
  <2>3. QED
    BY <1>1, <1>2, <2>1, <2>2 DEF Kept, InOrder
<1>5. /\ claimed \subseteq claimed'
      /\ at[p] = "claim" => cur[p] \in claimed'
  BY DEF Handle, Claim, Inserted, Skip, Acknowledge, Answer, AnswerFails, PostAccepted,
         PostFails, RecordAnswered, RecordFailed, Record
<1>6. MentionsAwaited'
  BY <1>1, <1>2, <1>5 DEF Kept, MentionsAwaited, Awaited
<1>7. QED
  BY <1>4, <1>6 DEF Kept

LEMMA KeptInductive ==
  ASSUME Typed, Kept, [Next]_vars
  PROVE  Kept'
<1>1. CASE UNCHANGED vars \/ Speak \/ End
  <2>1. UNCHANGED <<stored, claimed, cut, at, cur>>
    BY <1>1 DEF vars, Speak, End, loops, restarts
  <2>2. QED
    BY <2>1 DEF Kept, InOrder, MentionsAwaited, Awaited
<1>2. CASE Crash
  <2>1. /\ UNCHANGED <<stored, claimed>>
        /\ \A p \in Pollers : at'[p] = "idle"
        /\ cut \subseteq cut'
        /\ \A p \in Pollers : at[p] = "claim" => cur[p] \in cut'
    BY <1>2 DEF Crash
  <2>2. QED
    BY <2>1 DEF Kept, InOrder, MentionsAwaited, Awaited, Handling
<1>3. ASSUME NEW p \in Pollers, Fetch(p) PROVE Kept'
  <2>1. /\ UNCHANGED <<stored, claimed, cut>>
        /\ at[p] = "idle" /\ at'[p] = "persist" /\ cur'[p] = 1
        /\ \A q \in Pollers \ {p} : at'[q] = at[q] /\ cur'[q] = cur[q]
    BY <1>3 DEF Fetch, restarts, Typed, TypeOK
  <2>2. 1 .. (cur'[p] - 1) = {}
    BY <2>1
  <2>3. InOrder'
    BY <2>1, <2>2 DEF Kept, InOrder, Handling
  <2>4. MentionsAwaited'
    BY <2>1 DEF Kept, MentionsAwaited, Awaited
  <2>5. QED
    BY <2>3, <2>4 DEF Kept
<1>4. QED
  BY <1>1, <1>2, <1>3, PersistStores, HandleKeeps DEF Next, Capture

LEMMA KeptAlways == Spec => []Kept
<1>1. Init => Kept
  BY DEF Init, Kept, InOrder, MentionsAwaited, Handling
<1>2. Typed /\ Kept /\ [Next]_vars => Kept'
  BY KeptInductive
<1>3. QED
  BY <1>1, <1>2, TypedAlways, PTL DEF Spec

(* The stored chat has no gaps: a message is in meeting_chat_messages only   *)
(* with all that was said before it, whichever pollers stored them and       *)
(* wherever the process was restarted.                                       *)
THEOREM StoredWithoutGaps == Spec => [](\A m \in stored : 1 .. m \subseteq stored)
<1>1. Kept => \A m \in stored : 1 .. m \subseteq stored
  BY DEF Kept, InOrder
<1>2. QED
  BY <1>1, KeptAlways, PTL

(* A stored mention is not dropped: it has come to rest, a poller is about   *)
(* to claim it or at work on it, a restart cut its handling short, or its    *)
(* answer could not be sent. There is no other way to lose one.              *)
THEOREM NoMentionDropped ==
  Spec => [](\A m \in stored : Kind[m] # "other" =>
               \/ status[m] \in Resting
               \/ m \in cut \cup raised
               \/ \E p \in Pollers : at[p] \in {"claim"} \cup Handling /\ cur[p] = m)
<1> DEFINE Accounted ==
      \A m \in stored : Kind[m] # "other" =>
        \/ status[m] \in Resting
        \/ m \in cut \cup raised
        \/ \E p \in Pollers : at[p] \in {"claim"} \cup Handling /\ cur[p] = m
<1>1. ASSUME Typed, IInv, PendingIsHandled, Kept PROVE Accounted
  <2>1. SUFFICES ASSUME NEW m \in stored, Kind[m] # "other", m \in claimed,
                        status[m] \notin Resting
                 PROVE  \/ m \in cut \cup raised
                        \/ \E p \in Pollers : at[p] \in Handling /\ cur[p] = m
    BY <1>1 DEF Kept, MentionsAwaited, Awaited
  <2>2. m \in Messages /\ status[m] = "PENDING"
    BY <1>1, <2>1 DEF IInv, Claims, Typed, TypeOK
  <2>3. QED
    BY <1>1, <2>2 DEF PendingIsHandled
<1>2. Typed /\ IInv /\ PendingIsHandled /\ Kept => Accounted
  BY <1>1
<1> HIDE DEF Accounted
<1>3. Spec => []Accounted
  BY <1>2, InvAlways, PendingHasHandler, KeptAlways, PTL
<1>4. QED
  BY <1>3 DEF Accounted
=============================================================================
