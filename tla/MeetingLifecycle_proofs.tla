---------------------- MODULE MeetingLifecycle_proofs ----------------------
(***************************************************************************)
(* Proofs about MeetingLifecycle for any rows, rooms, ticks, requests and  *)
(* restarts.                                                               *)
(***************************************************************************)
EXTENDS MeetingLifecycle, TLAPS

(* A process that works on a row has one, and an answer to take in.          *)
Working ==
  \A p \in Procs :
    /\ at[p] \in {"joining", "polled", "stopping", "mark", "finalizing"} => cur[p] \in Rows
    /\ at[p] = "joining" => reply[p] \in {"JOINING", "ACTIVE", "ERROR"}
    /\ at[p] = "polled" =>
         reply[p] \in {"JOINING", "ACTIVE", "PROCESSING", "FAILED_JOIN", "GONE", "ERROR"}

Typed == TypeOK /\ Working

-----------------------------------------------------------------------------
(* Types *)

LEMMA EndedType == ASSUME NEW row \in Row PROVE Ended(row) \in Row
BY DEF Ended, Row

LEMMA StatusType ==
  ASSUME NEW row \in Row, NEW s \in Statuses
  PROVE  [row EXCEPT !.status = s] \in Row
BY DEF Row

LEMMA ClaimType ==
  ASSUME NEW row \in Row, NEW s \in Statuses, NEW c \in {"none", "fresh", "old"}
  PROVE  [row EXCEPT !.status = s, !.claim = c] \in Row
BY DEF Row

LEMMA SavedType ==
  ASSUME TypeOK, NEW p \in Procs, NEW m \in Rows, NEW row \in Row, NEW s \in Statuses
  PROVE  Saved(p, m, row, s) \in Row
BY DEF TypeOK, Saved, Row

LEMMA ThroughType ==
  ASSUME Typed, NEW p \in Procs, Through(p)
  PROVE  /\ at' \in [Procs -> Places]
         /\ todo' \in [Procs -> SUBSET Rows]
         /\ cur' \in [Procs -> Rows \cup {None}]
         /\ mem' \in [Procs -> Statuses]
         /\ reply' \in [Procs -> {"none", "ERROR", "GONE"} \cup Statuses]
         /\ Working'
<1>1. at' \in [Procs -> Places]
  BY DEF Typed, TypeOK, Through, Back, Places
<1>2. at'[p] \notin {"joining", "polled", "stopping", "mark", "finalizing"}
  BY DEF Typed, TypeOK, Through, Back
<1>3. \A q \in Procs \ {p} : at'[q] = at[q] /\ cur'[q] = cur[q] /\ reply'[q] = reply[q]
  BY DEF Typed, TypeOK, Through
<1>4. Working'
  BY <1>2, <1>3 DEF Working, Typed
<1>5. QED
  BY <1>1, <1>4 DEF Typed, TypeOK, Through, Statuses

LEMMA LoadType ==
  ASSUME Typed, NEW p \in Procs, NEW m \in Rows, NEW place \in Places, Load(p, m, place)
  PROVE  /\ at' \in [Procs -> Places]
         /\ cur' \in [Procs -> Rows \cup {None}]
         /\ mem' \in [Procs -> Statuses]
BY DEF Typed, TypeOK, Load, Row

LEMMA AskType ==
  ASSUME Typed, NEW p \in Procs, NEW m \in Rows, Ask(p, m)
  PROVE  Typed'
<1>1. PICK a \in {"JOINING", "ACTIVE", "PROCESSING", "FAILED_JOIN", "GONE", "ERROR"} :
        reply' = [reply EXCEPT ![p] = a]
  BY DEF Ask, Reports
<1>2. TypeOK'
  <2>1. /\ at' \in [Procs -> Places]
        /\ cur' \in [Procs -> Rows \cup {None}]
        /\ mem' \in [Procs -> Statuses]
    BY LoadType DEF Ask, Places
  <2>2. reply' \in [Procs -> {"none", "ERROR", "GONE"} \cup Statuses]
    BY <1>1 DEF Typed, TypeOK, Statuses, InFlight, Over
  <2>3. QED
    BY <2>1, <2>2 DEF Ask, Typed, TypeOK
<1>3. Working'
  BY <1>1 DEF Ask, Load, Typed, TypeOK, Working
<1>4. QED
  BY <1>2, <1>3 DEF Typed

LEMMA EndCallType ==
  ASSUME TypeOK, NEW p \in Procs, cur[p] \in Rows, EndCall(p)
  PROVE  db' \in [Rows -> Row]
<1>1. Ended(db[cur[p]]) \in Row /\ "PROCESSING" \in Statuses
  BY EndedType DEF TypeOK, Statuses, InFlight
<1>2. Saved(p, cur[p], Ended(db[cur[p]]), "PROCESSING") \in Row
  BY <1>1, SavedType
<1>3. QED
  BY <1>2 DEF EndCall, Save, TypeOK

LEMMA RowsInitial ==
  ASSUME Init
  PROVE  /\ db \in [Rows -> Row]
         /\ \A m \in Rows : /\ db[m].status = "UNBORN" /\ ~db[m].bot
                            /\ db[m].claim = "none" /\ db[m].age = "none"
<1>1. PICK untimed \in SUBSET Untimed, endless \in SUBSET Endless :
        db = [m \in Rows |->
               [status |-> "UNBORN", bot |-> FALSE,
                window |-> IF m \in untimed THEN "none" ELSE "early",
                claim |-> "none", age |-> "none",
                end |-> IF m \in endless THEN "never" ELSE "later", tries |-> 0]]
  BY DEF Init
<1>2. QED
  BY <1>1, LifecycleAssumption DEF LifecycleAssumption, Row, Statuses

LEMMA TypedInitial == ASSUME Init PROVE Typed
<1>1. db \in [Rows -> Row]
  BY RowsInitial
<1>2. fixes \in [Procs -> [Rows -> Statuses]]
  BY DEF Init, NoFixes, Statuses
<1>3. QED
  BY <1>1, <1>2, LifecycleAssumption
  DEF LifecycleAssumption, Init, Typed, TypeOK, Working, BotStates, Places, Statuses

LEMMA TickStepTyped ==
  ASSUME Typed, NEW p \in Procs,
         \/ RecoverRead(p) \/ RecoverCommit(p) \/ Claim(p)
         \/ SelectActive(p) \/ SelectPending(p) \/ TickEnds(p)
  PROVE  Typed'
<1>1. CASE RecoverRead(p)
  <2>1. \A m \in Rows : Fix(db[m]) \in Statuses
    BY DEF Fix, Statuses, InFlight, Over
  <2>2. QED
    BY <1>1, <2>1 DEF RecoverRead, Typed, TypeOK, Working, Places
<1>2. CASE RecoverCommit(p)
  <2>1. \A m \in Rows : Fixed(db[m], fixes[p][m]) \in Row
    <3>1. TAKE m \in Rows
    <3>2. db[m] \in Row /\ Ended(db[m]) \in Row
      BY EndedType DEF Typed, TypeOK
    <3>3. QED
      BY <3>2 DEF Fixed, Row, Statuses, InFlight, Over
  <2>2. db' \in [Rows -> Row]
    BY <1>2, <2>1 DEF RecoverCommit, Typed, TypeOK
  <2>6. at' \in [Procs -> Places]
    BY <1>2 DEF RecoverCommit, Typed, TypeOK, Places, Rests
  <2>3. fixes' \in [Procs -> [Rows -> Statuses]]
    BY <1>2 DEF RecoverCommit, NoFixes, Typed, TypeOK, Statuses
  <2>4. Working'
    BY <1>2 DEF RecoverCommit, Typed, TypeOK, Working, Rests
  <2>5. QED
    BY <1>2, <2>2, <2>3, <2>4, <2>6 DEF RecoverCommit, Typed, TypeOK
<1>3. CASE Claim(p)
  <2>1. db' \in [Rows -> Row]
    <3>1. ASSUME NEW m \in Rows
          PROVE  /\ [db[m] EXCEPT !.status = "JOINING", !.claim = "fresh"] \in Row
                 /\ [db[m] EXCEPT !.status = "CANCELLED", !.claim = "none"] \in Row
      <4>1. db[m] \in Row /\ "JOINING" \in Statuses /\ "CANCELLED" \in Statuses
        BY DEF Typed, TypeOK, Statuses, InFlight, Over
      <4>2. QED
        BY <4>1, ClaimType
    <3>2. QED
      BY <1>3, <3>1 DEF Claim, Typed, TypeOK
  <2>2. todo' \in [Procs -> SUBSET Rows]
    BY <1>3 DEF Claim, Typed, TypeOK
  <2>3. QED
    BY <1>3, <2>1, <2>2 DEF Claim, Typed, TypeOK, Working, Places
<1>4. CASE SelectActive(p)
  BY <1>4 DEF SelectActive, Typed, TypeOK, Working, Places
<1>5. CASE SelectPending(p)
  BY <1>5 DEF SelectPending, Typed, TypeOK, Working, Places
<1>6. CASE TickEnds(p)
  BY <1>6 DEF TickEnds, Typed, TypeOK, Working, Places, Rests
<1>7. QED
  BY <1>1, <1>2, <1>3, <1>4, <1>5, <1>6

LEMMA RowStepTyped ==
  ASSUME Typed, NEW p \in Procs,
         \/ Join(p) \/ JoinReturns(p) \/ Poll(p) \/ Reconcile(p) \/ Stop(p)
         \/ Mark(p) \/ FinalizeBegins(p) \/ FinalizeEnds(p)
  PROVE  Typed'
<1>1. CASE Join(p)
  <2>1. PICK m \in todo[p], r \in Rooms :
          /\ r = RoomOf[m]
          /\ Load(p, m, "joining")
          /\ \E a \in {"JOINING", "ACTIVE", "ERROR"} : reply' = [reply EXCEPT ![p] = a]
          /\ bots' \in {bots, [bots EXCEPT ![r] = "joining"]}
          /\ stopAsked' \in {stopAsked, stopAsked \ {r}}
    BY <1>1 DEF Join, Reports, LiveBot
  <2>2. m \in Rows
    BY DEF Typed, TypeOK
  <2>3. TypeOK'
    <3>1. /\ at' \in [Procs -> Places]
          /\ cur' \in [Procs -> Rows \cup {None}]
          /\ mem' \in [Procs -> Statuses]
      BY <2>1, <2>2, LoadType DEF Places
    <3>2. reply' \in [Procs -> {"none", "ERROR", "GONE"} \cup Statuses]
      BY <2>1 DEF Typed, TypeOK, Statuses, InFlight
    <3>3. bots' \in [Rooms -> BotStates] /\ stopAsked' \subseteq Rooms
      BY <2>1 DEF Typed, TypeOK, BotStates
    <3>4. QED
      BY <1>1, <3>1, <3>2, <3>3 DEF Join, Typed, TypeOK
  <2>4. Working'
    BY <2>1, <2>2 DEF Load, Typed, TypeOK, Working
  <2>5. QED
    BY <2>3, <2>4 DEF Typed
<1>2. CASE JoinReturns(p)
  <2>1. cur[p] \in Rows /\ db[cur[p]] \in Row
    BY <1>2 DEF JoinReturns, Typed, TypeOK, Working
  <2>2. [db[cur[p]] EXCEPT !.bot = TRUE, !.age = "fresh"] \in Row
    BY <2>1 DEF Row
  <2>3. Saved(p, cur[p], db[cur[p]], "FAILED_JOIN") \in Row
    BY <2>1, SavedType DEF Typed, Statuses, Over
  <2>4. reply[p] # "ERROR" =>
          Saved(p, cur[p], [db[cur[p]] EXCEPT !.bot = TRUE, !.age = "fresh"], reply[p]) \in Row
    BY <1>2, <2>1, <2>2, SavedType DEF JoinReturns, Typed, Working, Statuses, InFlight
  <2>5. db' \in [Rows -> Row]
    BY <1>2, <2>1, <2>3, <2>4 DEF JoinReturns, Save, Typed, TypeOK
  <2>6. QED
    BY <1>2, <2>5, ThroughType DEF JoinReturns, Typed, TypeOK
<1>3. CASE Poll(p)
  BY <1>3, AskType DEF Poll, Typed, TypeOK
<1>4. CASE Reconcile(p)
  <2>1. cur[p] \in Rows /\ db[cur[p]] \in Row /\ Ended(db[cur[p]]) \in Row
    BY <1>4, EndedType DEF Reconcile, Typed, TypeOK, Working
  <2> DEFINE m == cur[p]
             s == Reconciled(mem[p], reply[p])
             row == IF reply[p] = "GONE" /\ s # mem[p] THEN Ended(db[m]) ELSE db[m]
             new == IF reply[p] = "ERROR" THEN db[m] ELSE Saved(p, m, row, s)
  <2>2. reply[p] # "ERROR" => s \in Statuses
    BY <1>4 DEF Reconcile, Reconciled, Typed, TypeOK, Working, Statuses, InFlight, Over
  <2>3. new \in Row
    BY <2>1, <2>2, SavedType DEF Typed
  <2>4. db' \in [Rows -> Row]
    BY <1>4, <2>1, <2>3 DEF Reconcile, Typed, TypeOK
  <2>5. CASE Through(p)
    BY <1>4, <2>4, <2>5, ThroughType DEF Reconcile, Typed, TypeOK
  <2>6. CASE ~Through(p)
    <3>1. /\ at' = [at EXCEPT ![p] = "stopping"]
          /\ mem' = [mem EXCEPT ![p] = new.status]
          /\ reply' = [reply EXCEPT ![p] = "none"]
          /\ UNCHANGED <<todo, cur>>
      BY <1>4, <2>6 DEF Reconcile
    <3>2. new.status \in Statuses
      BY <2>3 DEF Row
    <3> HIDE DEF new
    <3>3. TypeOK'
      BY <1>4, <2>4, <3>1, <3>2 DEF Reconcile, Typed, TypeOK, Places, Statuses
    <3>4. Working'
      BY <2>1, <3>1 DEF Typed, TypeOK, Working
    <3>5. QED
      BY <3>3, <3>4 DEF Typed
  <2>7. QED
    BY <2>5, <2>6
<1>5. CASE Stop(p)
  <2>1. cur[p] \in Rows
    BY <1>5 DEF Stop, Typed, Working
  <2>2. db' \in [Rows -> Row]
    BY <1>5, <2>1, EndCallType DEF Stop, Typed
  <2>3. bots' \in [Rooms -> BotStates]
    BY <1>5 DEF Stop, Typed, TypeOK, BotStates
  <2>4. RoomOf[cur[p]] \in Rooms
    BY <2>1, LifecycleAssumption DEF LifecycleAssumption
  <2>5. stopAsked' \subseteq Rooms
    BY <1>5, <2>4 DEF Stop, Typed, TypeOK
  <2>6. QED
    BY <1>5, <2>2, <2>3, <2>5, ThroughType DEF Stop, Typed, TypeOK
<1>9. CASE Mark(p)
  <2>1. cur[p] \in Rows
    BY <1>9 DEF Mark, Typed, Working
  <2>2. db' \in [Rows -> Row]
    BY <1>9, <2>1, EndCallType DEF Mark, Typed
  <2>3. at' \in [Procs -> Places] /\ at'[p] \in {"done", "process"}
    BY <1>9 DEF Mark, Typed, TypeOK, Places
  <2>4. Working'
    BY <1>9, <2>3 DEF Mark, Typed, TypeOK, Working
  <2>5. QED
    BY <1>9, <2>2, <2>3, <2>4 DEF Mark, Typed, TypeOK, Statuses
<1>6. CASE FinalizeBegins(p)
  <2>1. PICK m \in todo[p] \ finLock :
          \/ /\ db[m].status = "COMPLETED"
             /\ todo' = [todo EXCEPT ![p] = @ \ {m}]
             /\ at' = [at EXCEPT ![p] = IF p \in Requests THEN "done" ELSE @]
             /\ UNCHANGED <<cur, mem, finLock>>
          \/ /\ Load(p, m, "finalizing")
             /\ finLock' = finLock \cup {m}
             /\ UNCHANGED todo
    BY <1>6 DEF FinalizeBegins
  <2>2. m \in Rows
    BY DEF Typed, TypeOK
  <2>3. TypeOK'
    <3>1. CASE Load(p, m, "finalizing") /\ finLock' = finLock \cup {m} /\ UNCHANGED todo
      BY <1>6, <3>1, <2>2, LoadType DEF FinalizeBegins, Typed, TypeOK, Places
    <3>2. CASE /\ todo' = [todo EXCEPT ![p] = @ \ {m}]
               /\ at' = [at EXCEPT ![p] = IF p \in Requests THEN "done" ELSE @]
               /\ UNCHANGED <<cur, mem, finLock>>
      BY <1>6, <3>2 DEF FinalizeBegins, Typed, TypeOK, Places
    <3>3. QED
      BY <2>1, <3>1, <3>2
  <2>4. Working'
    BY <1>6, <2>1, <2>2 DEF FinalizeBegins, Load, Typed, TypeOK, Working
  <2>5. QED
    BY <2>3, <2>4 DEF Typed
<1>7. CASE FinalizeEnds(p)
  <2>1. cur[p] \in Rows /\ db[cur[p]] \in Row
    BY <1>7 DEF FinalizeEnds, Typed, TypeOK, Working
  <2>2. [db[cur[p]] EXCEPT !.tries = IF @ < MaxTries THEN @ + 1 ELSE @] \in Row
    BY <2>1, LifecycleAssumption DEF LifecycleAssumption, Row
  <2>3. \A s \in {"FAILED_ANALYSIS", "COMPLETED", "EMAIL_FAILED"} : s \in Statuses
    BY DEF Statuses, Over
  <2>6. /\ Saved(p, cur[p], db[cur[p]], "FAILED_ANALYSIS") \in Row
        /\ Saved(p, cur[p], db[cur[p]], "COMPLETED") \in Row
        /\ Saved(p, cur[p],
                 [db[cur[p]] EXCEPT !.tries = IF @ < MaxTries THEN @ + 1 ELSE @],
                 "EMAIL_FAILED") \in Row
    BY <2>1, <2>2, <2>3, SavedType DEF Typed
  <2>4. db' \in [Rows -> Row]
    BY <1>7, <2>1, <2>6 DEF FinalizeEnds, Save, Typed, TypeOK
  <2>5. QED
    BY <1>7, <2>4, ThroughType DEF FinalizeEnds, Typed, TypeOK
<1>8. QED
  BY <1>1, <1>2, <1>3, <1>4, <1>5, <1>6, <1>7, <1>9

LEMMA TypedInductive == ASSUME Typed, [Next]_vars PROVE Typed'
<1>1. CASE UNCHANGED vars
  BY <1>1 DEF Typed, TypeOK, Working, vars, local
<1>2. ASSUME NEW p \in Procs, Step(p) PROVE Typed'
  BY <1>2, TickStepTyped, RowStepTyped DEF Step
<1>3. ASSUME NEW q \in Requests, Request(q) PROVE Typed'
  <2>1. q \in Procs
    BY DEF Procs
  <2>2. CASE RequestRefresh(q)
    BY <2>1, <2>2, AskType DEF RequestRefresh, Born
  <2>3. CASE RequestStop(q) \/ Webhook(q)
    <3>1. PICK m \in Rows, place \in {"stopping", "mark"} :
            /\ Load(q, m, place)
            /\ todo' \in {todo, [todo EXCEPT ![q] = {m}]}
      BY <2>3 DEF RequestStop, Webhook, Born
    <3>2. TypeOK'
      <4>1. /\ at' \in [Procs -> Places]
            /\ cur' \in [Procs -> Rows \cup {None}]
            /\ mem' \in [Procs -> Statuses]
        BY <2>1, <3>1, LoadType DEF Places
      <4>2. todo' \in [Procs -> SUBSET Rows]
        BY <3>1 DEF Typed, TypeOK
      <4>3. QED
        BY <2>3, <4>1, <4>2 DEF RequestStop, Webhook, Typed, TypeOK
    <3>3. Working'
      BY <2>1, <2>3, <3>1 DEF RequestStop, Webhook, Load, Typed, TypeOK, Working
    <3>4. QED
      BY <3>2, <3>3 DEF Typed
  <2>4. QED
    BY <1>3, <2>2, <2>3 DEF Request
<1>4. ASSUME NEW r \in Rooms, Vexa(r) PROVE Typed'
  BY <1>4 DEF Vexa, Admitted, Refused, CallEnds, BotMoves, local, Typed, TypeOK,
              Working, BotStates
<1>5. ASSUME NEW m \in Rows, Insert(m) \/ TimePasses(m) PROVE Typed'
  <2>1. db' \in [Rows -> Row]
    <3>1. CASE Insert(m)
      BY <3>1, StatusType DEF Insert, Typed, TypeOK, Statuses, InFlight
    <3>2. CASE TimePasses(m)
      <4>1. /\ [db[m] EXCEPT !.window = IF @ = "early" THEN "due" ELSE "missed"] \in Row
            /\ [db[m] EXCEPT !.claim = "old"] \in Row
            /\ [db[m] EXCEPT !.age = "old"] \in Row
            /\ [db[m] EXCEPT !.end = "past"] \in Row
        BY DEF Typed, TypeOK, Row
      <4>2. QED
        BY <3>2, <4>1 DEF TimePasses, Typed, TypeOK
    <3>3. QED
      BY <1>5, <3>1, <3>2
  <2>2. QED
    BY <1>5, <2>1 DEF Insert, TimePasses, local, Typed, TypeOK, Working
<1>6. CASE Crash
  <2>1. fixes' \in [Procs -> [Rows -> Statuses]]
    BY <1>6 DEF Crash, NoFixes, Statuses
  <2>2. QED
    BY <1>6, <2>1, LifecycleAssumption
    DEF LifecycleAssumption, Crash, Typed, TypeOK, Working, Places, Statuses, Rests
<1>7. QED
  BY <1>1, <1>2, <1>3, <1>4, <1>5, <1>6 DEF Next

LEMMA TypedAlways == Spec => []Typed
BY TypedInitial, TypedInductive, PTL DEF Spec

(* The state keeps its types: a row only ever has the statuses of            *)
(* MeetingStatus, whatever Vexa answers and in whatever order.               *)
THEOREM TypeCorrect == Spec => []TypeOK
<1>1. Typed => TypeOK
  BY DEF Typed
<1>2. QED
  BY <1>1, TypedAlways, PTL

-----------------------------------------------------------------------------
(* One row in flight for each Meet code *)

\* A sweep found at most one row of a code to put in flight.
FixesOne ==
  \A p \in Procs : \A m, n \in Rows :
    RoomOf[m] = RoomOf[n] /\ fixes[p][m] \in InFlight /\ fixes[p][n] \in InFlight
    => m = n

(* Writing one row is harmless if the index allows it, or the row was in     *)
(* flight before.                                                            *)
LEMMA OneRowWritten ==
  ASSUME TypeOK, OneInFlight, NEW m \in Rows, NEW new \in Row,
         IndexAllows(m, new.status) \/ db[m].status \in InFlight,
         db' = [db EXCEPT ![m] = new]
  PROVE  OneInFlight'
BY DEF TypeOK, OneInFlight, IndexAllows

LEMMA SavedAllowed ==
  ASSUME TypeOK, NEW p \in Procs, NEW m \in Rows, NEW row \in Row, NEW s \in Statuses
  PROVE  IndexAllows(m, Saved(p, m, row, s).status) \/ db[m].status \in InFlight
BY DEF TypeOK, Saved, IndexAllows, Row

LEMMA SavedOne ==
  ASSUME TypeOK, OneInFlight, NEW p \in Procs, NEW m \in Rows, NEW row \in Row,
         NEW s \in Statuses, db' = [db EXCEPT ![m] = Saved(p, m, row, s)]
  PROVE  OneInFlight'
BY SavedType, SavedAllowed, OneRowWritten

LEMMA NoneEnters ==
  ASSUME OneInFlight, \A m \in Rows : db'[m].status \in InFlight => db[m].status \in InFlight
  PROVE  OneInFlight'
BY DEF OneInFlight

LEMMA EndCallOne ==
  ASSUME TypeOK, OneInFlight, NEW p \in Procs, cur[p] \in Rows, EndCall(p)
  PROVE  OneInFlight'
<1>1. Ended(db[cur[p]]) \in Row /\ "PROCESSING" \in Statuses
  BY EndedType DEF TypeOK, Statuses, InFlight
<1>2. CASE UNCHANGED db
  BY <1>2 DEF OneInFlight
<1>3. CASE Save(p, Ended(db[cur[p]]), "PROCESSING")
  BY <1>1, <1>3, SavedOne DEF Save
<1>4. QED
  BY <1>2, <1>3 DEF EndCall

LEMMA StepOne ==
  ASSUME Typed, OneInFlight, FixesOne, NEW p \in Procs, Step(p)
  PROVE  OneInFlight'
<1>1. CASE RecoverRead(p) \/ Join(p) \/ SelectActive(p) \/ Poll(p) \/ SelectPending(p)
           \/ FinalizeBegins(p) \/ TickEnds(p)
  BY <1>1
  DEF RecoverRead, Join, SelectActive, Poll, Ask, SelectPending, FinalizeBegins,
      TickEnds, OneInFlight
<1>2. CASE RecoverCommit(p)
  <2>1. CASE UNCHANGED db
    BY <2>1 DEF OneInFlight
  <2>2. CASE /\ \A m \in Rows : IndexAllows(m, fixes[p][m])
             /\ db' = [m \in Rows |-> Fixed(db[m], fixes[p][m])]
    <3>1. ASSUME NEW m \in Rows, db'[m].status \in InFlight
          PROVE  \/ fixes[p][m] \in InFlight
                 \/ db[m].status \in InFlight /\ fixes[p][m] \notin InFlight
      BY <2>2, <3>1 DEF Fixed, Ended, Typed, TypeOK, Row, InFlight
    <3>2. QED
      BY <2>2, <3>1 DEF OneInFlight, FixesOne, IndexAllows
  <2>3. QED
    BY <1>2, <2>1, <2>2 DEF RecoverCommit
<1>3. CASE Claim(p)
  <2>1. \A m \in Rows : db'[m].status \in InFlight => db[m].status \in InFlight
    BY <1>3 DEF Claim, Typed, TypeOK, Row, InFlight
  <2>2. QED
    BY <2>1, NoneEnters
<1>4. CASE JoinReturns(p)
  <2>1. cur[p] \in Rows /\ db[cur[p]] \in Row
    BY <1>4 DEF JoinReturns, Typed, TypeOK, Working
  <2>2. [db[cur[p]] EXCEPT !.bot = TRUE, !.age = "fresh"] \in Row
    BY <2>1 DEF Row
  <2>3. CASE reply[p] = "ERROR"
    BY <1>4, <2>1, <2>3, SavedOne DEF JoinReturns, Save, Typed, Statuses, Over
  <2>4. CASE reply[p] # "ERROR"
    <3>1. reply[p] \in Statuses
      BY <1>4, <2>4 DEF JoinReturns, Typed, Working, Statuses, InFlight
    <3>2. QED
      BY <1>4, <2>1, <2>2, <2>4, <3>1, SavedOne DEF JoinReturns, Save, Typed
  <2>5. QED
    BY <2>3, <2>4
<1>5. CASE Reconcile(p)
  <2> DEFINE m == cur[p]
             s == Reconciled(mem[p], reply[p])
             row == IF reply[p] = "GONE" /\ s # mem[p] THEN Ended(db[m]) ELSE db[m]
  <2>1. m \in Rows /\ row \in Row /\ db[m] \in Row
    BY <1>5, EndedType DEF Reconcile, Typed, TypeOK, Working
  <2>2. CASE reply[p] = "ERROR"
    BY <1>5, <2>1, <2>2 DEF Reconcile, OneInFlight, Typed, TypeOK
  <2>3. CASE reply[p] # "ERROR"
    <3>1. s \in Statuses
      BY <1>5, <2>3
      DEF Reconcile, Reconciled, Typed, TypeOK, Working, Statuses, InFlight, Over
    <3>2. db' = [db EXCEPT ![m] = Saved(p, m, row, s)]
      BY <1>5, <2>3 DEF Reconcile
    <3>3. QED
      BY <2>1, <3>1, <3>2, SavedOne DEF Typed
  <2>4. QED
    BY <2>2, <2>3
<1>6. CASE Stop(p) \/ Mark(p)
  BY <1>6, EndCallOne DEF Stop, Mark, Typed, Working
<1>7. CASE FinalizeEnds(p)
  <2>1. cur[p] \in Rows /\ db[cur[p]] \in Row
    BY <1>7 DEF FinalizeEnds, Typed, TypeOK, Working
  <2>2. [db[cur[p]] EXCEPT !.tries = IF @ < MaxTries THEN @ + 1 ELSE @] \in Row
    BY <2>1, LifecycleAssumption DEF LifecycleAssumption, Row
  <2>3. \A s \in {"FAILED_ANALYSIS", "COMPLETED", "EMAIL_FAILED"} : s \in Statuses
    BY DEF Statuses, Over
  <2>4. CASE UNCHANGED db
    BY <2>4 DEF OneInFlight
  <2>5. QED
    BY <1>7, <2>1, <2>2, <2>3, <2>4, SavedOne DEF FinalizeEnds, Save, Typed
<1>8. QED
  BY <1>1, <1>2, <1>3, <1>4, <1>5, <1>6, <1>7 DEF Step

LEMMA FixesOneInductive ==
  ASSUME Typed, OneInFlight, FixesOne, [Next]_vars
  PROVE  FixesOne'
<1>1. ASSUME NEW p \in Procs, RecoverRead(p) PROVE FixesOne'
  <2>1. \A m \in Rows : fixes'[p][m] \in InFlight => db[m].status \in InFlight
    BY <1>1 DEF RecoverRead, Fix, Typed, TypeOK, InFlight
  <2>2. \A q \in Procs \ {p} : fixes'[q] = fixes[q]
    BY <1>1 DEF RecoverRead, Typed, TypeOK
  <2>3. QED
    BY <2>1, <2>2 DEF FixesOne, OneInFlight
<1>2. ASSUME NEW p \in Procs, RecoverCommit(p) PROVE FixesOne'
  <2>1. fixes' = [fixes EXCEPT ![p] = NoFixes]
    BY <1>2 DEF RecoverCommit
  <2>2. QED
    BY <2>1 DEF NoFixes, FixesOne, Typed, TypeOK, InFlight
<1>3. CASE Crash
  BY <1>3 DEF Crash, NoFixes, FixesOne, InFlight
<1>4. ASSUME UNCHANGED fixes PROVE FixesOne'
  BY <1>4 DEF FixesOne
<1>5. ASSUME NEW p \in Procs, Step(p), ~RecoverRead(p), ~RecoverCommit(p)
      PROVE  UNCHANGED fixes
  BY <1>5
  DEF Step, Claim, Join, JoinReturns, SelectActive, Poll, Ask, Reconcile, Stop,
      Mark, SelectPending, FinalizeBegins, FinalizeEnds, TickEnds
<1>6. ASSUME NEW q \in Procs, Request(q) PROVE UNCHANGED fixes
  BY <1>6 DEF Request, RequestRefresh, Ask, RequestStop, Webhook
<1>7. ASSUME \/ \E r \in Rooms : Vexa(r)
             \/ \E m \in Rows : Insert(m) \/ TimePasses(m)
             \/ UNCHANGED vars
      PROVE  UNCHANGED fixes
  BY <1>7 DEF Vexa, Admitted, Refused, CallEnds, BotMoves, Insert, TimePasses, local, vars
<1>8. QED
  BY <1>1, <1>2, <1>3, <1>4, <1>5, <1>6, <1>7 DEF Next, Procs

LEMMA TimeKeeps ==
  ASSUME Typed, NEW m \in Rows, TimePasses(m)
  PROVE  \A n \in Rows : db'[n].status = db[n].status /\ db'[n].bot = db[n].bot
<1>1. \A n \in Rows \ {m} : db'[n] = db[n]
  BY DEF TimePasses, Typed, TypeOK
<1>2. db[m] \in Row /\ db \in [Rows -> Row]
  BY DEF Typed, TypeOK
<1>3. db'[m] \in {[db[m] EXCEPT !.window = IF @ = "early" THEN "due" ELSE "missed"],
                 [db[m] EXCEPT !.claim = "old"],
                 [db[m] EXCEPT !.age = "old"],
                 [db[m] EXCEPT !.end = "past"]}
  BY <1>2 DEF TimePasses
<1>4. db'[m].status = db[m].status /\ db'[m].bot = db[m].bot
  BY <1>2, <1>3 DEF Row
<1>5. QED
  BY <1>1, <1>4

LEMMA OneInFlightInductive ==
  ASSUME Typed, OneInFlight, FixesOne, [Next]_vars
  PROVE  OneInFlight'
<1>1. ASSUME NEW q \in Requests, Request(q) PROVE OneInFlight'
  BY <1>1 DEF Request, RequestRefresh, Ask, RequestStop, Webhook, OneInFlight
<1>2. ASSUME NEW m \in Rows, Insert(m) PROVE OneInFlight'
  <2> DEFINE new == [db[m] EXCEPT !.status = "SCHEDULED"]
  <2>1. new \in Row
    BY StatusType DEF Typed, TypeOK, Statuses, InFlight
  <2>2. new.status = "SCHEDULED"
    BY DEF Typed, TypeOK, Row
  <2>3. db' = [db EXCEPT ![m] = new]
    BY <1>2 DEF Insert
  <2>4. IndexAllows(m, new.status)
    BY <1>2, <2>2 DEF Insert
  <2> HIDE DEF new
  <2>5. QED
    BY <2>1, <2>3, <2>4, OneRowWritten DEF Typed
<1>3. ASSUME NEW m \in Rows, TimePasses(m) PROVE OneInFlight'
  <2>1. \A n \in Rows : db'[n].status = db[n].status
    BY <1>3, TimeKeeps
  <2>2. QED
    BY <2>1, NoneEnters
<1>4. ASSUME \/ \E r \in Rooms : Vexa(r)
             \/ Crash
             \/ UNCHANGED vars
      PROVE  OneInFlight'
  BY <1>4 DEF Vexa, Admitted, Refused, CallEnds, BotMoves, Crash, vars, OneInFlight
<1>5. QED
  BY <1>1, <1>2, <1>3, <1>4, StepOne DEF Next

(* uq_meetings_active_native is enough, with what every writer of a status   *)
(* does: no interleaving of sweeps, claims, polls, stops, webhooks and       *)
(* finalizes puts two rows of one Meet code in flight.                       *)
THEOREM OneRowInFlight == Spec => []OneInFlight
<1>1. Init => OneInFlight /\ FixesOne
  BY LifecycleAssumption
  DEF LifecycleAssumption, Init, OneInFlight, FixesOne, NoFixes, InFlight
<1>2. Typed /\ OneInFlight /\ FixesOne /\ [Next]_vars => (OneInFlight /\ FixesOne)'
  BY OneInFlightInductive, FixesOneInductive
<1>3. QED
  BY <1>1, <1>2, TypedAlways, PTL DEF Spec

-----------------------------------------------------------------------------
(* Claims and sweeps of one ticking process *)

\* No step but a sweep's commit, an insert and a join's return takes a row into
\* SCHEDULED or gives it a bot, and only time makes a claim old.
Calm ==
  \A m \in Rows :
    /\ db'[m].bot = db[m].bot
    /\ db'[m].status \in {"SCHEDULED", "UNBORN"} => db[m].status = db'[m].status
    /\ db'[m].claim = "old" => db[m].claim = "old"

\* A dispatched row does not wait for a bot, and is not about to.
Settled ==
  \A m \in Rows : db[m].bot => db[m].status \notin {"SCHEDULED", "UNBORN"}

Dispatching ==
  \A p \in Procs :
    /\ at[p] \in {"recovering", "claim", "dispatch", "joining", "advance"} => p \in Ticks
    /\ at[p] # "recovering" => fixes[p] = NoFixes
    /\ \A m \in Rows : fixes[p][m] = "SCHEDULED" => ~db[m].bot
    /\ at[p] \in {"dispatch", "joining"} =>
         \A m \in todo[p] : ~db[m].bot /\ db[m].status \notin {"SCHEDULED", "UNBORN"}
    /\ at[p] = "joining" => cur[p] \in todo[p]

\* What the rest of the proof assumes: nobody calls /admin/scheduler-tick.
OneTicker == \A p, q \in Ticks : p = q

DInv == Typed /\ Settled /\ Dispatching

LEMMA SavedCalm ==
  ASSUME Typed, NEW p \in Procs, NEW m \in Rows, NEW row \in Row,
         row.bot = db[m].bot, row.claim = db[m].claim, NEW s \in Statuses, s \notin {"SCHEDULED", "UNBORN"} \/ s = mem[p],
         db' = [db EXCEPT ![m] = Saved(p, m, row, s)]
  PROVE  Calm
BY DEF Typed, TypeOK, Saved, Calm, Row

LEMMA CalmSteps ==
  ASSUME Typed, NEW p \in Procs, Step(p), ~RecoverCommit(p), ~JoinReturns(p)
  PROVE  Calm
<1>1. CASE RecoverRead(p) \/ Join(p) \/ SelectActive(p) \/ Poll(p) \/ SelectPending(p)
           \/ FinalizeBegins(p) \/ TickEnds(p)
  BY <1>1
  DEF RecoverRead, Join, SelectActive, Poll, Ask, SelectPending, FinalizeBegins,
      TickEnds, Calm
<1>2. CASE Claim(p)
  <2>1. ASSUME NEW m \in Rows
        PROVE  /\ db'[m].bot = db[m].bot
               /\ \/ db'[m] = db[m]
                  \/ /\ db'[m].status \in {"JOINING", "CANCELLED"}
                     /\ db'[m].claim \in {"fresh", "none"}
    <3>1. db[m] \in Row
      BY DEF Typed, TypeOK
    <3>2. db'[m] \in {db[m],
                     [db[m] EXCEPT !.status = "JOINING", !.claim = "fresh"],
                     [db[m] EXCEPT !.status = "CANCELLED", !.claim = "none"]}
      BY <1>2 DEF Claim
    <3>3. QED
      BY <3>1, <3>2 DEF Row
  <2>2. QED
    BY <2>1 DEF Calm
<1>3. CASE Reconcile(p)
  <2> DEFINE m == cur[p]
             s == Reconciled(mem[p], reply[p])
             row == IF reply[p] = "GONE" /\ s # mem[p] THEN Ended(db[m]) ELSE db[m]
  <2>1. m \in Rows /\ row \in Row /\ db[m] \in Row
    BY <1>3, EndedType DEF Reconcile, Typed, TypeOK, Working
  <2>2. CASE reply[p] = "ERROR"
    BY <1>3, <2>1, <2>2 DEF Reconcile, Calm, Typed, TypeOK
  <2>3. CASE reply[p] # "ERROR"
    <3>1. s \in Statuses /\ (s \notin {"SCHEDULED", "UNBORN"} \/ s = mem[p])
      BY <1>3, <2>3
      DEF Reconcile, Reconciled, Typed, TypeOK, Working, Statuses, InFlight, Over
    <3>2. row.bot = db[m].bot /\ row.claim = db[m].claim
      BY <2>1 DEF Ended, Row
    <3>3. db' = [db EXCEPT ![m] = Saved(p, m, row, s)]
      BY <1>3, <2>3 DEF Reconcile
    <3>4. QED
      BY <2>1, <3>1, <3>2, <3>3, SavedCalm
  <2>4. QED
    BY <2>2, <2>3
<1>4. CASE Stop(p) \/ Mark(p)
  <2>1. /\ cur[p] \in Rows /\ db[cur[p]] \in Row
        /\ Ended(db[cur[p]]) \in Row /\ "PROCESSING" \in Statuses
    BY <1>4, EndedType DEF Stop, Mark, Typed, TypeOK, Working, Statuses, InFlight
  <2>2. LET row == db[cur[p]] IN Ended(row).bot = row.bot /\ Ended(row).claim = row.claim
    BY <2>1 DEF Ended, Row
  <2>3. CASE UNCHANGED db
    BY <2>3 DEF Calm
  <2>4. CASE Save(p, Ended(db[cur[p]]), "PROCESSING")
    BY <2>1, <2>2, <2>4, SavedCalm DEF Save
  <2>5. QED
    BY <1>4, <2>3, <2>4 DEF Stop, Mark, EndCall
<1>5. CASE FinalizeEnds(p)
  <2> DEFINE tried == [db[cur[p]] EXCEPT !.tries = IF @ < MaxTries THEN @ + 1 ELSE @]
  <2>1. cur[p] \in Rows /\ db[cur[p]] \in Row
    BY <1>5 DEF FinalizeEnds, Typed, TypeOK, Working
  <2>2. tried \in Row /\ tried.bot = db[cur[p]].bot /\ tried.claim = db[cur[p]].claim
    BY <2>1, LifecycleAssumption DEF LifecycleAssumption, Row
  <2>3. \A s \in {"FAILED_ANALYSIS", "COMPLETED", "EMAIL_FAILED"} : s \in Statuses
    BY DEF Statuses, Over
  <2>4. CASE UNCHANGED db
    BY <2>4 DEF Calm
  <2>5. CASE Save(p, tried, "EMAIL_FAILED")
    BY <2>1, <2>2, <2>3, <2>5, SavedCalm DEF Save
  <2>6. CASE Save(p, db[cur[p]], "FAILED_ANALYSIS") \/ Save(p, db[cur[p]], "COMPLETED")
    BY <2>1, <2>3, <2>6, SavedCalm DEF Save
  <2>7. QED
    BY <1>5, <2>4, <2>5, <2>6 DEF FinalizeEnds
<1>6. QED
  BY <1>1, <1>2, <1>3, <1>4, <1>5 DEF Step

\* The processes other than p, when p's step is calm.
LEMMA OthersDispatch ==
  ASSUME DInv, Typed', Calm, NEW p \in Procs,
         \A q \in Procs \ {p} : /\ at'[q] = at[q]
                                /\ fixes'[q] = fixes[q]
                                /\ todo'[q] = todo[q]
                                /\ cur'[q] = cur[q],
         /\ at'[p] \in {"recovering", "claim", "dispatch", "joining", "advance"} => p \in Ticks
         /\ at'[p] # "recovering" => fixes'[p] = NoFixes
         /\ \A m \in Rows : fixes'[p][m] = "SCHEDULED" => ~db'[m].bot
         /\ at'[p] \in {"dispatch", "joining"} =>
              \A m \in todo'[p] : ~db'[m].bot /\ db'[m].status \notin {"SCHEDULED", "UNBORN"}
         /\ at'[p] = "joining" => cur'[p] \in todo'[p]
  PROVE  Settled' /\ Dispatching'
<1>1. Settled'
  BY DEF DInv, Settled, Calm
<1>2. \A q \in Procs : todo[q] \subseteq Rows
  BY DEF DInv, Typed, TypeOK
<1>3. Dispatching'
  BY <1>2 DEF DInv, Dispatching, Calm
<1>4. QED
  BY <1>1, <1>3

LEMMA CalmStepDispatch ==
  ASSUME DInv, Typed', NEW p \in Procs, Step(p), ~RecoverCommit(p), ~JoinReturns(p)
  PROVE  Settled' /\ Dispatching'
<1>1. Calm
  BY CalmSteps DEF DInv
<1>2. \A q \in Procs \ {p} : /\ at'[q] = at[q]
                             /\ fixes'[q] = fixes[q]
                             /\ todo'[q] = todo[q]
                             /\ cur'[q] = cur[q]
  <2>1. CASE RecoverRead(p) \/ Claim(p) \/ SelectActive(p) \/ SelectPending(p) \/ TickEnds(p)
    BY <2>1 DEF RecoverRead, Claim, SelectActive, SelectPending, TickEnds, DInv, Typed, TypeOK
  <2>2. CASE Join(p) \/ Poll(p) \/ FinalizeBegins(p) \/ Mark(p)
    BY <2>2 DEF Join, Poll, Ask, FinalizeBegins, Mark, Load, DInv, Typed, TypeOK
  <2>3. CASE Reconcile(p) \/ Stop(p) \/ FinalizeEnds(p)
    BY <2>3 DEF Reconcile, Stop, FinalizeEnds, Through, DInv, Typed, TypeOK
  <2>4. QED
    BY <2>1, <2>2, <2>3 DEF Step
<1>3. CASE RecoverRead(p)
  <2>1. p \in Ticks /\ at'[p] = "recovering"
    BY <1>3 DEF RecoverRead, DInv, Typed, TypeOK
  <2>2. \A m \in Rows : fixes'[p][m] = "SCHEDULED" => ~db'[m].bot
    BY <1>3 DEF RecoverRead, Fix, DInv, Typed, TypeOK
  <2>3. QED
    BY <1>1, <1>2, <2>1, <2>2, OthersDispatch
<1>4. ASSUME ~RecoverRead(p)
      PROVE  at[p] # "recovering" /\ fixes'[p] = fixes[p] /\ at'[p] # "recovering"
  BY <1>4
  DEF Step, Claim, Join, SelectActive, Poll, Ask, Load, Reconcile, Through, Back,
      Stop, Mark, SelectPending, FinalizeBegins, FinalizeEnds, TickEnds, DInv, Typed, TypeOK,
      Rests
<1>5. ASSUME ~RecoverRead(p)
      PROVE  /\ at'[p] # "recovering" => fixes'[p] = NoFixes
             /\ \A m \in Rows : fixes'[p][m] = "SCHEDULED" => ~db'[m].bot
  BY <1>1, <1>4, <1>5 DEF DInv, Dispatching, Calm
<1>6. CASE Claim(p)
  <2>1. p \in Ticks /\ at'[p] = "dispatch"
    BY <1>6 DEF Claim, DInv, Dispatching, Typed, TypeOK
  <2>2. todo'[p] \subseteq {m \in Rows : db[m].status = "SCHEDULED"}
    BY <1>6 DEF Claim, DInv, Typed, TypeOK
  <2>3. \A m \in todo'[p] : db'[m] = [db[m] EXCEPT !.status = "JOINING", !.claim = "fresh"]
    BY <1>6 DEF Claim, DInv, Typed, TypeOK
  <2>4. \A m \in todo'[p] : ~db'[m].bot /\ db'[m].status = "JOINING"
    <3>1. ASSUME NEW m \in todo'[p]
          PROVE  ~db'[m].bot /\ db'[m].status = "JOINING"
      <4>1. m \in Rows /\ db[m] \in Row /\ ~db[m].bot
        BY <2>2 DEF DInv, Settled, Typed, TypeOK
      <4>2. QED
        BY <2>3, <4>1 DEF Row
    <3>2. QED
      BY <3>1
  <2>5. ~RecoverRead(p)
    BY <1>6 DEF Claim, RecoverRead, Starts
  <2>6. QED
    BY <1>1, <1>2, <1>5, <2>1, <2>4, <2>5, OthersDispatch
<1>7. CASE Join(p)
  <2>1. at[p] = "dispatch" /\ at'[p] = "joining" /\ cur'[p] \in todo[p] /\ todo'[p] = todo[p]
    BY <1>7 DEF Join, Load, DInv, Typed, TypeOK
  <2>2. p \in Ticks /\ \A m \in todo[p] : ~db'[m].bot /\ db'[m].status \notin {"SCHEDULED", "UNBORN"}
    BY <1>7, <2>1 DEF Join, DInv, Dispatching
  <2>3. ~RecoverRead(p)
    BY <2>1 DEF RecoverRead, Starts
  <2>4. QED
    BY <1>1, <1>2, <1>5, <2>1, <2>2, <2>3, OthersDispatch
<1>8. CASE SelectActive(p)
  <2>1. at[p] = "dispatch" /\ at'[p] = "advance"
    BY <1>8 DEF SelectActive, DInv, Typed, TypeOK
  <2>2. p \in Ticks /\ ~RecoverRead(p)
    BY <2>1 DEF RecoverRead, DInv, Dispatching, Starts
  <2>3. QED
    BY <1>1, <1>2, <1>5, <2>1, <2>2, OthersDispatch
<1>9. CASE Poll(p) \/ Reconcile(p) \/ Stop(p) \/ Mark(p) \/ SelectPending(p) \/ FinalizeBegins(p)
           \/ FinalizeEnds(p) \/ TickEnds(p)
  <2> DEFINE fine == /\ at'[p] \in {"idle", "polled", "stopping", "process",
                                    "finalizing", "done", "advance"}
                     /\ at'[p] = "advance" => p \notin Requests
  <2>a. at \in [Procs -> Places]
    BY DEF DInv, Typed, TypeOK
  <2>b. Through(p) => at'[p] = Back(p)
    BY <2>a DEF Through
  <2>c. ASSUME Poll(p) \/ SelectPending(p) \/ TickEnds(p) PROVE fine
    BY <2>a, <2>c DEF Poll, Ask, Load, SelectPending, TickEnds, Rests
  <2>d. ASSUME Reconcile(p) PROVE fine
    <3>1. CASE Through(p)
      BY <2>b, <2>d, <3>1 DEF Reconcile, Back
    <3>2. CASE at' = [at EXCEPT ![p] = "stopping"]
      BY <2>a, <3>2
    <3>3. QED
      BY <2>d, <3>1, <3>2 DEF Reconcile
  <2>e. ASSUME Stop(p) \/ FinalizeEnds(p) PROVE fine
    BY <2>b, <2>e DEF Stop, FinalizeEnds, Back
  <2>g. ASSUME Mark(p) PROVE fine
    BY <2>a, <2>g DEF Mark
  <2>f. ASSUME FinalizeBegins(p) PROVE fine
    <3>1. at[p] = "process" /\ (\/ at'[p] \in {"process", "done"}
                                \/ at'[p] = "finalizing")
      BY <2>a, <2>f DEF FinalizeBegins, Load
    <3>2. QED
      BY <3>1
  <2>1. fine
    BY <1>9, <2>c, <2>d, <2>e, <2>f, <2>g
  <2>2. at'[p] = "advance" => p \in Ticks
    BY <2>1 DEF Procs
  <2>3. ~RecoverRead(p)
    BY <1>9
    DEF RecoverRead, Poll, Reconcile, Stop, Mark, SelectPending, FinalizeBegins, FinalizeEnds, TickEnds,
          Rests, Starts
  <2>4. QED
    BY <1>1, <1>2, <1>5, <2>1, <2>2, <2>3, OthersDispatch
<1>10. QED
  BY <1>3, <1>6, <1>7, <1>8, <1>9 DEF Step

LEMMA RecoverCommitDispatch ==
  ASSUME OneTicker, DInv, NEW p \in Procs, RecoverCommit(p)
  PROVE  Settled' /\ Dispatching'
<1>1. at[p] = "recovering" /\ p \in Ticks
  BY DEF RecoverCommit, DInv, Dispatching
<1>2. /\ \E place \in {"claim", "idle", "done"} : at' = [at EXCEPT ![p] = place]
      /\ fixes' = [fixes EXCEPT ![p] = NoFixes]
      /\ UNCHANGED <<todo, cur>>
  BY DEF RecoverCommit, Rests
<1>3. ASSUME NEW m \in Rows
      PROVE  /\ db'[m].bot = db[m].bot
             /\ \/ db'[m].status = db[m].status
                \/ db'[m].status \notin {"SCHEDULED", "UNBORN"}
                \/ db'[m].status = "SCHEDULED" /\ fixes[p][m] = "SCHEDULED"
  <2>1. db[m] \in Row
    BY DEF DInv, Typed, TypeOK
  <2>2. db' = db \/ db'[m] = Fixed(db[m], fixes[p][m])
    BY DEF RecoverCommit
  <2>3. CASE db' = db
    BY <2>3
  <2>4. CASE db'[m] = Fixed(db[m], fixes[p][m])
    BY <2>1, <2>4 DEF Fixed, Ended, Row
  <2>5. QED
    BY <2>2, <2>3, <2>4
<1>4. Settled'
  BY <1>3 DEF Settled, DInv, Dispatching
<1>5. ASSUME NEW q \in Procs
      PROVE  /\ at'[q] \notin {"recovering", "dispatch", "joining", "advance"}
             /\ fixes'[q] = NoFixes
  BY <1>1, <1>2 DEF OneTicker, DInv, Dispatching, Typed, TypeOK
<1>6. \A q \in Procs : at'[q] = "claim" => q \in Ticks
  BY <1>1, <1>2 DEF DInv, Dispatching, Typed, TypeOK
<1>7. Dispatching'
  BY <1>5, <1>6 DEF Dispatching, NoFixes
<1>8. QED
  BY <1>4, <1>7

LEMMA JoinReturnsDispatch ==
  ASSUME OneTicker, DInv, NEW p \in Procs, JoinReturns(p)
  PROVE  Settled' /\ Dispatching'
<1>1. /\ at[p] = "joining" /\ p \in Ticks /\ p \notin Requests
      /\ cur[p] \in todo[p] /\ cur[p] \in Rows
      /\ db[cur[p]].status \notin {"SCHEDULED", "UNBORN"}
      /\ db[cur[p]] \in Row
      /\ reply[p] \in {"JOINING", "ACTIVE", "ERROR"}
  BY LifecycleAssumption
  DEF LifecycleAssumption, JoinReturns, DInv, Dispatching, Typed, TypeOK, Working
<1>2. /\ at' = [at EXCEPT ![p] = "dispatch"]
      /\ todo' = [todo EXCEPT ![p] = @ \ {cur[p]}]
      /\ UNCHANGED fixes
  BY <1>1 DEF JoinReturns, Through, Back
<1>3. \A m \in Rows \ {cur[p]} : db'[m] = db[m]
  BY <1>1 DEF JoinReturns, Save, DInv, Typed, TypeOK
<1>4. db'[cur[p]].status \notin {"SCHEDULED", "UNBORN"}
  <2>1. db'[cur[p]] \in {Saved(p, cur[p], db[cur[p]], "FAILED_JOIN"),
          Saved(p, cur[p], [db[cur[p]] EXCEPT !.bot = TRUE, !.age = "fresh"], reply[p])}
    BY <1>1 DEF JoinReturns, Save, DInv, Typed, TypeOK
  <2>2. CASE reply[p] = "ERROR"
    <3>1. db'[cur[p]] = Saved(p, cur[p], db[cur[p]], "FAILED_JOIN")
      BY <1>1, <2>2 DEF JoinReturns, Save, DInv, Typed, TypeOK
    <3>2. QED
      BY <1>1, <3>1 DEF Saved, Row
  <2>3. CASE reply[p] # "ERROR"
    <3>1. db'[cur[p]] =
            Saved(p, cur[p], [db[cur[p]] EXCEPT !.bot = TRUE, !.age = "fresh"], reply[p])
      BY <1>1, <2>3 DEF JoinReturns, Save, DInv, Typed, TypeOK
    <3>2. QED
      BY <1>1, <2>3, <3>1 DEF Saved, Row
  <2>4. QED
    BY <2>2, <2>3
<1>5. Settled'
  BY <1>3, <1>4 DEF Settled, DInv
<1>6. \A q \in Procs \ {p} :
        at'[q] = at[q] /\ at[q] \notin {"recovering", "claim", "dispatch", "joining", "advance"}
  BY <1>1, <1>2 DEF OneTicker, DInv, Dispatching, Typed, TypeOK
<1>7. \A q \in Procs : fixes'[q] = NoFixes
  BY <1>1, <1>2, <1>6 DEF DInv, Dispatching
<1>8. /\ at'[p] = "dispatch"
      /\ \A m \in todo'[p] : ~db'[m].bot /\ db'[m].status \notin {"SCHEDULED", "UNBORN"}
  <2>1. todo'[p] = todo[p] \ {cur[p]} /\ todo[p] \subseteq Rows /\ at'[p] = "dispatch"
    BY <1>2 DEF DInv, Typed, TypeOK
  <2>2. QED
    BY <1>1, <1>3, <2>1 DEF DInv, Dispatching
<1>9. Dispatching'
  BY <1>1, <1>6, <1>7, <1>8 DEF Dispatching, NoFixes
<1>10. QED
  BY <1>5, <1>9

LEMMA DInvInductive ==
  ASSUME OneTicker, DInv, [Next]_vars
  PROVE  DInv'
<1>1. Typed'
  BY TypedInductive DEF DInv
<1>2. ASSUME NEW p \in Procs, Step(p) PROVE Settled' /\ Dispatching'
  BY <1>1, <1>2, CalmStepDispatch, RecoverCommitDispatch, JoinReturnsDispatch
<1>3. ASSUME NEW q \in Requests, Request(q) PROVE Settled' /\ Dispatching'
  <2>1. q \in Procs /\ q \notin Ticks
    BY LifecycleAssumption DEF LifecycleAssumption, Procs
  <2>2. Calm
    BY <1>3 DEF Request, RequestRefresh, Ask, RequestStop, Webhook, Calm
  <2>3. \A r \in Procs \ {q} :
          at'[r] = at[r] /\ fixes'[r] = fixes[r] /\ todo'[r] = todo[r] /\ cur'[r] = cur[r]
    BY <1>3 DEF Request, RequestRefresh, Ask, RequestStop, Load, Webhook, DInv, Typed, TypeOK
  <2>4. /\ at[q] = "idle" /\ UNCHANGED fixes
        /\ at'[q] \in {"polled", "stopping", "mark"}
    BY <1>3, <2>1
    DEF Request, RequestRefresh, Ask, RequestStop, Load, Webhook, DInv, Typed, TypeOK,
          Starts
  <2>5. fixes'[q] = NoFixes
    BY <2>1, <2>4 DEF DInv, Dispatching
  <2>6. \A m \in Rows : fixes'[q][m] # "SCHEDULED"
    BY <2>5 DEF NoFixes
  <2>7. QED
    BY <1>1, <2>1, <2>2, <2>3, <2>4, <2>5, <2>6, OthersDispatch
<1>4. ASSUME NEW m \in Rows, Insert(m) PROVE Settled' /\ Dispatching'
  <2>1. \A n \in Rows : /\ db'[n].bot = db[n].bot
                        /\ n # m => db'[n] = db[n]
    BY <1>4 DEF Insert, DInv, Typed, TypeOK, Row
  <2>2. db[m].status = "UNBORN" /\ ~db[m].bot
    BY <1>4 DEF Insert, DInv, Settled, Typed, TypeOK, Row
  <2>3. UNCHANGED <<at, todo, cur, fixes>>
    BY <1>4 DEF Insert, local
  <2>4. Settled'
    BY <2>1, <2>2 DEF DInv, Settled
  <2>5. \A p \in Procs : todo[p] \subseteq Rows
    BY DEF DInv, Typed, TypeOK
  <2>6. Dispatching'
    BY <2>1, <2>2, <2>3, <2>5 DEF DInv, Dispatching
  <2>7. QED
    BY <2>4, <2>6
<1>5. ASSUME NEW m \in Rows, TimePasses(m) PROVE Settled' /\ Dispatching'
  <2>1. UNCHANGED <<at, todo, cur, fixes>>
    BY <1>5 DEF TimePasses, local
  <2>2. \A p \in Procs : todo[p] \subseteq Rows
    BY DEF DInv, Typed, TypeOK
  <2>3. QED
    BY <1>5, <2>1, <2>2, TimeKeeps DEF DInv, Settled, Dispatching
<1>6. ASSUME Crash PROVE Settled' /\ Dispatching'
  BY <1>6 DEF Crash, NoFixes, DInv, Settled, Dispatching, Rests
<1>7. ASSUME (\E r \in Rooms : Vexa(r)) \/ UNCHANGED vars
      PROVE  Settled' /\ Dispatching'
  BY <1>7
  DEF Vexa, Admitted, Refused, CallEnds, BotMoves, local, vars, DInv, Settled, Dispatching
<1>8. QED
  BY <1>1, <1>2, <1>3, <1>4, <1>5, <1>6, <1>7 DEF DInv, Next

LEMMA DInvInitial == ASSUME Init PROVE DInv
BY TypedInitial, RowsInitial, LifecycleAssumption
DEF LifecycleAssumption, Init, DInv, Settled, Dispatching, NoFixes

-----------------------------------------------------------------------------
(* One dispatch for each row, however many tick *)

\* p has claimed m and not had its bot yet.
Pending(p, m) == at[p] \in {"dispatch", "joining"} /\ m \in todo[p]

\* A claim that never got old is one process's until the join returns.
Owned(m) ==
  /\ db[m].claim # "old"
  /\ db[m].status \in {"SCHEDULED", "UNBORN"} =>
       ~db[m].bot /\ \A p \in Procs : ~Pending(p, m)
  /\ \A p \in Procs :
       /\ fixes[p][m] # "SCHEDULED"
       /\ Pending(p, m) => ~db[m].bot /\ \A q \in Procs : Pending(q, m) => p = q

AtWork == \A p \in Procs : at[p] = "joining" => cur[p] \in todo[p]

TInv == Typed /\ AtWork /\ \A m \in Rows \ late : Owned(m)

\* A row keeps its owner when nobody new has it and it is not taken back.
LEMMA OwnedKept ==
  ASSUME NEW m \in Rows, Owned(m), db'[m].bot = db[m].bot, db'[m].claim # "old",
         db'[m].status \in {"SCHEDULED", "UNBORN"} => db[m].status \in {"SCHEDULED", "UNBORN"},
         \A p \in Procs : /\ fixes'[p][m] # "SCHEDULED"
                          /\ Pending(p, m)' => Pending(p, m)
  PROVE  Owned(m)'
<1>1. /\ db'[m].status \in {"SCHEDULED", "UNBORN"} =>
           ~db[m].bot /\ \A p \in Procs : ~Pending(p, m)
      /\ \A p \in Procs : Pending(p, m) => ~db[m].bot /\ \A q \in Procs : Pending(q, m) => p = q
  BY DEF Owned
<1>2. /\ db'[m].status \in {"SCHEDULED", "UNBORN"} =>
           ~db'[m].bot /\ \A p \in Procs : ~Pending(p, m)'
      /\ \A p \in Procs : Pending(p, m)' =>
           ~db'[m].bot /\ \A q \in Procs : Pending(q, m)' => p = q
  BY <1>1, Zenon
<1>3. QED
  BY <1>2 DEF Owned

\* What the steps that select no row to dispatch leave of the claims.
LEMMA PendingKept ==
  ASSUME Typed, AtWork, NEW p \in Procs, Step(p), ~Claim(p)
  PROVE  /\ AtWork'
         /\ \A q \in Procs, m \in Rows : Pending(q, m)' => Pending(q, m)
<1>a. at \in [Procs -> Places] /\ todo \in [Procs -> SUBSET Rows] /\ cur \in [Procs -> Rows \cup {None}]
  BY DEF Typed, TypeOK
<1>b. \A q \in Procs \ {p} : at'[q] = at[q] /\ todo'[q] = todo[q] /\ cur'[q] = cur[q]
  <2>1. CASE RecoverRead(p) \/ RecoverCommit(p) \/ SelectActive(p) \/ SelectPending(p)
             \/ TickEnds(p)
    BY <1>a, <2>1 DEF RecoverRead, RecoverCommit, SelectActive, SelectPending, TickEnds
  <2>2. CASE Join(p) \/ Poll(p) \/ FinalizeBegins(p) \/ Mark(p)
    BY <1>a, <2>2 DEF Join, Poll, Ask, FinalizeBegins, Mark, Load
  <2>3. CASE JoinReturns(p) \/ Reconcile(p) \/ Stop(p) \/ FinalizeEnds(p)
    BY <1>a, <2>3 DEF JoinReturns, Reconcile, Stop, FinalizeEnds, Through
  <2>4. QED
    BY <2>1, <2>2, <2>3 DEF Step
<1>1. ASSUME at'[p] \notin {"dispatch", "joining"}
      PROVE  AtWork' /\ \A q \in Procs, m \in Rows : Pending(q, m)' => Pending(q, m)
  BY <1>b, <1>1 DEF AtWork, Pending
<1>2. CASE Join(p)
  <2>1. at[p] = "dispatch" /\ cur'[p] \in todo[p] /\ todo'[p] = todo[p]
    BY <1>a, <1>2 DEF Join, Load
  <2>2. QED
    BY <1>b, <2>1 DEF AtWork, Pending
<1>3. CASE JoinReturns(p)
  <2>1. at[p] = "joining" /\ at'[p] # "joining" /\ todo'[p] \subseteq todo[p]
    BY <1>a, <1>3 DEF JoinReturns, Through, Back
  <2>2. QED
    BY <1>b, <2>1 DEF AtWork, Pending
<1>4. CASE RecoverRead(p) \/ RecoverCommit(p) \/ SelectActive(p) \/ SelectPending(p)
           \/ TickEnds(p)
  <2>1. at'[p] \notin {"dispatch", "joining"}
    BY <1>a, <1>4 DEF RecoverRead, RecoverCommit, SelectActive, SelectPending, TickEnds,
          Rests, Starts
  <2>2. QED
    BY <1>1, <2>1
<1>5. CASE Poll(p) \/ Mark(p) \/ FinalizeBegins(p)
  <2>1. at'[p] \notin {"dispatch", "joining"}
    BY <1>a, <1>5 DEF Poll, Ask, Mark, FinalizeBegins, Load
  <2>2. QED
    BY <1>1, <2>1
<1>6. CASE Reconcile(p) \/ Stop(p) \/ FinalizeEnds(p)
  <2>1. Through(p) /\ at[p] # "joining" => at'[p] \notin {"dispatch", "joining"}
    BY <1>a DEF Through, Back
  <2>2. at'[p] \notin {"dispatch", "joining"}
    BY <1>a, <1>6, <2>1 DEF Reconcile, Stop, FinalizeEnds
  <2>3. QED
    BY <1>1, <2>2
<1>7. QED
  BY <1>2, <1>3, <1>4, <1>5, <1>6 DEF Step

LEMMA ClaimOwned ==
  ASSUME TInv, NEW p \in Procs, Claim(p)
  PROVE  AtWork' /\ \A m \in Rows \ late : Owned(m)'
<1>a. /\ at \in [Procs -> Places] /\ todo \in [Procs -> SUBSET Rows] /\ db \in [Rows -> Row]
      /\ at[p] = "claim" /\ at' = [at EXCEPT ![p] = "dispatch"] /\ UNCHANGED <<cur, fixes>>
  BY DEF TInv, Typed, TypeOK, Claim
<1>1. \A q \in Procs \ {p} : at'[q] = at[q] /\ todo'[q] = todo[q]
  BY <1>a DEF Claim
<1>2. AtWork'
  BY <1>a, <1>1 DEF TInv, AtWork
<1>3. ASSUME NEW m \in Rows \ late PROVE Owned(m)'
  <2>1. Owned(m) /\ db[m] \in Row /\ ~Pending(p, m)
    BY <1>a DEF TInv, Pending
  <2>2. CASE m \notin todo'[p]
    <3>1. db'[m] \in {db[m],
                     [db[m] EXCEPT !.status = "CANCELLED", !.claim = "none"]}
      BY <1>a, <2>2 DEF Claim
    <3>2. /\ db'[m].bot = db[m].bot
          /\ \/ db'[m] = db[m]
             \/ db'[m].status = "CANCELLED" /\ db'[m].claim = "none"
      BY <2>1, <3>1 DEF Row
    <3>3. \A q \in Procs : Pending(q, m)' => Pending(q, m)
      BY <1>1, <2>2 DEF Pending
    <3>4. QED
      BY <1>a, <2>1, <3>2, <3>3, OwnedKept DEF Owned
  <2>3. CASE m \in todo'[p]
    <3>1. /\ db[m].status = "SCHEDULED"
          /\ db'[m] = [db[m] EXCEPT !.status = "JOINING", !.claim = "fresh"]
      BY <1>a, <2>3 DEF Claim
    <3>2. db'[m].status = "JOINING" /\ db'[m].claim = "fresh" /\ ~db'[m].bot
      BY <2>1, <3>1 DEF Row, Owned
    <3>3. \A q \in Procs \ {p} : ~Pending(q, m)'
      BY <1>1, <2>1, <3>1 DEF Owned, Pending
    <3>4. QED
      BY <1>a, <2>1, <3>2, <3>3 DEF Owned
  <2>4. QED
    BY <2>2, <2>3
<1>4. QED
  BY <1>2, <1>3

LEMMA JoinReturnsOwned ==
  ASSUME TInv, NEW p \in Procs, JoinReturns(p)
  PROVE  \A m \in Rows \ late : Owned(m)'
<1>a. /\ at \in [Procs -> Places] /\ todo \in [Procs -> SUBSET Rows] /\ db \in [Rows -> Row]
      /\ at[p] = "joining" /\ cur[p] \in todo[p] /\ cur[p] \in Rows
      /\ todo' = [todo EXCEPT ![p] = @ \ {cur[p]}] /\ UNCHANGED fixes
      /\ reply[p] \in {"JOINING", "ACTIVE", "ERROR"}
  BY DEF TInv, Typed, TypeOK, Working, AtWork, JoinReturns, Through
<1>1. \A q \in Procs, m \in Rows : Pending(q, m)' => Pending(q, m)
  BY PendingKept DEF TInv, Step, JoinReturns, Claim
<1>2. ASSUME NEW m \in Rows \ late, m # cur[p] PROVE Owned(m)'
  <2>1. db'[m] = db[m] /\ Owned(m)
    BY <1>a, <1>2 DEF JoinReturns, Save, TInv
  <2>2. QED
    BY <1>a, <1>1, <2>1, OwnedKept DEF Owned
<1>3. ASSUME NEW m \in Rows \ late, m = cur[p] PROVE Owned(m)'
  <2> DEFINE joined == [db[m] EXCEPT !.bot = TRUE, !.age = "fresh"]
  <2>1. Owned(m) /\ Pending(p, m) /\ db[m] \in Row
    BY <1>a, <1>3 DEF TInv, Pending
  <2>2. db[m].status \notin {"SCHEDULED", "UNBORN"}
    BY <2>1 DEF Owned
  <2>3. db'[m] \in {Saved(p, m, db[m], "FAILED_JOIN"), Saved(p, m, joined, reply[p])}
        /\ (reply[p] = "ERROR" => db'[m] = Saved(p, m, db[m], "FAILED_JOIN"))
    BY <1>a, <1>3 DEF JoinReturns, Save
  <2>4. db'[m].status \notin {"SCHEDULED", "UNBORN"} /\ db'[m].claim = db[m].claim
    <3>1. CASE reply[p] = "ERROR"
      BY <2>1, <2>2, <2>3, <3>1 DEF Saved, Row
    <3>2. CASE reply[p] # "ERROR"
      BY <1>a, <2>1, <2>2, <2>3, <3>2 DEF Saved, Row
    <3>3. QED
      BY <3>1, <3>2
  <2>5. \A q \in Procs : ~Pending(q, m)'
    <3>1. ~Pending(p, m)'
      BY <1>a, <1>3 DEF Pending
    <3>2. QED
      BY <1>1, <2>1, <3>1 DEF Owned
  <2>6. QED
    BY <1>a, <2>1, <2>4, <2>5 DEF Owned
<1>4. QED
  BY <1>2, <1>3

LEMMA RecoverOwned ==
  ASSUME TInv, NEW p \in Procs, RecoverRead(p) \/ RecoverCommit(p)
  PROVE  \A m \in Rows \ late : Owned(m)'
<1>1. \A q \in Procs, m \in Rows : Pending(q, m)' => Pending(q, m)
  BY PendingKept DEF TInv, Step, RecoverRead, RecoverCommit, Claim, Rests, Starts
<1>2. SUFFICES ASSUME NEW m \in Rows \ late PROVE Owned(m)'
  OBVIOUS
<1>3. Owned(m) /\ db[m] \in Row /\ fixes \in [Procs -> [Rows -> Statuses]]
  BY DEF TInv, Typed, TypeOK
<1>4. CASE RecoverRead(p)
  <2>1. UNCHANGED db /\ fixes' = [fixes EXCEPT ![p] = [n \in Rows |-> Fix(db[n])]]
    BY <1>4 DEF RecoverRead
  <2>2. Fix(db[m]) # "SCHEDULED"
    BY <1>3 DEF Fix, Owned
  <2>3. \A q \in Procs : fixes'[q][m] # "SCHEDULED"
    BY <1>3, <2>1, <2>2 DEF Owned
  <2>4. QED
    BY <1>1, <1>3, <2>1, <2>3, OwnedKept DEF Owned
<1>5. CASE RecoverCommit(p)
  <2>1. db'[m] = db[m] \/ db'[m] = Fixed(db[m], fixes[p][m])
    BY <1>5 DEF RecoverCommit
  <2>2. /\ db'[m].bot = db[m].bot /\ db'[m].claim = db[m].claim
        /\ db'[m].status = db[m].status \/ db'[m].status \notin {"SCHEDULED", "UNBORN"}
    BY <1>3, <2>1 DEF Fixed, Ended, Row, Owned
  <2>3. \A q \in Procs : fixes'[q][m] # "SCHEDULED"
    BY <1>3, <1>5 DEF RecoverCommit, NoFixes, Owned
  <2>4. QED
    BY <1>1, <1>3, <2>2, <2>3, OwnedKept DEF Owned
<1>6. QED
  BY <1>4, <1>5

LEMMA TInvInductive == ASSUME TInv, [Next]_vars PROVE TInv'
<1>1. Typed'
  BY TypedInductive DEF TInv
<1>t. /\ db \in [Rows -> Row] /\ at \in [Procs -> Places]
      /\ todo \in [Procs -> SUBSET Rows] /\ cur \in [Procs -> Rows \cup {None}]
  BY DEF TInv, Typed, TypeOK
<1>2. ASSUME NEW p \in Procs, Step(p) PROVE AtWork' /\ \A m \in Rows \ late' : Owned(m)'
  <2>1. UNCHANGED late
    BY <1>2
    DEF Step, RecoverRead, RecoverCommit, Claim, Join, JoinReturns, SelectActive, Poll, Ask,
        Reconcile, Stop, Mark, SelectPending, FinalizeBegins, FinalizeEnds, TickEnds
  <2>2. CASE Claim(p)
    BY <2>1, <2>2, ClaimOwned
  <2>3. ASSUME ~Claim(p) PROVE AtWork'
    BY <1>2, <2>3, PendingKept DEF TInv
  <2>4. CASE JoinReturns(p) \/ RecoverRead(p) \/ RecoverCommit(p)
    BY <2>1, <2>3, <2>4, JoinReturnsOwned, RecoverOwned
    DEF JoinReturns, RecoverRead, RecoverCommit, Claim, Rests, Starts
  <2>5. CASE ~Claim(p) /\ ~JoinReturns(p) /\ ~RecoverRead(p) /\ ~RecoverCommit(p)
    <3>1. Calm
      BY <1>2, <2>5, CalmSteps DEF TInv
    <3>2. UNCHANGED fixes
      BY <1>2, <2>5
      DEF Step, Join, SelectActive, Poll, Ask, Reconcile, Stop, Mark, SelectPending,
          FinalizeBegins, FinalizeEnds, TickEnds
    <3>3. \A q \in Procs, m \in Rows : Pending(q, m)' => Pending(q, m)
      BY <1>2, <2>5, PendingKept DEF TInv
    <3>4. ASSUME NEW m \in Rows \ late PROVE Owned(m)'
      BY <3>1, <3>2, <3>3, OwnedKept DEF TInv, Owned, Calm
    <3>5. QED
      BY <2>1, <2>3, <2>5, <3>4
  <2>6. QED
    BY <2>2, <2>4, <2>5
<1>3. ASSUME NEW q \in Requests, Request(q) PROVE AtWork' /\ \A m \in Rows \ late' : Owned(m)'
  <2>1. q \in Procs
    BY DEF Procs
  <2>2. UNCHANGED <<db, fixes, late>>
    BY <1>3 DEF Request, RequestRefresh, Ask, RequestStop, Webhook
  <2>3. /\ at'[q] \in {"polled", "stopping", "mark"}
        /\ \A r \in Procs \ {q} : at'[r] = at[r] /\ todo'[r] = todo[r] /\ cur'[r] = cur[r]
    BY <1>t, <1>3, <2>1 DEF Request, RequestRefresh, Ask, RequestStop, Load, Webhook
  <2>4. AtWork' /\ \A r \in Procs, m \in Rows : Pending(r, m)' => Pending(r, m)
    BY <2>3 DEF TInv, AtWork, Pending
  <2>5. QED
    BY <2>2, <2>4, OwnedKept DEF TInv, Owned
<1>4. ASSUME UNCHANGED <<at, todo, cur, fixes>>, NEW m \in Rows,
             \A n \in Rows \ {m} : db'[n] = db[n],
             late \subseteq late',
             db'[m].bot = db[m].bot,
             db'[m].claim = "old" => db[m].claim = "old" \/ m \in late',
             db'[m].status \in {"SCHEDULED", "UNBORN"} =>
               db[m].status \in {"SCHEDULED", "UNBORN"}
      PROVE  AtWork' /\ \A n \in Rows \ late' : Owned(n)'
  <2>1. AtWork' /\ \A r \in Procs, n \in Rows : Pending(r, n)' => Pending(r, n)
    BY <1>4 DEF TInv, AtWork, Pending
  <2>2. ASSUME NEW n \in Rows \ late' PROVE Owned(n)'
    BY <1>4, <2>1, <2>2, OwnedKept DEF TInv, Owned
  <2>3. QED
    BY <2>1, <2>2
<1>5. ASSUME NEW m \in Rows, Insert(m) PROVE AtWork' /\ \A n \in Rows \ late' : Owned(n)'
  <2>1. /\ db' = [db EXCEPT ![m].status = "SCHEDULED"] /\ db[m].status = "UNBORN"
        /\ UNCHANGED <<at, todo, cur, fixes, late>>
    BY <1>5 DEF Insert, local
  <2>2. /\ \A n \in Rows \ {m} : db'[n] = db[n]
        /\ db'[m].bot = db[m].bot /\ db'[m].claim = db[m].claim
    BY <1>t, <2>1 DEF Row
  <2>3. QED
    BY <1>4, <2>1, <2>2
<1>6. ASSUME NEW m \in Rows, TimePasses(m) PROVE AtWork' /\ \A n \in Rows \ late' : Owned(n)'
  <2>1. /\ UNCHANGED <<at, todo, cur, fixes>>
        /\ late' = IF db'[m].claim = "old" THEN late \cup {m} ELSE late
        /\ \A n \in Rows \ {m} : db'[n] = db[n]
    BY <1>t, <1>6 DEF TimePasses, local
  <2>2. db'[m].bot = db[m].bot /\ db'[m].status = db[m].status
    BY <1>6, TimeKeeps DEF TInv
  <2>3. QED
    BY <1>4, <2>1, <2>2
<1>7. ASSUME Crash PROVE AtWork' /\ \A n \in Rows \ late' : Owned(n)'
  <2>1. /\ UNCHANGED <<db, late>>
        /\ \A p \in Procs : /\ at'[p] \in {"idle", "done"}
                            /\ fixes'[p] = NoFixes
    BY <1>7 DEF Crash, Rests
  <2>2. QED
    BY <2>1, OwnedKept DEF TInv, AtWork, Pending, Owned, NoFixes
<1>8. ASSUME (\E r \in Rooms : Vexa(r)) \/ UNCHANGED vars
      PROVE  AtWork' /\ \A n \in Rows \ late' : Owned(n)'
  <2>1. UNCHANGED <<db, late, at, todo, cur, fixes>>
    BY <1>8 DEF Vexa, Admitted, Refused, CallEnds, BotMoves, local, vars
  <2>2. QED
    BY <2>1 DEF TInv, AtWork, Pending, Owned
<1>9. QED
  BY <1>1, <1>2, <1>3, <1>5, <1>6, <1>7, <1>8 DEF TInv, Next

(* However many processes run tick(), and whatever restarts, stops,          *)
(* refreshes and webhooks do, a row whose claims got their answer within     *)
(* _CLAIM_TIMEOUT gets one bot: two _claim_dues never take the same row, and *)
(* nothing but recover_stale's verdict on an old claim lets a second process *)
(* in. That it does is the run MeetingLifecycleTwice.                        *)
THEOREM OneDispatch == Spec => []DispatchedInTime
<1>1. Init => TInv
  <2>1. Init => AtWork /\ \A m \in Rows, p \in Procs : ~Pending(p, m) /\ fixes[p][m] = "UNBORN"
    BY DEF Init, AtWork, Pending, NoFixes
  <2>2. QED
    BY <2>1, TypedInitial, RowsInitial DEF TInv, Owned
<1>2. TInv /\ [Next]_vars => TInv'
  BY TInvInductive
<1>3. TInv => DispatchedInTime
  BY DEF TInv, AtWork, Owned, Pending, DispatchedInTime, OneJoin, Joins
<1>4. QED
  BY <1>1, <1>2, <1>3, PTL DEF Spec
-----------------------------------------------------------------------------
(* The loop by itself *)

\* Nobody calls: one process ticks, and there is no stop, refresh or webhook.
LoopAlone == OneTicker /\ Kinds = {}

Quiet == \A q \in Requests : at[q] = "idle"

Early == {"UNBORN", "SCHEDULED", "JOINING", "ACTIVE"}

\* A row was born after all rows with smaller ids, and when none of its code
\* was in flight any more.
InOrder ==
  \A m, n \in Rows : m < n /\ db[n].status # "UNBORN" =>
    /\ db[m].status # "UNBORN"
    /\ RoomOf[m] = RoomOf[n] => db[m].status \notin InFlight

\* What a tick knows of the rows it has selected.
Knows(p) ==
  /\ at[p] # "mark"
  /\ \A m \in Rows :
       /\ fixes[p][m] # "UNBORN" => db[m].status \in InFlight
       /\ fixes[p][m] = "PROCESSING" => db[m].age = "old"
       /\ fixes[p][m] = "FAILED_JOIN" => ~db[m].bot
  /\ at[p] \in {"dispatch", "joining"} => \A m \in todo[p] : db[m].status = "JOINING"
  /\ at[p] \in {"advance", "polled", "stopping"} => \A m \in todo[p] : Followed(m)
  /\ at[p] \in {"joining", "polled", "stopping"} =>
       cur[p] \in todo[p] /\ mem[p] = db[cur[p]].status
  /\ at[p] = "polled" =>
       \/ reply[p] \in {"JOINING", "ACTIVE", "ERROR"}
       \/ bots[RoomOf[cur[p]]] \notin LiveBot \cup {"leaving"}
  /\ at[p] \in {"process", "finalizing"} => \A m \in todo[p] : db[m].status \notin Early
  /\ at[p] = "finalizing" => mem[p] \notin Early /\ db[cur[p]].status \notin Early

Known == InOrder /\ YoungBotIsFollowed /\ \A p \in Ticks : Knows(p)

AInv == DInv /\ OneInFlight /\ FixesOne /\ Quiet /\ Known

\* No row is born, unborn, or put in flight again.
Shrinks ==
  \A m \in Rows :
    /\ db'[m].status \in InFlight => db[m].status \in InFlight
    /\ db'[m].status = "UNBORN" <=> db[m].status = "UNBORN"

\* A young bot in a call that is followed stays followed, or is not in a call.
StillFollowed ==
  \A m \in Rows : InCall(m)' /\ db'[m].age = "fresh" =>
    \/ Followed(m)'
    \/ InCall(m) /\ db[m].age = "fresh" /\ ~Followed(m)

LEMMA KnownKept ==
  ASSUME Known, Shrinks, StillFollowed, \A p \in Ticks : Knows(p)'
  PROVE  Known' /\ Shrinks
<1>1. InOrder'
  BY DEF Known, InOrder, Shrinks
<1>2. YoungBotIsFollowed'
  BY DEF Known, YoungBotIsFollowed, StillFollowed
<1>3. QED
  BY <1>1, <1>2 DEF Known

\* With the row written, a session that is up to date writes what it means to.
LEMMA SavedFresh ==
  ASSUME TypeOK, OneInFlight, NEW p \in Procs, NEW m \in Rows, NEW row \in Row,
         NEW s \in Statuses, db[m].status \in InFlight, mem[p] = db[m].status
  PROVE  /\ IndexAllows(m, s)
         /\ Saved(p, m, row, s) = [row EXCEPT !.status = s]
BY DEF TypeOK, OneInFlight, IndexAllows, Saved

\* Only row m is written, and the bots stay as they are.
LEMMA OneRowFollowed ==
  ASSUME Typed, NEW m \in Rows, NEW new \in Row, db' = [db EXCEPT ![m] = new],
         UNCHANGED <<bots, stopAsked>>, db[m].status # "UNBORN", new.status # "UNBORN",
         new.status \in InFlight => db[m].status \in InFlight,
         \/ new.status \in {"JOINING", "ACTIVE"}
         \/ ~new.bot
         \/ bots[RoomOf[m]] \notin LiveBot
         \/ new.bot = db[m].bot /\ new.age = db[m].age /\ ~Followed(m)
  PROVE  Shrinks /\ StillFollowed
<1>1. \A n \in Rows : db'[n] = IF n = m THEN new ELSE db[n]
  BY DEF Typed, TypeOK
<1>2. Shrinks
  BY <1>1 DEF Shrinks
<1>3. Born' = Born
  BY <1>1 DEF Born
<1>4. ASSUME NEW n \in Rows, InCall(n)', db'[n].age = "fresh", ~Followed(n)'
      PROVE  InCall(n) /\ db[n].age = "fresh" /\ ~Followed(n)
  <2>1. /\ db'[n].bot /\ bots[RoomOf[n]] \in LiveBot
        /\ db[n].bot => InCall(n)
    BY <1>3, <1>4 DEF InCall
  <2>2. db'[n].status \notin {"JOINING", "ACTIVE"}
    BY <1>4 DEF Followed
  <2>3. CASE n # m
    BY <1>1, <1>4, <2>1, <2>2, <2>3 DEF Followed
  <2>4. CASE n = m
    <3>1. new.bot /\ bots[RoomOf[m]] \in LiveBot /\ new.status \notin {"JOINING", "ACTIVE"}
      BY <1>1, <2>1, <2>2, <2>4
    <3>2. new.bot = db[m].bot /\ new.age = db[m].age /\ ~Followed(m)
      BY <3>1
    <3>3. QED
      BY <1>1, <1>4, <2>1, <2>4, <3>1, <3>2
  <2>5. QED
    BY <2>3, <2>4
<1>5. QED
  BY <1>2, <1>4 DEF StillFollowed

LEMMA SweepKnown ==
  ASSUME OneTicker, AInv, Typed', NEW p \in Ticks, RecoverRead(p) \/ RecoverCommit(p) \/ Claim(p)
  PROVE  Known' /\ Shrinks
<1>1. p \in Procs /\ \A q \in Ticks : q = p
  BY DEF Procs, OneTicker
<1>2. CASE RecoverRead(p)
  <2>1. Shrinks /\ StillFollowed
    BY <1>2 DEF RecoverRead, Shrinks, StillFollowed, InCall, Followed, Born
  <2>2. at'[p] = "recovering" /\ \A m \in Rows : fixes'[p][m] = Fix(db[m])
    BY <1>1, <1>2 DEF RecoverRead, AInv, DInv, Typed, TypeOK
  <2>3. Knows(p)'
    BY <1>2, <2>2 DEF RecoverRead, Knows, Fix, InFlight
  <2>4. QED
    BY <1>1, <2>1, <2>3, KnownKept DEF AInv
<1>3. CASE RecoverCommit(p)
  <2>1. at'[p] \in {"claim", "idle", "done"} /\ fixes'[p] = NoFixes
    BY <1>1, <1>3 DEF RecoverCommit, AInv, DInv, Typed, TypeOK, Rests
  <2>2. Knows(p)'
    BY <2>1 DEF Knows, NoFixes
  <2>3. ASSUME NEW m \in Rows
        PROVE  /\ db'[m].bot = db[m].bot /\ db'[m].age = db[m].age
               /\ db'[m].status \in InFlight => db[m].status \in InFlight
               /\ db'[m].status = "UNBORN" <=> db[m].status = "UNBORN"
               /\ \/ db'[m].status = db[m].status
                  \/ ~db[m].bot
                  \/ db[m].age = "old"
    <3>1. db[m] \in Row
      BY DEF AInv, DInv, Typed, TypeOK
    <3>2. Knows(p) /\ fixes[p][m] = "SCHEDULED" => ~db[m].bot
      BY <1>1 DEF AInv, Known, DInv, Dispatching
    <3>3. CASE db'[m] = db[m]
      BY <3>3
    <3>4. CASE db'[m] = Fixed(db[m], fixes[p][m])
      <4>1. /\ db'[m].bot = db[m].bot /\ db'[m].age = db[m].age
            /\ \/ db'[m].status = db[m].status
               \/ /\ db'[m].status = fixes[p][m]
                  /\ fixes[p][m] \in {"SCHEDULED", "PROCESSING", "FAILED_JOIN"}
        BY <3>1, <3>4 DEF Fixed, Ended, Row
      <4>2. QED
        BY <1>1, <3>2, <4>1 DEF Knows, AInv, Known, InFlight
    <3>5. QED
      BY <1>3, <3>3, <3>4 DEF RecoverCommit
  <2>4. Born' = Born /\ UNCHANGED <<bots, stopAsked>>
    BY <1>3, <2>3 DEF Born, RecoverCommit
  <2>5. Shrinks
    BY <2>3 DEF Shrinks
  <2>6. StillFollowed
    BY <2>3, <2>4 DEF StillFollowed, InCall, Followed
  <2>7. QED
    BY <1>1, <2>2, <2>5, <2>6, KnownKept DEF AInv
<1>4. CASE Claim(p)
  <2>1. at'[p] = "dispatch" /\ fixes'[p] = fixes[p] /\ at[p] = "claim"
    BY <1>1, <1>4 DEF Claim, AInv, DInv, Typed, TypeOK
  <2>2. ASSUME NEW m \in Rows
        PROVE  /\ db'[m].bot = db[m].bot /\ db'[m].age = db[m].age
               /\ \/ db'[m].status = db[m].status /\ m \notin todo'[p]
                  \/ /\ db[m].status = "SCHEDULED" /\ ~db[m].bot
                     /\ db'[m].status \in {"JOINING", "CANCELLED"}
                     /\ m \in todo'[p] => db'[m].status = "JOINING"
    <3> DEFINE due == {n \in Rows : db[n].status = "SCHEDULED" /\ db[n].window = "due"}
               first(k) == \A n \in due : RoomOf[n] = RoomOf[k] => k <= n
    <3>1. db[m] \in Row /\ (m \in due => ~db[m].bot)
      BY DEF AInv, DInv, Settled, Typed, TypeOK
    <3>2. todo'[p] = {n \in due : first(n)}
      BY <1>1, <1>4 DEF Claim, AInv, DInv, Typed, TypeOK
    <3>3. db'[m] = IF m \notin due THEN db[m]
                   ELSE IF first(m)
                     THEN [db[m] EXCEPT !.status = "JOINING", !.claim = "fresh"]
                     ELSE [db[m] EXCEPT !.status = "CANCELLED", !.claim = "none"]
      BY <1>4 DEF Claim
    <3>4. m \in due => db[m].status = "SCHEDULED"
      OBVIOUS
    <3> HIDE DEF due, first
    <3>5. m \notin due => m \notin todo'[p]
      BY <3>2
    <3>6. m \in todo'[p] => first(m)
      BY <3>2
    <3>7. QED
      BY <3>1, <3>3, <3>4, <3>5, <3>6 DEF Row
  <2>3. Shrinks
    BY <2>2 DEF Shrinks, InFlight
  <2>4. Born' = Born /\ UNCHANGED <<bots, stopAsked>>
    BY <1>4, <2>2 DEF Born, Claim
  <2>5. StillFollowed
    BY <2>2, <2>4 DEF StillFollowed, InCall, Followed
  <2>6. Knows(p)'
    <3>1. \A m \in Rows : fixes'[p][m] = "UNBORN"
      BY <1>1, <2>1 DEF AInv, DInv, Dispatching, NoFixes
    <3>2. \A m \in todo'[p] : db'[m].status = "JOINING"
      BY <1>1, <2>2 DEF Typed, TypeOK
    <3>3. QED
      BY <2>1, <3>1, <3>2 DEF Knows
  <2>7. QED
    BY <1>1, <2>3, <2>5, <2>6, KnownKept DEF AInv
<1>5. QED
  BY <1>2, <1>3, <1>4

\* What a tick knows once it is through with the one row it has written.
LEMMA ThroughKnows ==
  ASSUME AInv, NEW p \in Ticks, p \in Procs, Through(p), UNCHANGED fixes, Shrinks,
         at[p] \in {"joining", "polled", "stopping", "finalizing"},
         \A k \in Rows \ {cur[p]} : db'[k] = db[k],
         fixes[p] = NoFixes
  PROVE  Knows(p)'
<1>1. p \notin Requests
  BY LifecycleAssumption DEF LifecycleAssumption
<1>2. /\ at'[p] = Back(p) /\ todo'[p] = todo[p] \ {cur[p]} /\ fixes'[p] = NoFixes
      /\ todo[p] \subseteq Rows
  BY DEF Through, AInv, DInv, Typed, TypeOK
<1>3. \A k \in todo'[p] : k \in todo[p] /\ db'[k] = db[k]
  BY <1>2
<1>4. Knows(p)
  BY DEF AInv, Known
<1>5. CASE at[p] = "joining"
  BY <1>1, <1>2, <1>3, <1>4, <1>5 DEF Back, Knows, NoFixes
<1>6. CASE at[p] \in {"polled", "stopping"}
  <2>1. at'[p] = "advance"
    BY <1>1, <1>2, <1>6 DEF Back
  <2>2. \A k \in todo'[p] : db'[k].status \in {"JOINING", "ACTIVE"}
    BY <1>3, <1>4, <1>6 DEF Knows, Followed
  <2>3. QED
    BY <1>2, <2>1, <2>2 DEF Knows, NoFixes, Followed
<1>7. CASE at[p] = "finalizing"
  <2>1. at'[p] = "process"
    BY <1>1, <1>2, <1>7 DEF Back
  <2>2. \A k \in todo'[p] : db'[k].status \notin Early
    BY <1>3, <1>4, <1>7 DEF Knows
  <2>3. QED
    BY <1>2, <2>1, <2>2 DEF Knows, NoFixes
<1>8. QED
  BY <1>5, <1>6, <1>7

LEMMA JoinKnown ==
  ASSUME OneTicker, AInv, NEW p \in Ticks, Join(p)
  PROVE  Known' /\ Shrinks
<1>1. p \in Procs /\ \A q \in Ticks : q = p
  BY DEF Procs, OneTicker
<1>2. PICK m \in todo[p], r \in Rooms :
        /\ r = RoomOf[m] /\ Load(p, m, "joining")
        /\ bots' \in {bots, [bots EXCEPT ![r] = "joining"]}
        /\ stopAsked' \in {stopAsked, stopAsked \ {r}}
  BY DEF Join, AInv, DInv, Typed, TypeOK
<1>3. at[p] = "dispatch" /\ UNCHANGED <<db, todo, fixes>>
  BY DEF Join
<1>4. m \in Rows /\ todo[p] \subseteq Rows /\ ~db[m].bot /\ db[m].status = "JOINING"
  BY <1>1, <1>3 DEF AInv, DInv, Dispatching, Known, Knows, Typed, TypeOK
<1>5. Shrinks
  BY <1>3 DEF Shrinks
<1>6. ASSUME NEW n \in Rows, InCall(n)', RoomOf[n] = r PROVE FALSE
  <2>1. n \in Born /\ db[n].bot
    <3>1. db[n].bot
      BY <1>3, <1>6 DEF InCall
    <3>2. db[n].status # "UNBORN"
      BY <3>1 DEF AInv, DInv, Settled
    <3>3. QED
      BY <3>1, <3>2 DEF Born
  <2>2. m \in Born
    BY <1>4 DEF Born
  <2>3. m <= n
    BY <1>2, <1>3, <1>6, <2>2 DEF InCall, Born
  <2>4. m # n /\ m \in Nat /\ n \in Nat
    BY <1>4, <2>1, LifecycleAssumption DEF LifecycleAssumption
  <2>5. m < n
    BY <2>3, <2>4
  <2>6. db[m].status \notin InFlight
    BY <1>2, <1>4, <1>6, <2>1, <2>5 DEF AInv, Known, InOrder, Born
  <2>7. QED
    BY <1>4, <2>6 DEF InFlight
<1>7. ASSUME NEW n \in Rows, InCall(n)', RoomOf[n] # r PROVE InCall(n)
  <2>1. bots'[RoomOf[n]] = bots[RoomOf[n]]
    BY <1>2, <1>7, LifecycleAssumption DEF LifecycleAssumption, AInv, DInv, Typed, TypeOK
  <2>2. RoomOf[n] \notin stopAsked' => RoomOf[n] \notin stopAsked
    BY <1>2, <1>7
  <2>3. QED
    BY <1>3, <1>7, <2>1, <2>2 DEF InCall, Born
<1>8. StillFollowed
  BY <1>3, <1>6, <1>7 DEF StillFollowed, Followed
<1>9. Knows(p)'
  <2>1. /\ at'[p] = "joining" /\ cur'[p] = m /\ mem'[p] = db[m].status
    BY <1>1, <1>2 DEF Load, AInv, DInv, Typed, TypeOK
  <2>2. fixes[p] = NoFixes
    BY <1>1, <1>3 DEF AInv, DInv, Dispatching
  <2>3. \A k \in todo[p] : db[k].status = "JOINING"
    BY <1>3 DEF AInv, Known, Knows
  <2>4. QED
    BY <1>2, <1>3, <2>1, <2>2, <2>3 DEF Knows, NoFixes
<1>10. QED
  BY <1>1, <1>5, <1>8, <1>9, KnownKept DEF AInv

LEMMA JoinReturnsKnown ==
  ASSUME OneTicker, AInv, NEW p \in Ticks, JoinReturns(p)
  PROVE  Known' /\ Shrinks
<1>1. p \in Procs /\ \A q \in Ticks : q = p
  BY DEF Procs, OneTicker
<1>2. /\ at[p] = "joining" /\ cur[p] \in Rows /\ db[cur[p]] \in Row
      /\ mem[p] = "JOINING" /\ db[cur[p]].status = "JOINING" /\ ~db[cur[p]].bot
      /\ reply[p] \in {"JOINING", "ACTIVE", "ERROR"}
  BY <1>1 DEF JoinReturns, AInv, DInv, Dispatching, Known, Knows, Typed, TypeOK, Working
<1>3. PICK row \in Row, s \in Statuses :
        /\ db' = [db EXCEPT ![cur[p]] = Saved(p, cur[p], row, s)]
        /\ \/ s = "FAILED_JOIN" /\ row = db[cur[p]]
           \/ s \in {"JOINING", "ACTIVE"}
  <2>1. [db[cur[p]] EXCEPT !.bot = TRUE, !.age = "fresh"] \in Row
    BY <1>2 DEF Row
  <2>2. {"JOINING", "ACTIVE", "FAILED_JOIN"} \subseteq Statuses
    BY DEF Statuses, InFlight, Over
  <2>3. QED
    BY <1>2, <2>1, <2>2 DEF JoinReturns, Save
<1>4. Saved(p, cur[p], row, s) = [row EXCEPT !.status = s]
  BY <1>1, <1>2, SavedFresh DEF AInv, DInv, Typed, InFlight
<1> DEFINE new == [row EXCEPT !.status = s]
<1>5. new \in Row /\ new.status = s /\ (s = "FAILED_JOIN" => ~new.bot)
  BY <1>2, <1>3, StatusType DEF Row
<1>6. db' = [db EXCEPT ![cur[p]] = new]
  BY <1>3, <1>4
<1> HIDE DEF new
<1>7. Shrinks /\ StillFollowed
  <2>1. UNCHANGED <<bots, stopAsked>>
    BY DEF JoinReturns
  <2>2. s \in {"FAILED_JOIN", "JOINING", "ACTIVE"}
    BY <1>3
  <2>3. QED
    BY <1>2, <1>5, <1>6, <2>1, <2>2, OneRowFollowed DEF AInv, DInv, InFlight
<1>8. Knows(p)'
  <2>1. \A k \in Rows \ {cur[p]} : db'[k] = db[k]
    BY <1>6 DEF AInv, DInv, Typed, TypeOK
  <2>2. fixes[p] = NoFixes
    BY <1>1, <1>2 DEF AInv, DInv, Dispatching
  <2>3. QED
    BY <1>1, <1>2, <1>7, <2>1, <2>2, ThroughKnows DEF JoinReturns
<1>9. QED
  BY <1>1, <1>7, <1>8, KnownKept DEF AInv

LEMMA FollowKnown ==
  ASSUME OneTicker, AInv, NEW p \in Ticks, SelectActive(p) \/ Poll(p)
  PROVE  Known' /\ Shrinks
<1>1. p \in Procs /\ \A q \in Ticks : q = p
  BY DEF Procs, OneTicker
<1>2. UNCHANGED <<db, bots, fixes, stopAsked>>
  BY DEF SelectActive, Poll, Ask
<1>3. Shrinks /\ StillFollowed
  BY <1>2 DEF Shrinks, StillFollowed, InCall, Followed, Born
<1>4. fixes[p] = NoFixes
  BY <1>1 DEF SelectActive, Poll, AInv, DInv, Dispatching
<1>5. CASE SelectActive(p)
  <2>1. at'[p] = "advance" /\ todo'[p] \subseteq {m \in Rows : db[m].status \in {"JOINING", "ACTIVE"}}
    BY <1>1, <1>5 DEF SelectActive, AInv, DInv, Typed, TypeOK
  <2>2. Knows(p)'
    BY <1>2, <1>4, <2>1 DEF Knows, NoFixes, Followed
  <2>3. QED
    BY <1>1, <1>3, <2>2, KnownKept DEF AInv
<1>6. CASE Poll(p)
  <2>1. PICK m \in todo[p] : Ask(p, m)
    BY <1>6 DEF Poll
  <2>2. /\ at'[p] = "polled" /\ cur'[p] = m /\ mem'[p] = db[m].status /\ todo' = todo
        /\ \A k \in todo[p] : Followed(k)
    BY <1>1, <1>6, <2>1 DEF Poll, Ask, Load, AInv, Known, Knows, DInv, Typed, TypeOK
  <2>3. \/ reply'[p] \in {"JOINING", "ACTIVE", "ERROR"}
        \/ bots[RoomOf[m]] \notin LiveBot \cup {"leaving"}
    BY <1>1, <2>1 DEF Ask, Reports, LiveBot, AInv, DInv, Typed, TypeOK
  <2>4. Knows(p)'
    BY <1>2, <1>4, <2>1, <2>2, <2>3 DEF Knows, NoFixes, Followed
  <2>5. QED
    BY <1>1, <1>3, <2>4, KnownKept DEF AInv
<1>7. QED
  BY <1>5, <1>6

LEMMA ReconcileKnown ==
  ASSUME OneTicker, AInv, NEW p \in Ticks, Reconcile(p)
  PROVE  Known' /\ Shrinks
<1>1. p \in Procs /\ \A q \in Ticks : q = p
  BY DEF Procs, OneTicker
<1>2. /\ at[p] = "polled" /\ cur[p] \in Rows /\ cur[p] \in todo[p] /\ db[cur[p]] \in Row
      /\ mem[p] = db[cur[p]].status /\ mem[p] \in {"JOINING", "ACTIVE"}
      /\ reply[p] \in {"JOINING", "ACTIVE", "PROCESSING", "FAILED_JOIN", "GONE", "ERROR"}
      /\ \/ reply[p] \in {"JOINING", "ACTIVE", "ERROR"}
         \/ bots[RoomOf[cur[p]]] \notin LiveBot
  BY <1>1
  DEF Reconcile, AInv, DInv, Known, Knows, Followed, Typed, TypeOK, Working
<1> DEFINE m == cur[p]
           s == Reconciled(mem[p], reply[p])
           row == IF reply[p] = "GONE" /\ s # mem[p] THEN Ended(db[m]) ELSE db[m]
           new == IF reply[p] = "ERROR" THEN db[m] ELSE Saved(p, m, row, s)
<1>3. row \in Row
  BY <1>2, EndedType
<1>4. /\ new \in Row
      /\ new.status \in {"JOINING", "ACTIVE", "PROCESSING", "FAILED_JOIN"}
      /\ \/ new.status \in {"JOINING", "ACTIVE"}
         \/ bots[RoomOf[m]] \notin LiveBot
  <2>1. CASE reply[p] = "ERROR"
    BY <1>2, <2>1
  <2>2. CASE reply[p] # "ERROR"
    <3>1. /\ s \in {"JOINING", "ACTIVE", "PROCESSING", "FAILED_JOIN"}
          /\ s \in Statuses
          /\ s \in {"JOINING", "ACTIVE"} \/ bots[RoomOf[m]] \notin LiveBot
      BY <1>2, <2>2 DEF Reconciled, Statuses, InFlight, Over
    <3> HIDE DEF s, row
    <3>2. Saved(p, m, row, s) = [row EXCEPT !.status = s]
      BY <1>1, <1>2, <1>3, <3>1, SavedFresh DEF AInv, DInv, Typed, InFlight
    <3>3. [row EXCEPT !.status = s] \in Row /\ [row EXCEPT !.status = s].status = s
      BY <1>3, <3>1, StatusType DEF Row
    <3>4. QED
      BY <2>2, <3>1, <3>2, <3>3
  <2>3. QED
    BY <2>1, <2>2
<1>5. db' = [db EXCEPT ![m] = new] /\ UNCHANGED <<bots, stopAsked, fixes>>
  BY DEF Reconcile
<1>6. \/ Through(p)
      \/ /\ new.status \in {"JOINING", "ACTIVE"}
         /\ at' = [at EXCEPT ![p] = "stopping"]
         /\ mem' = [mem EXCEPT ![p] = new.status]
         /\ UNCHANGED <<todo, cur>>
  BY DEF Reconcile
<1> HIDE DEF new
<1>7. Shrinks /\ StillFollowed
  BY <1>2, <1>4, <1>5, OneRowFollowed DEF AInv, DInv, InFlight
<1>8. \A k \in Rows : db'[k] = IF k = m THEN new ELSE db[k]
  BY <1>5 DEF AInv, DInv, Typed, TypeOK
<1>9. fixes[p] = NoFixes
  BY <1>1, <1>2 DEF AInv, DInv, Dispatching
<1>10. Knows(p)'
  <2>1. CASE Through(p)
    BY <1>1, <1>2, <1>5, <1>7, <1>8, <1>9, <2>1, ThroughKnows
  <2>2. CASE ~Through(p)
    <3>1. /\ at'[p] = "stopping" /\ mem'[p] = new.status /\ cur'[p] = m /\ todo'[p] = todo[p]
          /\ new.status \in {"JOINING", "ACTIVE"}
      BY <1>1, <1>6, <2>2 DEF AInv, DInv, Typed, TypeOK
    <3>2. \A k \in todo[p] : k \in Rows /\ db[k].status \in {"JOINING", "ACTIVE"}
      BY <1>1, <1>2 DEF AInv, Known, Knows, Followed, DInv, Typed, TypeOK
    <3>3. \A k \in todo[p] : db'[k].status \in {"JOINING", "ACTIVE"}
      BY <1>8, <3>1, <3>2
    <3>4. mem'[p] = db'[cur'[p]].status /\ cur'[p] \in todo'[p]
      BY <1>2, <1>8, <3>1
    <3>5. QED
      BY <1>5, <1>9, <3>1, <3>3, <3>4 DEF Knows, NoFixes, Followed
  <2>3. QED
    BY <2>1, <2>2
<1>11. QED
  BY <1>1, <1>7, <1>10, KnownKept DEF AInv

LEMMA StopKnown ==
  ASSUME OneTicker, AInv, NEW p \in Ticks, Stop(p)
  PROVE  Known' /\ Shrinks
<1>1. p \in Procs /\ \A q \in Ticks : q = p
  BY DEF Procs, OneTicker
<1>2. /\ at[p] = "stopping" /\ cur[p] \in Rows /\ cur[p] \in todo[p] /\ db[cur[p]] \in Row
      /\ mem[p] = db[cur[p]].status /\ mem[p] \in {"JOINING", "ACTIVE"}
  BY <1>1 DEF Stop, AInv, DInv, Known, Knows, Followed, Typed, TypeOK, Working
<1> DEFINE new == [Ended(db[cur[p]]) EXCEPT !.status = "PROCESSING"]
<1>3. Ended(db[cur[p]]) \in Row /\ "PROCESSING" \in Statuses
  BY <1>2, EndedType DEF Statuses, InFlight
<1>4. db' = [db EXCEPT ![cur[p]] = new]
  BY <1>1, <1>2, <1>3, SavedFresh DEF Stop, EndCall, Save, AInv, DInv, Typed, InFlight
<1>5. new.status = "PROCESSING"
  BY <1>3 DEF Row
<1> HIDE DEF new
<1>6. \A k \in Rows : db'[k] = IF k = cur[p] THEN new ELSE db[k]
  BY <1>4 DEF AInv, DInv, Typed, TypeOK
<1>7. Shrinks /\ Born' = Born
  BY <1>2, <1>5, <1>6 DEF Shrinks, Born, InFlight
<1>8. stopAsked' = stopAsked \cup {RoomOf[cur[p]]} /\ UNCHANGED fixes
  BY DEF Stop
<1>9. \A r \in Rooms : bots'[r] \in LiveBot => bots[r] \in LiveBot
  BY DEF Stop, LiveBot, AInv, DInv, Typed, TypeOK
<1>10. ASSUME NEW n \in Rows, InCall(n)' PROVE n # cur[p] /\ db'[n] = db[n] /\ InCall(n)
  <2>1. RoomOf[n] # RoomOf[cur[p]]
    BY <1>8, <1>10 DEF InCall
  <2>2. RoomOf[n] \in Rooms
    BY LifecycleAssumption DEF LifecycleAssumption
  <2>3. QED
    BY <1>6, <1>7, <1>8, <1>9, <1>10, <2>1, <2>2 DEF InCall
<1>11. StillFollowed
  BY <1>10 DEF StillFollowed, Followed
<1>12. Knows(p)'
  <2>1. fixes[p] = NoFixes
    BY <1>1, <1>2 DEF AInv, DInv, Dispatching
  <2>2. QED
    BY <1>1, <1>2, <1>6, <1>7, <1>8, <2>1, ThroughKnows DEF Stop
<1>13. QED
  BY <1>1, <1>7, <1>11, <1>12, KnownKept DEF AInv

LEMMA ProcessKnown ==
  ASSUME OneTicker, AInv, NEW p \in Ticks,
         SelectPending(p) \/ FinalizeBegins(p) \/ FinalizeEnds(p) \/ TickEnds(p)
  PROVE  Known' /\ Shrinks
<1>1. p \in Procs /\ p \notin Requests /\ \A q \in Ticks : q = p
  BY LifecycleAssumption DEF LifecycleAssumption, Procs, OneTicker
<1>2. fixes[p] = NoFixes /\ UNCHANGED <<fixes, bots, stopAsked>>
  BY <1>1 DEF SelectPending, FinalizeBegins, FinalizeEnds, TickEnds, AInv, DInv, Dispatching
<1>3. CASE SelectPending(p) \/ FinalizeBegins(p) \/ TickEnds(p)
  <2>1. UNCHANGED db
    BY <1>3 DEF SelectPending, FinalizeBegins, TickEnds
  <2>2. Shrinks /\ StillFollowed
    BY <1>2, <2>1 DEF Shrinks, StillFollowed, InCall, Followed, Born
  <2>3. CASE SelectPending(p)
    <3>1. /\ at'[p] = "process"
          /\ \A m \in todo'[p] : db[m].status \in {"PROCESSING", "EMAIL_FAILED"}
      BY <1>1, <2>3 DEF SelectPending, AInv, DInv, Typed, TypeOK
    <3>2. Knows(p)'
      BY <1>2, <2>1, <3>1 DEF Knows, NoFixes, Early
    <3>3. QED
      BY <1>1, <2>2, <3>2, KnownKept DEF AInv
  <2>4. CASE FinalizeBegins(p)
    <3>1. PICK m \in todo[p] :
            \/ at'[p] = "process" /\ todo'[p] \subseteq todo[p]
            \/ /\ at'[p] = "finalizing" /\ cur'[p] = m /\ mem'[p] = db[m].status
               /\ todo'[p] = todo[p]
      BY <1>1, <2>4 DEF FinalizeBegins, Load, AInv, DInv, Typed, TypeOK
    <3>2. \A k \in todo[p] : db[k].status \notin Early
      BY <2>4 DEF FinalizeBegins, AInv, Known, Knows
    <3>3. Knows(p)'
      BY <1>2, <2>1, <3>1, <3>2 DEF Knows, NoFixes
    <3>4. QED
      BY <1>1, <2>2, <3>3, KnownKept DEF AInv
  <2>5. CASE TickEnds(p)
    <3>1. at'[p] \in {"idle", "done"}
      BY <1>1, <2>5 DEF TickEnds, AInv, DInv, Typed, TypeOK, Rests
    <3>2. Knows(p)'
      BY <1>2, <3>1 DEF Knows, NoFixes
    <3>3. QED
      BY <1>1, <2>2, <3>2, KnownKept DEF AInv
  <2>6. QED
    BY <1>3, <2>3, <2>4, <2>5
<1>4. CASE FinalizeEnds(p)
  <2>1. /\ at[p] = "finalizing" /\ cur[p] \in Rows /\ db[cur[p]] \in Row
        /\ db[cur[p]].status \notin Early
    BY <1>1, <1>4 DEF FinalizeEnds, AInv, DInv, Known, Knows, Typed, TypeOK, Working
  <2> DEFINE tried == [db[cur[p]] EXCEPT !.tries = IF @ < MaxTries THEN @ + 1 ELSE @]
  <2>2. /\ tried \in Row /\ tried.bot = db[cur[p]].bot /\ tried.age = db[cur[p]].age
        /\ tried.status = db[cur[p]].status
    BY <2>1, LifecycleAssumption DEF LifecycleAssumption, Row
  <2> HIDE DEF tried
  <2>3. \/ UNCHANGED db
        \/ \E row \in {db[cur[p]], tried}, s \in {"FAILED_ANALYSIS", "COMPLETED", "EMAIL_FAILED"} :
             db' = [db EXCEPT ![cur[p]] = Saved(p, cur[p], row, s)]
    BY <1>4 DEF FinalizeEnds, Save, tried
  <2>4. /\ Shrinks /\ StillFollowed
        /\ \A k \in Rows \ {cur[p]} : db'[k] = db[k]
    <3>1. CASE UNCHANGED db
      BY <1>2, <3>1 DEF Shrinks, StillFollowed, InCall, Followed, Born
    <3>2. ASSUME NEW row \in {db[cur[p]], tried},
                 NEW s \in {"FAILED_ANALYSIS", "COMPLETED", "EMAIL_FAILED"},
                 db' = [db EXCEPT ![cur[p]] = Saved(p, cur[p], row, s)]
          PROVE  /\ Shrinks /\ StillFollowed
                 /\ \A k \in Rows \ {cur[p]} : db'[k] = db[k]
      <4> DEFINE new == Saved(p, cur[p], row, s)
      <4>1. row \in Row /\ row.bot = db[cur[p]].bot /\ row.age = db[cur[p]].age
        BY <2>1, <2>2
      <4>2. s \in Statuses
        BY DEF Statuses, Over
      <4>3. new \in Row
        BY <1>1, <2>1, <4>1, <4>2, SavedType DEF AInv, DInv, Typed
      <4>4. /\ new.bot = db[cur[p]].bot /\ new.age = db[cur[p]].age
            /\ new.status \in {db[cur[p]].status, s}
        BY <2>1, <4>1 DEF Saved, Row
      <4> HIDE DEF new
      <4>5. /\ ~Followed(cur[p]) /\ db[cur[p]].status # "UNBORN" /\ new.status # "UNBORN"
            /\ new.status \in InFlight => db[cur[p]].status \in InFlight
        BY <2>1, <4>4 DEF Followed, Early, InFlight
      <4>6. db' = [db EXCEPT ![cur[p]] = new]
        BY <3>2 DEF new
      <4>7. Shrinks /\ StillFollowed
        BY <1>2, <2>1, <4>3, <4>4, <4>5, <4>6, OneRowFollowed DEF AInv, DInv
      <4>8. QED
        BY <4>6, <4>7 DEF AInv, DInv, Typed, TypeOK
    <3>3. QED
      BY <2>3, <3>1, <3>2
  <2>5. Knows(p)'
    BY <1>1, <1>2, <1>4, <2>1, <2>4, ThroughKnows DEF FinalizeEnds
  <2>6. QED
    BY <1>1, <2>4, <2>5, KnownKept DEF AInv
<1>5. QED
  BY <1>3, <1>4

LEMMA InsertKnown ==
  ASSUME AInv, NEW m \in Rows, Insert(m)
  PROVE  Known'
<1>1. /\ db[m].status = "UNBORN" /\ ~db[m].bot /\ IndexAllows(m, "SCHEDULED")
      /\ \A n \in Rows : n < m => db[n].status # "UNBORN"
  BY DEF Insert, AInv, DInv, Settled
<1>2. \A n \in Rows : /\ db'[n].bot = db[n].bot /\ db'[n].age = db[n].age
                      /\ db'[n].status = IF n = m THEN "SCHEDULED" ELSE db[n].status
  BY DEF Insert, AInv, DInv, Typed, TypeOK, Row
<1>3. UNCHANGED <<bots, at, todo, cur, mem, reply, fixes, stopAsked>>
  BY DEF Insert, local
<1>4. InOrder'
  <2>1. ASSUME NEW k \in Rows, NEW n \in Rows, k < n, db'[n].status # "UNBORN"
        PROVE  /\ db'[k].status # "UNBORN"
               /\ RoomOf[k] = RoomOf[n] => db'[k].status \notin InFlight
    <3>1. k # n
      BY <2>1, LifecycleAssumption DEF LifecycleAssumption
    <3>2. CASE n = m
      BY <1>1, <1>2, <2>1, <3>1, <3>2 DEF IndexAllows, InFlight
    <3>3. CASE n # m
      <4>1. db[n].status # "UNBORN" /\ db[k].status # "UNBORN"
        BY <1>2, <2>1, <3>3 DEF AInv, Known, InOrder
      <4>2. QED
        BY <1>1, <1>2, <2>1, <4>1 DEF AInv, Known, InOrder
    <3>4. QED
      BY <3>2, <3>3
  <2>2. QED
    BY <2>1 DEF InOrder
<1>5. YoungBotIsFollowed'
  <2>1. ASSUME NEW n \in Rows, InCall(n)', db'[n].age = "fresh"
        PROVE  Followed(n)'
    <3>1. n # m /\ db[n].age = "fresh"
      BY <1>1, <1>2, <2>1 DEF InCall
    <3>2. Born \subseteq Born'
      BY <1>2 DEF Born
    <3>3. InCall(n)
      BY <1>2, <1>3, <2>1, <3>2 DEF InCall
    <3>4. QED
      BY <1>2, <3>1, <3>3 DEF AInv, Known, YoungBotIsFollowed, Followed
  <2>2. QED
    BY <2>1 DEF YoungBotIsFollowed
<1>6. ASSUME NEW p \in Ticks PROVE Knows(p)'
  <2>1. Knows(p) /\ todo[p] \subseteq Rows
    BY DEF AInv, Known, DInv, Typed, TypeOK, Procs
  <2>2. at[p] = "finalizing" => cur[p] \in Rows
    BY DEF AInv, DInv, Typed, Working, Procs
  <2>3. \A n \in Rows : db'[n].status # db[n].status => db[n].status = "UNBORN" /\ n = m
    BY <1>1, <1>2
  <2>4. fixes[p][m] = "UNBORN"
    BY <1>1, <2>1 DEF Knows, InFlight
  <2>5. /\ at'[p] # "mark"
        /\ \A n \in Rows :
             /\ fixes'[p][n] # "UNBORN" => db'[n].status \in InFlight
             /\ fixes'[p][n] = "PROCESSING" => db'[n].age = "old"
             /\ fixes'[p][n] = "FAILED_JOIN" => ~db'[n].bot
    BY <1>2, <1>3, <2>1, <2>4 DEF Knows
  <2>6. /\ at[p] \in {"dispatch", "joining"} => \A n \in todo[p] : db'[n].status = "JOINING"
        /\ at[p] \in {"advance", "polled", "stopping"} =>
             \A n \in todo[p] : db'[n].status \in {"JOINING", "ACTIVE"}
        /\ at[p] \in {"process", "finalizing"} => \A n \in todo[p] : db'[n].status \notin Early
        /\ at[p] = "finalizing" => mem[p] \notin Early /\ db'[cur[p]].status \notin Early
    BY <2>1, <2>2, <2>3 DEF Knows, Followed, Early
  <2>7. at[p] \in {"joining", "polled", "stopping"} =>
          cur[p] \in todo[p] /\ mem[p] = db'[cur[p]].status
    BY <1>1, <2>1, <2>3 DEF Knows, Followed
  <2>8. at[p] = "polled" =>
          \/ reply[p] \in {"JOINING", "ACTIVE", "ERROR"}
          \/ bots[RoomOf[cur[p]]] \notin LiveBot \cup {"leaving"}
    BY <2>1 DEF Knows
  <2>9. QED
    BY <1>3, <2>5, <2>6, <2>7, <2>8 DEF Knows, Followed
<1>7. QED
  BY <1>4, <1>5, <1>6 DEF Known

LEMMA TimeKnown ==
  ASSUME AInv, NEW m \in Rows, TimePasses(m)
  PROVE  Known' /\ Shrinks
<1>1. \A n \in Rows : db'[n].status = db[n].status /\ db'[n].bot = db[n].bot
  BY TimeKeeps DEF AInv, DInv
<1>2. \A n \in Rows : db'[n].age = db[n].age \/ db'[n].age = "old"
  <2>1. \A n \in Rows \ {m} : db'[n] = db[n]
    BY DEF TimePasses, AInv, DInv, Typed, TypeOK
  <2>2. db[m] \in Row /\ db \in [Rows -> Row]
    BY DEF AInv, DInv, Typed, TypeOK
  <2>3. db'[m] \in {[db[m] EXCEPT !.window = IF @ = "early" THEN "due" ELSE "missed"],
                   [db[m] EXCEPT !.claim = "old"],
                   [db[m] EXCEPT !.age = "old"],
                   [db[m] EXCEPT !.end = "past"]}
    BY <2>2 DEF TimePasses
  <2>4. db'[m].age = db[m].age \/ db'[m].age = "old"
    BY <2>2, <2>3 DEF Row
  <2>5. QED
    BY <2>1, <2>4
<1>3. UNCHANGED <<bots, at, todo, cur, mem, reply, fixes, stopAsked>>
  BY DEF TimePasses, local
<1>4. Shrinks
  BY <1>1 DEF Shrinks
<1>5. Born' = Born
  BY <1>1 DEF Born
<1>6. StillFollowed
  BY <1>1, <1>2, <1>3, <1>5 DEF StillFollowed, InCall, Followed
<1>7. ASSUME NEW p \in Ticks PROVE Knows(p)'
  <2>1. Knows(p) /\ todo[p] \subseteq Rows
    BY DEF AInv, Known, DInv, Typed, TypeOK, Procs
  <2>2. at[p] = "finalizing" => cur[p] \in Rows
    BY DEF AInv, DInv, Typed, Working, Procs
  <2>3. QED
    BY <1>1, <1>2, <1>3, <2>1, <2>2 DEF Knows, Followed
<1>8. QED
  BY <1>4, <1>6, <1>7, KnownKept DEF AInv

LEMMA VexaKnown ==
  ASSUME AInv, NEW r \in Rooms, Vexa(r)
  PROVE  Known' /\ Shrinks
<1>1. UNCHANGED <<db, at, todo, cur, mem, reply, fixes, stopAsked>>
  BY DEF Vexa, Admitted, Refused, CallEnds, BotMoves, local
<1>2. \A q \in Rooms : /\ bots'[q] \in LiveBot => bots[q] \in LiveBot
                       /\ bots[q] \notin LiveBot \cup {"leaving"} => bots'[q] = bots[q]
  BY DEF Vexa, Admitted, Refused, CallEnds, BotMoves, LiveBot, AInv, DInv, Typed, TypeOK
<1>3. \A n \in Rows : RoomOf[n] \in Rooms
  BY LifecycleAssumption DEF LifecycleAssumption
<1>4. Shrinks /\ StillFollowed
  BY <1>1, <1>2, <1>3 DEF Shrinks, StillFollowed, InCall, Followed, Born
<1>5. ASSUME NEW p \in Ticks PROVE Knows(p)'
  <2>1. Knows(p) /\ (at[p] = "polled" => cur[p] \in Rows)
    BY DEF AInv, Known, DInv, Typed, Working, Procs
  <2>2. QED
    BY <1>1, <1>2, <1>3, <2>1 DEF Knows, Followed
<1>6. QED
  BY <1>4, <1>5, KnownKept DEF AInv

LEMMA AInvInductive ==
  ASSUME LoopAlone, AInv, [Next]_vars
  PROVE  AInv' /\ (Shrinks \/ \E m \in Rows : Insert(m))
<1>1. DInv' /\ OneInFlight' /\ FixesOne'
  BY DInvInductive, OneInFlightInductive, FixesOneInductive DEF LoopAlone, AInv, DInv
<1>2. ASSUME NEW p \in Procs, Step(p) PROVE (Quiet /\ Known)' /\ Shrinks
  <2>1. p \in Ticks
    BY <1>2
    DEF Step, RecoverRead, RecoverCommit, Claim, Join, JoinReturns, SelectActive, Poll,
        Reconcile, Stop, Mark, SelectPending, FinalizeBegins, FinalizeEnds, TickEnds,
        AInv, Quiet, Procs
  <2>2. \A q \in Procs \ {p} : at'[q] = at[q]
    BY <1>2
    DEF Step, RecoverRead, RecoverCommit, Claim, Join, JoinReturns, SelectActive, Poll, Ask,
        Load, Reconcile, Through, Stop, Mark, SelectPending, FinalizeBegins, FinalizeEnds,
        TickEnds, AInv, DInv, Typed, TypeOK
  <2>3. Quiet'
    BY <2>1, <2>2, LifecycleAssumption DEF LifecycleAssumption, AInv, Quiet, Procs
  <2>4. ~Mark(p)
    BY <2>1 DEF Mark, AInv, Known, Knows
  <2>5. Known' /\ Shrinks
    BY <1>1, <1>2, <2>1, <2>4, SweepKnown, JoinKnown, JoinReturnsKnown, FollowKnown,
       ReconcileKnown, StopKnown, ProcessKnown
    DEF Step, LoopAlone, DInv
  <2>6. QED
    BY <2>3, <2>5
<1>3. ASSUME NEW q \in Requests, Request(q) PROVE FALSE
  BY <1>3 DEF LoopAlone, Request, RequestRefresh, RequestStop, Webhook
<1>4. ASSUME NEW m \in Rows, Insert(m) \/ TimePasses(m)
      PROVE  (Quiet /\ Known)' /\ (Shrinks \/ Insert(m))
  <2>1. Quiet'
    BY <1>4 DEF Insert, TimePasses, local, AInv, Quiet
  <2>2. QED
    BY <1>4, <2>1, InsertKnown, TimeKnown
<1>5. ASSUME NEW r \in Rooms, Vexa(r) PROVE (Quiet /\ Known)' /\ Shrinks
  <2>1. Quiet'
    BY <1>5 DEF Vexa, Admitted, Refused, CallEnds, BotMoves, local, AInv, Quiet
  <2>2. QED
    BY <1>5, <2>1, VexaKnown
<1>6. ASSUME Crash PROVE (Quiet /\ Known)' /\ Shrinks
  <2>1. Quiet'
    BY <1>6, LifecycleAssumption DEF LifecycleAssumption, Crash, AInv, Quiet, Procs
  <2>2. Shrinks /\ StillFollowed
    BY <1>6 DEF Crash, Shrinks, StillFollowed, InCall, Followed, Born
  <2>3. \A p \in Ticks : at'[p] \in {"idle", "done"} /\ fixes'[p] = NoFixes
    BY <1>6 DEF Crash, Procs, Rests
  <2>4. ASSUME NEW p \in Ticks PROVE Knows(p)'
    BY <2>3 DEF Knows, NoFixes
  <2>5. QED
    BY <2>1, <2>2, <2>4, KnownKept DEF AInv
<1>7. ASSUME UNCHANGED vars PROVE (Quiet /\ Known)' /\ Shrinks
  <2>1. Quiet' /\ Shrinks /\ StillFollowed
    BY <1>7 DEF vars, local, AInv, Quiet, Shrinks, StillFollowed, InCall, Followed, Born
  <2>2. ASSUME NEW p \in Ticks PROVE Knows(p)'
    <3>1. Knows(p)
      BY DEF AInv, Known
    <3>2. QED
      BY <1>7, <3>1 DEF vars, local, Knows, Followed
  <2>3. QED
    BY <2>1, <2>2, KnownKept DEF AInv
<1>8. QED
  BY <1>1, <1>2, <1>3, <1>4, <1>5, <1>6, <1>7 DEF AInv, Next

LEMMA AloneAlways == ASSUME LoopAlone PROVE Spec => []AInv
<1>1. Init => AInv
  <2>1. Init => DInv
    BY DInvInitial
  <2>i. Init => OneInFlight /\ FixesOne /\ Quiet
    BY RowsInitial DEF Init, NoFixes, OneInFlight, FixesOne, InFlight, Quiet, Procs
  <2>2. Init => InOrder /\ YoungBotIsFollowed /\ \A p \in Ticks : Knows(p)
    BY RowsInitial DEF Init, InOrder, YoungBotIsFollowed, InCall, Knows, NoFixes, Procs
  <2>3. QED
    BY <2>1, <2>i, <2>2 DEF AInv, Known
<1>2. AInv /\ [Next]_vars => AInv'
  BY AInvInductive
<1>3. QED
  BY <1>1, <1>2, PTL DEF Spec

(* A bot in a call is never lost while the loop works by itself: whatever    *)
(* Vexa answers or fails to answer, and wherever a restart strikes, its row  *)
(* stays with advance_active until the bot was told to leave or has been out *)
(* for _ACTIVE_TIMEOUT.                                                      *)
THEOREM YoungBotsAreFollowed == ASSUME LoopAlone PROVE Spec => []YoungBotIsFollowed
<1>1. AInv => YoungBotIsFollowed
  BY DEF AInv, Known
<1>2. QED
  BY <1>1, AloneAlways, PTL

-----------------------------------------------------------------------------
(* What the table promises *)

LEMMA HoldingIs ==
  /\ Holding("UNBORN") = "free"
  /\ \A s \in InFlight : Holding(s) = "held"
  /\ \A s \in Over : Holding(s) = "over"
BY DEF Holding, InFlight, Over

LEMMA SlotsStep ==
  ASSUME LoopAlone, AInv, [Next]_vars
  PROVE  [Slots!SlotsNext]_slot
<1>1. AInv' /\ (Shrinks \/ \E m \in Rows : Insert(m))
  BY AInvInductive
<1>2. \A m \in Rows : /\ db[m].status \in {"UNBORN"} \cup InFlight \cup Over
                      /\ db'[m].status \in {"UNBORN"} \cup InFlight \cup Over
  BY <1>1 DEF AInv, DInv, Typed, TypeOK, Row, Statuses
<1>3. CASE Shrinks
  <2> DEFINE S == {m \in Rows : db[m].status \in InFlight /\ db'[m].status \in Over}
  <2>1. S \subseteq Slots!In("held")
    BY HoldingIs DEF Slots!In, slot
  <2>2. ASSUME NEW m \in Rows
        PROVE  slot'[m] = IF m \in S THEN "over" ELSE slot[m]
    BY <1>2, <1>3, HoldingIs DEF Shrinks, slot
  <2>3. slot' = [m \in Rows |-> slot'[m]]
    BY DEF slot
  <2>4. S \in SUBSET Rows
    OBVIOUS
  <2> HIDE DEF S
  <2>5. Slots!GiveUp(S)
    BY <2>1, <2>2, <2>3 DEF Slots!GiveUp, Slots!Move
  <2>6. QED
    BY <2>4, <2>5 DEF Slots!SlotsNext
<1>4. ASSUME NEW m \in Rows, Insert(m) PROVE [Slots!SlotsNext]_slot
  <2>1. /\ db[m].status = "UNBORN"
        /\ \A n \in Rows : db'[n].status = IF n = m THEN "SCHEDULED" ELSE db[n].status
    BY <1>4 DEF Insert, AInv, DInv, Typed, TypeOK, Row
  <2>2. {m} \subseteq Slots!In("free")
    BY <2>1, HoldingIs DEF Slots!In, slot
  <2>3. Holding("SCHEDULED") = "held"
    BY HoldingIs DEF InFlight
  <2>4. slot' = [n \in Rows |-> IF n \in {m} THEN "held" ELSE slot[n]]
    BY <2>1, <2>3 DEF slot
  <2>5. \A n \in Slots!In("held") : n \in Rows /\ db[n].status \in InFlight
    BY <1>2, HoldingIs DEF Slots!In, slot
  <2>6. \A n \in {m} \cup Slots!In("held") : n \in Rows /\ db'[n].status \in InFlight
    BY <2>1, <2>5 DEF InFlight
  <2>7. \A n \in {m} \cup Slots!In("held") : RoomOf[m] = RoomOf[n] => m = n
    BY <1>1, <2>6 DEF AInv, OneInFlight
  <2>8. Slots!Take({m})
    BY <2>2, <2>4, <2>7 DEF Slots!Take, Slots!Move
  <2>9. QED
    BY <2>8 DEF Slots!SlotsNext
<1>5. QED
  BY <1>1, <1>3, <1>4

(* The loop by itself is to the detectors what Detection.tla assumes of it:  *)
(* no pass, retry, late answer or restart takes a row that is over back into *)
(* flight, or a second row of its code.                                      *)
THEOREM RefinesSlots == ASSUME LoopAlone PROVE Spec => ImplementsSlots
<1>1. Init => Slots!SlotsInit
  BY HoldingIs DEF Init, slot, Slots!SlotsInit
<1>2. AInv /\ [Next]_vars => [Slots!SlotsNext]_slot
  BY SlotsStep
<1>3. QED
  BY <1>1, <1>2, AloneAlways, PTL DEF Spec, ImplementsSlots, Slots!SlotsSpec
-----------------------------------------------------------------------------
(* No row falls between the passes *)

\* The row once every deadline that is running has passed.
Aged(row) ==
  [row EXCEPT !.window = IF @ = "none" THEN @ ELSE "missed",
              !.claim = IF @ = "fresh" THEN "old" ELSE @,
              !.age = IF @ = "fresh" THEN "old" ELSE @]

\* What recover_stale never finds: an event without a start_time that waits for
\* a claim that does not come.
Hangs(row) == row.status = "SCHEDULED" /\ row.window = "none"

(* A row that waits for its call, or is in it, is in reach of recover_stale: *)
(* with time, one of its queries selects it. A row without a start_time is   *)
(* the only exception.                                                       *)
NoRowEscapes ==
  \A m \in Rows :
    db[m].status \in {"SCHEDULED", "JOINING", "ACTIVE"} =>
      Hangs(db[m]) \/ Fix(Aged(db[m])) # "UNBORN"

\* The columns by which recover_stale's queries find a row in a call.
Watched(row) ==
  /\ row.bot <=> row.age # "none"
  /\ row.status \in {"JOINING", "ACTIVE"} /\ ~row.bot =>
       row.status = "JOINING" /\ row.claim # "none"

\* Only rows with a bot are asked about.
AsksBots ==
  \A p \in Procs :
    /\ (at[p] = "advance" \/ (at[p] = "stopping" /\ p \in Ticks)) => \A m \in todo[p] : db[m].bot
    /\ at[p] = "polled" => p \in Ticks /\ db[cur[p]].bot /\ \A m \in todo[p] : db[m].bot

WInv == DInv /\ (\A m \in Rows : Watched(db[m])) /\ AsksBots

LEMMA SavedWatched ==
  ASSUME TypeOK, NEW p \in Procs, NEW m \in Rows, NEW row \in Row, NEW s \in Statuses,
         Watched(db[m]), row.bot <=> row.age # "none",
         \/ row.bot
         \/ /\ s \notin {"JOINING", "ACTIVE"}
            /\ row.bot = db[m].bot /\ row.claim = db[m].claim
  PROVE  Watched(Saved(p, m, row, s)) /\ (db[m].bot /\ row.bot => Saved(p, m, row, s).bot)
<1>1. \/ Saved(p, m, row, s) = db[m]
      \/ \E t \in {db[m].status, s} : Saved(p, m, row, s) = [row EXCEPT !.status = t]
  BY DEF Saved
<1>2. ASSUME NEW t \in {db[m].status, s}
      PROVE  Watched([row EXCEPT !.status = t]) /\ [row EXCEPT !.status = t].bot = row.bot
  <2>1. /\ [row EXCEPT !.status = t].status = t
        /\ [row EXCEPT !.status = t].bot = row.bot
        /\ [row EXCEPT !.status = t].age = row.age
        /\ [row EXCEPT !.status = t].claim = row.claim
    BY DEF Row
  <2>2. QED
    BY <2>1 DEF Watched
<1>3. QED
  BY <1>1, <1>2

\* A step of p writes rows that stay watched, and takes no bot away.
LEMMA StepWatched ==
  ASSUME WInv, NEW p \in Procs, Step(p)
  PROVE  \A m \in Rows : Watched(db'[m]) /\ (db[m].bot => db'[m].bot)
<1>t. /\ TypeOK /\ \A m \in Rows : Watched(db[m]) /\ db[m] \in Row
      /\ at[p] \in {"joining", "polled", "stopping", "mark", "finalizing"} => cur[p] \in Rows
  BY DEF WInv, DInv, Typed, TypeOK, Working
<1>s. ASSUME cur[p] \in Rows, NEW row \in Row, NEW s \in Statuses,
             row.bot <=> row.age # "none", db[cur[p]].bot => row.bot,
             \/ row.bot
             \/ /\ s \notin {"JOINING", "ACTIVE"}
                /\ row.bot = db[cur[p]].bot /\ row.claim = db[cur[p]].claim,
             db' = [db EXCEPT ![cur[p]] = Saved(p, cur[p], row, s)]
      PROVE  \A m \in Rows : Watched(db'[m]) /\ (db[m].bot => db'[m].bot)
  <2>1. Watched(Saved(p, cur[p], row, s)) /\ (db[cur[p]].bot => Saved(p, cur[p], row, s).bot)
    BY <1>t, <1>s, SavedWatched
  <2>2. \A m \in Rows : db'[m] = IF m = cur[p] THEN Saved(p, cur[p], row, s) ELSE db[m]
    BY <1>t, <1>s DEF TypeOK
  <2>3. QED
    BY <1>t, <2>1, <2>2
<1>1. CASE UNCHANGED db
  BY <1>t, <1>1
<1>2. CASE RecoverCommit(p)
  <2>1. ASSUME NEW m \in Rows, db'[m] = Fixed(db[m], fixes[p][m])
        PROVE  Watched(db'[m]) /\ db'[m].bot = db[m].bot
    <3>1. /\ db'[m].bot = db[m].bot /\ db'[m].age = db[m].age
          /\ \/ db'[m].status = db[m].status /\ db'[m].claim = db[m].claim
             \/ db'[m].status \in {"SCHEDULED", "PROCESSING", "FAILED_JOIN"}
      BY <1>t, <2>1 DEF Fixed, Ended, Row
    <3>2. QED
      BY <1>t, <3>1 DEF Watched
  <2>2. QED
    BY <1>1, <1>2, <2>1 DEF RecoverCommit
<1>3. CASE Claim(p)
  <2>1. ASSUME NEW m \in Rows
        PROVE  Watched(db'[m]) /\ db'[m].bot = db[m].bot
    <3>1. db'[m] \in {db[m],
                     [db[m] EXCEPT !.status = "JOINING", !.claim = "fresh"],
                     [db[m] EXCEPT !.status = "CANCELLED", !.claim = "none"]}
      BY <1>3 DEF Claim
    <3>2. /\ db'[m].bot = db[m].bot /\ db'[m].age = db[m].age
          /\ \/ db'[m] = db[m]
             \/ db'[m].status = "JOINING" /\ db'[m].claim = "fresh"
             \/ db'[m].status = "CANCELLED"
      BY <1>t, <3>1 DEF Row
    <3>3. QED
      BY <1>t, <3>2 DEF Watched
  <2>2. QED
    BY <2>1
<1>4. CASE JoinReturns(p)
  <2>1. /\ at[p] = "joining" /\ cur[p] \in Rows
        /\ reply[p] \in {"JOINING", "ACTIVE", "ERROR"}
    BY <1>4, <1>t DEF JoinReturns, WInv, DInv, Typed, Working
  <2> DEFINE got == [db[cur[p]] EXCEPT !.bot = TRUE, !.age = "fresh"]
  <2>2. got \in Row /\ got.bot /\ got.age = "fresh"
    BY <1>t, <2>1 DEF Row
  <2>3. {"JOINING", "ACTIVE", "FAILED_JOIN"} \subseteq Statuses
    BY DEF Statuses, InFlight, Over
  <2>4. CASE reply[p] = "ERROR"
    <3>1. db' = [db EXCEPT ![cur[p]] = Saved(p, cur[p], db[cur[p]], "FAILED_JOIN")]
      BY <1>4, <2>4 DEF JoinReturns, Save
    <3>2. QED
      BY <1>s, <1>t, <2>1, <2>3, <3>1 DEF Watched
  <2>5. CASE reply[p] # "ERROR"
    <3>1. db' = [db EXCEPT ![cur[p]] = Saved(p, cur[p], got, reply[p])]
      BY <1>4, <2>5 DEF JoinReturns, Save
    <3> HIDE DEF got
    <3>2. QED
      BY <1>s, <2>1, <2>2, <2>3, <2>5, <3>1
  <2>6. QED
    BY <2>4, <2>5
<1>5. CASE Reconcile(p)
  <2> DEFINE s == Reconciled(mem[p], reply[p])
             row == IF reply[p] = "GONE" /\ s # mem[p] THEN Ended(db[cur[p]]) ELSE db[cur[p]]
  <2>1. /\ cur[p] \in Rows /\ db[cur[p]].bot
    BY <1>5, <1>t DEF Reconcile, WInv, AsksBots
  <2>2. CASE reply[p] = "ERROR"
    BY <1>1, <1>5, <1>t, <2>1, <2>2 DEF Reconcile, TypeOK
  <2>3. CASE reply[p] # "ERROR"
    <3>1. s \in Statuses
      BY <1>5, <2>3, <1>t
      DEF Reconcile, Reconciled, WInv, DInv, Typed, TypeOK, Working, Statuses, InFlight, Over
    <3>2. row \in Row /\ row.bot /\ row.age = db[cur[p]].age
      BY <1>t, <2>1, EndedType DEF Ended, Row
    <3>3. db' = [db EXCEPT ![cur[p]] = Saved(p, cur[p], row, s)]
      BY <1>5, <2>3 DEF Reconcile
    <3>4. row.age # "none"
      BY <1>t, <2>1, <3>2 DEF Watched
    <3> HIDE DEF s, row
    <3>5. QED
      BY <1>s, <2>1, <3>1, <3>2, <3>3, <3>4
  <2>4. QED
    BY <2>2, <2>3
<1>6. CASE Stop(p) \/ Mark(p)
  <2>1. cur[p] \in Rows /\ Ended(db[cur[p]]) \in Row /\ "PROCESSING" \in Statuses
    BY <1>6, <1>t, EndedType DEF Stop, Mark, Statuses, InFlight
  <2>2. /\ Ended(db[cur[p]]).bot = db[cur[p]].bot /\ Ended(db[cur[p]]).age = db[cur[p]].age
        /\ Ended(db[cur[p]]).claim = db[cur[p]].claim
    BY <1>t, <2>1 DEF Ended, Row
  <2>3. UNCHANGED db \/ Save(p, Ended(db[cur[p]]), "PROCESSING")
    BY <1>6 DEF Stop, Mark, EndCall
  <2>4. CASE Save(p, Ended(db[cur[p]]), "PROCESSING")
    BY <1>s, <1>t, <2>1, <2>2, <2>4 DEF Save, Watched
  <2>5. QED
    BY <1>1, <2>3, <2>4
<1>7. CASE FinalizeEnds(p)
  <2> DEFINE tried == [db[cur[p]] EXCEPT !.tries = IF @ < MaxTries THEN @ + 1 ELSE @]
  <2>1. cur[p] \in Rows /\ Watched(db[cur[p]])
    BY <1>7, <1>t DEF FinalizeEnds
  <2>2. /\ tried \in Row /\ tried.bot = db[cur[p]].bot /\ tried.age = db[cur[p]].age
        /\ tried.claim = db[cur[p]].claim
    BY <1>t, <2>1, LifecycleAssumption DEF LifecycleAssumption, Row
  <2>3. \A s \in {"FAILED_ANALYSIS", "COMPLETED", "EMAIL_FAILED"} :
          s \in Statuses /\ s \notin {"JOINING", "ACTIVE"}
    BY DEF Statuses, Over
  <2>4. \/ UNCHANGED db
        \/ \E row \in {db[cur[p]], tried}, s \in {"FAILED_ANALYSIS", "COMPLETED", "EMAIL_FAILED"} :
             db' = [db EXCEPT ![cur[p]] = Saved(p, cur[p], row, s)]
    BY <1>7 DEF FinalizeEnds, Save
  <2> HIDE DEF tried
  <2>5. ASSUME NEW row \in {db[cur[p]], tried},
               NEW s \in {"FAILED_ANALYSIS", "COMPLETED", "EMAIL_FAILED"},
               db' = [db EXCEPT ![cur[p]] = Saved(p, cur[p], row, s)]
        PROVE  \A m \in Rows : Watched(db'[m]) /\ (db[m].bot => db'[m].bot)
    <3>1. /\ row \in Row /\ row.bot = db[cur[p]].bot /\ row.age = db[cur[p]].age
          /\ row.claim = db[cur[p]].claim
      BY <1>t, <2>1, <2>2
    <3>2. row.bot <=> row.age # "none"
      BY <2>1, <3>1 DEF Watched
    <3>3. QED
      BY <1>s, <2>1, <2>3, <2>5, <3>1, <3>2
  <2>6. QED
    BY <1>1, <2>4, <2>5
<1>8. CASE RecoverRead(p) \/ Join(p) \/ SelectActive(p) \/ Poll(p) \/ SelectPending(p)
           \/ FinalizeBegins(p) \/ TickEnds(p)
  BY <1>1, <1>8
  DEF RecoverRead, Join, SelectActive, Poll, Ask, SelectPending, FinalizeBegins, TickEnds
<1>9. QED
  BY <1>2, <1>3, <1>4, <1>5, <1>6, <1>7, <1>8 DEF Step

LEMMA StepAsksBots ==
  ASSUME WInv, NEW p \in Procs, Step(p)
  PROVE  AsksBots'
<1>1. \A m \in Rows : db[m].bot => db'[m].bot
  BY StepWatched
<1>2. \A q \in Procs \ {p} : at'[q] = at[q] /\ todo'[q] = todo[q] /\ cur'[q] = cur[q]
  BY DEF Step, RecoverRead, RecoverCommit, Claim, Join, JoinReturns, SelectActive, Poll, Ask,
         Load, Reconcile, Through, Stop, Mark, SelectPending, FinalizeBegins, FinalizeEnds,
         TickEnds, WInv, DInv, Typed, TypeOK
<1>3. \A q \in Procs : todo[q] \subseteq Rows /\ (at[q] = "polled" => cur[q] \in Rows)
  BY DEF WInv, DInv, Typed, TypeOK, Working
<1> DEFINE asks(q) ==
      /\ (at'[q] = "advance" \/ (at'[q] = "stopping" /\ q \in Ticks)) => \A m \in todo'[q] : db'[m].bot
      /\ at'[q] = "polled" => q \in Ticks /\ db'[cur'[q]].bot /\ \A m \in todo'[q] : db'[m].bot
<1>4. ASSUME NEW q \in Procs \ {p} PROVE asks(q)
  BY <1>1, <1>2, <1>3 DEF WInv, AsksBots
<1>a. at \in [Procs -> Places] /\ todo \in [Procs -> SUBSET Rows] /\ cur \in [Procs -> Rows \cup {None}]
  BY DEF WInv, DInv, Typed, TypeOK
<1>b. ASSUME Through(p), at[p] \in {"polled", "stopping"} PROVE asks(p)
  <2>1. at'[p] \in {"advance", "done"} /\ todo'[p] = todo[p] \ {cur[p]} /\ (at'[p] = "done" <=> p \in Requests)
    BY <1>a, <1>b DEF Through, Back
  <2>2. at'[p] = "advance" => p \in Ticks
    BY <2>1 DEF Procs
  <2>3. p \in Ticks => \A m \in todo[p] : db[m].bot
    BY <1>b DEF WInv, AsksBots
  <2>4. QED
    BY <1>1, <1>3, <2>1, <2>2, <2>3
<1>5. CASE SelectActive(p)
  <2>1. at'[p] = "advance" /\ todo'[p] = {m \in Rows : db[m].status \in {"JOINING", "ACTIVE"} /\ db[m].bot}
    BY <1>a, <1>5 DEF SelectActive
  <2>2. asks(p)
    BY <1>1, <2>1
  <2>3. QED
    BY <1>4, <2>2 DEF AsksBots
<1>6. CASE Poll(p)
  <2>1. PICK m \in todo[p] : at'[p] = "polled" /\ cur'[p] = m /\ todo' = todo /\ at[p] = "advance"
    BY <1>a, <1>6 DEF Poll, Ask, Load
  <2>2. p \in Ticks /\ \A n \in todo[p] : db[n].bot
    BY <2>1 DEF WInv, AsksBots, DInv, Dispatching
  <2>3. asks(p)
    BY <1>1, <1>3, <2>1, <2>2
  <2>4. QED
    BY <1>4, <2>3 DEF AsksBots
<1>7. CASE Reconcile(p)
  <2>1. CASE Through(p)
    <3>1. asks(p)
      BY <1>b, <1>7, <2>1 DEF Reconcile
    <3>2. QED
      BY <1>4, <3>1 DEF AsksBots
  <2>2. CASE at' = [at EXCEPT ![p] = "stopping"] /\ UNCHANGED <<todo, cur>>
    <3>1. at'[p] = "stopping" /\ at[p] = "polled"
      BY <1>a, <1>7, <2>2 DEF Reconcile
    <3>2. asks(p)
      BY <1>1, <1>3, <2>2, <3>1 DEF WInv, AsksBots
    <3>3. QED
      BY <1>4, <3>2 DEF AsksBots
  <2>3. QED
    BY <1>7, <2>1, <2>2 DEF Reconcile
<1>8. CASE Stop(p)
  <2>1. asks(p)
    BY <1>b, <1>8 DEF Stop
  <2>2. QED
    BY <1>4, <2>1 DEF AsksBots
<1>9. CASE RecoverRead(p) \/ RecoverCommit(p) \/ Claim(p) \/ Join(p) \/ JoinReturns(p) \/ Mark(p)
           \/ SelectPending(p) \/ FinalizeBegins(p) \/ FinalizeEnds(p) \/ TickEnds(p)
  <2>1. CASE RecoverRead(p) \/ RecoverCommit(p) \/ Claim(p) \/ Join(p) \/ Mark(p) \/ SelectPending(p)
             \/ TickEnds(p)
    <3>1. at'[p] \notin {"advance", "stopping", "polled"}
      BY <1>a, <2>1
      DEF RecoverRead, RecoverCommit, Claim, Join, Load, Mark, SelectPending, TickEnds,
            Rests, Starts
    <3>2. QED
      BY <1>4, <3>1 DEF AsksBots
  <2>2. CASE JoinReturns(p) \/ FinalizeEnds(p)
    <3>1. at'[p] \notin {"advance", "stopping", "polled"}
      BY <1>a, <2>2 DEF JoinReturns, FinalizeEnds, Through, Back
    <3>2. QED
      BY <1>4, <3>1 DEF AsksBots
  <2>3. CASE FinalizeBegins(p)
    <3>1. at'[p] \notin {"advance", "stopping", "polled"}
      <4>1. at[p] = "process" /\ (\/ at'[p] \in {"process", "done"}
                                  \/ at'[p] = "finalizing")
        BY <1>a, <2>3 DEF FinalizeBegins, Load
      <4>2. QED
        BY <4>1
    <3>2. QED
      BY <1>4, <3>1 DEF AsksBots
  <2>4. QED
    BY <1>9, <2>1, <2>2, <2>3
<1>10. QED
  BY <1>5, <1>6, <1>7, <1>8, <1>9 DEF Step

LEMMA WInvInductive ==
  ASSUME OneTicker, "refresh" \notin Kinds, WInv, [Next]_vars
  PROVE  WInv'
<1>1. DInv'
  BY DInvInductive DEF WInv
<1>t. /\ db \in [Rows -> Row] /\ \A p \in Procs : todo[p] \subseteq Rows
      /\ \A p \in Procs : at[p] = "polled" => cur[p] \in Rows
  BY DEF WInv, DInv, Typed, TypeOK, Working
<1>2. ASSUME NEW p \in Procs, Step(p) PROVE (\A m \in Rows : Watched(db'[m])) /\ AsksBots'
  BY <1>2, StepWatched, StepAsksBots
<1>3. ASSUME NEW q \in Requests, Request(q)
      PROVE  (\A m \in Rows : Watched(db'[m])) /\ AsksBots'
  <2>1. q \in Procs /\ q \notin Ticks
    BY LifecycleAssumption DEF LifecycleAssumption, Procs
  <2>2. UNCHANGED db /\ at'[q] \in {"stopping", "mark"}
    BY <1>3, <2>1 DEF Request, RequestRefresh, RequestStop, Load, Webhook, WInv, DInv, Typed, TypeOK
  <2>3. \A r \in Procs \ {q} : at'[r] = at[r] /\ todo'[r] = todo[r] /\ cur'[r] = cur[r]
    BY <1>3
    DEF Request, RequestRefresh, RequestStop, Load, Webhook, WInv, DInv, Typed, TypeOK
  <2>4. AsksBots'
    BY <2>1, <2>2, <2>3 DEF WInv, AsksBots
  <2>5. QED
    BY <2>2, <2>4 DEF WInv
<1>4. ASSUME UNCHANGED <<at, todo, cur>>,
             \A m \in Rows : Watched(db'[m]) /\ (db[m].bot => db'[m].bot)
      PROVE  (\A m \in Rows : Watched(db'[m])) /\ AsksBots'
  BY <1>t, <1>4 DEF WInv, AsksBots
<1>5. ASSUME NEW m \in Rows, Insert(m) \/ TimePasses(m)
      PROVE  (\A n \in Rows : Watched(db'[n])) /\ AsksBots'
  <2>1. \A n \in Rows \ {m} : db'[n] = db[n]
    BY <1>5, <1>t DEF Insert, TimePasses
  <2>2. Watched(db[m]) /\ db[m] \in Row
    BY <1>t DEF WInv
  <2>3. \/ db'[m] \in {[db[m] EXCEPT !.status = "SCHEDULED"],
                      [db[m] EXCEPT !.window = IF @ = "early" THEN "due" ELSE "missed"],
                      [db[m] EXCEPT !.claim = "old"],
                      [db[m] EXCEPT !.end = "past"]}
        \/ db[m].age = "fresh" /\ db'[m] = [db[m] EXCEPT !.age = "old"]
    BY <1>5, <1>t DEF Insert, TimePasses
  <2>4. /\ db'[m].bot = db[m].bot
        /\ \/ db'[m].age = db[m].age
           \/ db[m].age = "fresh" /\ db'[m].age = "old"
        /\ \/ db'[m].status = "SCHEDULED"
           \/ /\ db'[m].status = db[m].status
              /\ db'[m].claim = db[m].claim \/ db'[m].claim = "old"
    BY <2>2, <2>3 DEF Row
  <2>5. Watched(db'[m])
    BY <2>2, <2>4 DEF Watched
  <2>6. UNCHANGED <<at, todo, cur>>
    BY <1>5 DEF Insert, TimePasses, local
  <2>7. \A n \in Rows : Watched(db'[n]) /\ (db[n].bot => db'[n].bot)
    BY <2>1, <2>4, <2>5 DEF WInv
  <2>8. QED
    BY <1>4, <2>6, <2>7
<1>6. ASSUME Crash PROVE (\A m \in Rows : Watched(db'[m])) /\ AsksBots'
  <2>1. UNCHANGED db /\ \A p \in Procs : at'[p] \in {"idle", "done"}
    BY <1>6 DEF Crash, Rests
  <2>2. QED
    BY <2>1 DEF WInv, AsksBots
<1>7. ASSUME (\E r \in Rooms : Vexa(r)) \/ UNCHANGED vars
      PROVE  (\A m \in Rows : Watched(db'[m])) /\ AsksBots'
  <2>1. UNCHANGED <<db, at, todo, cur>>
    BY <1>7 DEF Vexa, Admitted, Refused, CallEnds, BotMoves, local, vars
  <2>2. QED
    BY <1>4, <2>1 DEF WInv
<1>8. QED
  BY <1>1, <1>2, <1>3, <1>5, <1>6, <1>7 DEF WInv, Next

(* No row falls between the passes of a tick: whatever restarts, stops and   *)
(* webhooks did to it, a row that waits for its call or is in it has the     *)
(* status and the timestamps by which recover_stale will find it one day,    *)
(* unless it never had a start_time. This is the safe half of                *)
(* TimedNeverHangs; a refresh breaks it, as it revives a row without a bot, *)
(* and what the exception costs is the run MeetingLifecycleUntimed.          *)
THEOREM NoRowFallsThrough ==
  ASSUME OneTicker, "refresh" \notin Kinds
  PROVE  Spec => []NoRowEscapes
<1>1. Init => WInv
  <2>1. Init => DInv
    BY DInvInitial
  <2>2. Init => (\A m \in Rows : Watched(db[m])) /\ AsksBots
    BY RowsInitial DEF Init, Watched, AsksBots
  <2>3. QED
    BY <2>1, <2>2 DEF WInv
<1>2. WInv /\ [Next]_vars => WInv'
  BY WInvInductive
<1>3. WInv => NoRowEscapes
  <2>1. ASSUME WInv, NEW m \in Rows, db[m].status \in {"SCHEDULED", "JOINING", "ACTIVE"},
               ~Hangs(db[m])
        PROVE  Fix(Aged(db[m])) # "UNBORN"
    <3>1. db[m] \in Row /\ Watched(db[m]) /\ (db[m].status = "SCHEDULED" => ~db[m].bot)
      BY <2>1 DEF WInv, DInv, Settled, Typed, TypeOK
    <3> DEFINE aged == Aged(db[m])
    <3>2. /\ aged.status = db[m].status /\ aged.bot = db[m].bot
          /\ db[m].status = "SCHEDULED" => aged.window = "missed"
          /\ db[m].claim # "none" => aged.claim = "old"
          /\ db[m].age # "none" => aged.age = "old"
      BY <2>1, <3>1 DEF Aged, Hangs, Row
    <3> HIDE DEF aged
    <3>3. Fix(aged) # "UNBORN"
      BY <2>1, <3>1, <3>2 DEF Fix, Watched
    <3>4. QED
      BY <3>3 DEF aged
  <2>2. QED
    BY <2>1 DEF NoRowEscapes
<1>4. QED
  BY <1>1, <1>2, <1>3, PTL DEF Spec

-----------------------------------------------------------------------------
(* Only what is over is finalized *)

\* While a tick finalizes, nothing it has selected is before or in its call.
Closing ==
  /\ \A q \in Requests : todo[q] = {} /\ at[q] \in {"idle", "stopping", "mark", "done"}
  /\ \A p \in Ticks :
       /\ at[p] # "mark"
       /\ at[p] \in {"process", "finalizing"} => \A m \in todo[p] : db[m].status \notin Early
       /\ at[p] = "finalizing" => mem[p] \notin Early

CInv == DInv /\ Closing

\* What a step may write while somebody finalizes.
LateStep ==
  \A m \in Rows : db[m].status \notin Early => db'[m].status \notin Early

LEMMA LateSave ==
  ASSUME Typed, NEW p \in Procs, cur[p] \in Rows, NEW row \in Row, row.status = db[cur[p]].status,
         NEW s \in Statuses \ Early, Save(p, row, s)
  PROVE  LateStep
<1>1. Saved(p, cur[p], row, s).status \in {db[cur[p]].status, s}
  BY DEF Saved, Row
<1>2. \A m \in Rows : db'[m] = IF m = cur[p] THEN Saved(p, cur[p], row, s) ELSE db[m]
  BY DEF Save, Typed, TypeOK
<1>3. QED
  BY <1>1, <1>2 DEF LateStep

LEMMA LateEndCall ==
  ASSUME Typed, NEW p \in Procs, cur[p] \in Rows, EndCall(p)
  PROVE  LateStep
<1>1. /\ Ended(db[cur[p]]) \in Row /\ Ended(db[cur[p]]).status = db[cur[p]].status
      /\ "PROCESSING" \in Statuses \ Early
  BY EndedType DEF Typed, TypeOK, Ended, Row, Statuses, InFlight, Early
<1>2. QED
  BY <1>1, LateSave DEF EndCall, LateStep

\* A request is in a stop, or not at work.
LEMMA RequestCloses ==
  ASSUME CInv, NEW q \in Requests, Step(q)
  PROVE  Closing'
<1>1. q \in Procs /\ q \notin Ticks /\ todo[q] = {}
      /\ at[q] \in {"idle", "stopping", "mark", "done"}
  BY LifecycleAssumption DEF LifecycleAssumption, Procs, CInv, Closing
<1>2. Stop(q) \/ Mark(q)
  BY <1>1
  DEF Step, RecoverRead, RecoverCommit, Claim, Join, JoinReturns, SelectActive, Poll,
      Reconcile, SelectPending, FinalizeBegins, FinalizeEnds, TickEnds
<1>3. LateStep
  BY <1>1, <1>2, LateEndCall DEF Stop, Mark, CInv, DInv, Typed, Working
<1>4. at'[q] = "done" /\ todo'[q] = {}
  BY <1>1, <1>2 DEF Stop, Mark, Through, Back, CInv, DInv, Typed, TypeOK
<1>5. \A p \in Procs \ {q} : at'[p] = at[p] /\ todo'[p] = todo[p] /\ mem'[p] = mem[p]
  BY <1>2 DEF Stop, Mark, Through, CInv, DInv, Typed, TypeOK
<1>6. \A p \in Ticks : p \in Procs \ {q} /\ todo[p] \subseteq Rows
  BY <1>1 DEF Procs, CInv, DInv, Typed, TypeOK
<1>7. \A p \in Requests : p \in Procs
  BY DEF Procs
<1>8. QED
  BY <1>3, <1>4, <1>5, <1>6, <1>7 DEF CInv, Closing, LateStep

LEMMA TickCloses ==
  ASSUME OneTicker, CInv, NEW p \in Ticks, Step(p)
  PROVE  Closing'
<1>1. p \in Procs /\ p \notin Requests /\ \A q \in Ticks : q = p
  BY LifecycleAssumption DEF LifecycleAssumption, Procs, OneTicker
<1>2. \A q \in Procs \ {p} : at'[q] = at[q] /\ todo'[q] = todo[q]
  BY DEF Step, RecoverRead, RecoverCommit, Claim, Join, JoinReturns, SelectActive, Poll, Ask,
         Load, Reconcile, Through, Stop, Mark, SelectPending, FinalizeBegins, FinalizeEnds,
         TickEnds, CInv, DInv, Typed, TypeOK
<1>3. \A q \in Requests : at'[q] = at[q] /\ todo'[q] = todo[q]
  BY <1>1, <1>2 DEF Procs
<1>t. /\ at \in [Procs -> Places] /\ todo \in [Procs -> SUBSET Rows] /\ mem \in [Procs -> Statuses]
      /\ at[p] # "mark"
  BY DEF CInv, DInv, Closing, Typed, TypeOK
<1> DEFINE closing ==
      /\ at'[p] # "mark"
      /\ at'[p] \in {"process", "finalizing"} => \A m \in todo'[p] : db'[m].status \notin Early
      /\ at'[p] = "finalizing" => mem'[p] \notin Early
<1>4. ASSUME RecoverRead(p) \/ RecoverCommit(p) \/ Claim(p) \/ Join(p) \/ SelectActive(p)
             \/ Poll(p) \/ TickEnds(p)
      PROVE  closing
  <2>1. CASE RecoverRead(p) \/ Claim(p) \/ Join(p) \/ SelectActive(p) \/ Poll(p)
    BY <1>1, <1>t, <2>1 DEF RecoverRead, Claim, Join, Load, SelectActive, Poll, Ask
  <2>2. CASE RecoverCommit(p) \/ TickEnds(p)
    <3>1. at'[p] \in {"claim", "idle", "done"}
      BY <1>1, <1>t, <2>2 DEF RecoverCommit, TickEnds, Rests
    <3>2. QED
      BY <3>1
  <2>3. QED
    BY <1>4, <2>1, <2>2
<1>5. ASSUME JoinReturns(p) \/ Reconcile(p) \/ Stop(p) PROVE closing
  <2>1. at'[p] \notin {"mark", "process", "finalizing"}
    <3>1. ASSUME Through(p), at[p] \in {"joining", "polled", "stopping"}
          PROVE  at'[p] \notin {"mark", "process", "finalizing"}
      BY <1>1, <1>t, <3>1 DEF Through, Back
    <3>2. ASSUME at' = [at EXCEPT ![p] = "stopping"]
          PROVE  at'[p] \notin {"mark", "process", "finalizing"}
      BY <1>1, <1>t, <3>2
    <3>3. QED
      BY <1>5, <3>1, <3>2 DEF JoinReturns, Reconcile, Stop
  <2>2. QED
    BY <2>1
<1>6. ASSUME SelectPending(p) PROVE closing
  <2>1. /\ at'[p] = "process" /\ UNCHANGED db
        /\ \A m \in todo'[p] : db[m].status \in {"PROCESSING", "EMAIL_FAILED"}
    BY <1>1, <1>t, <1>6 DEF SelectPending
  <2>2. QED
    BY <2>1 DEF Early
<1>7. ASSUME FinalizeBegins(p) PROVE closing
  <2>1. /\ at[p] = "process" /\ UNCHANGED db
        /\ \E m \in todo[p] :
             \/ at'[p] = "process" /\ todo'[p] \subseteq todo[p]
             \/ at'[p] = "finalizing" /\ todo'[p] = todo[p] /\ mem'[p] = db[m].status
    BY <1>1, <1>t, <1>7 DEF FinalizeBegins, Load
  <2>2. QED
    BY <2>1 DEF CInv, Closing
<1>8. ASSUME FinalizeEnds(p) PROVE closing
  <2>1. at[p] = "finalizing" /\ cur[p] \in Rows /\ db[cur[p]] \in Row
    BY <1>1, <1>8 DEF FinalizeEnds, CInv, DInv, Typed, TypeOK, Working
  <2> DEFINE tried == [db[cur[p]] EXCEPT !.tries = IF @ < MaxTries THEN @ + 1 ELSE @]
  <2>2. tried \in Row /\ tried.status = db[cur[p]].status
    BY <2>1, LifecycleAssumption DEF LifecycleAssumption, Row
  <2>3. {"FAILED_ANALYSIS", "COMPLETED", "EMAIL_FAILED"} \subseteq Statuses \ Early
    BY DEF Statuses, Over, Early
  <2>4. \/ UNCHANGED db
        \/ Save(p, db[cur[p]], "FAILED_ANALYSIS")
        \/ Save(p, db[cur[p]], "COMPLETED")
        \/ Save(p, tried, "EMAIL_FAILED")
    BY <1>8 DEF FinalizeEnds
  <2> HIDE DEF tried
  <2>5. LateStep
    <3>1. CASE UNCHANGED db
      BY <3>1 DEF LateStep
    <3>2. CASE ~UNCHANGED db
      BY <1>1, <2>1, <2>2, <2>3, <2>4, <3>2, LateSave DEF CInv, DInv
    <3>3. QED
      BY <3>1, <3>2
  <2>6. at'[p] = "process" /\ todo'[p] \subseteq todo[p]
    BY <1>1, <1>t, <1>8, <2>1 DEF FinalizeEnds, Through, Back
  <2>7. QED
    BY <1>1, <1>t, <2>1, <2>5, <2>6 DEF CInv, Closing, LateStep
<1>9. ASSUME Mark(p) PROVE closing
  BY <1>t, <1>9 DEF Mark
<1>10. closing
  BY <1>4, <1>5, <1>6, <1>7, <1>8, <1>9 DEF Step
<1> HIDE DEF closing
<1>11. QED
  BY <1>1, <1>3, <1>10 DEF closing, CInv, Closing

LEMMA CInvInductive ==
  ASSUME OneTicker, Kinds \subseteq {"stop"}, CInv, [Next]_vars
  PROVE  CInv'
<1>1. DInv'
  BY DInvInductive DEF CInv
<1>2. ASSUME NEW p \in Procs, Step(p) PROVE Closing'
  BY <1>2, RequestCloses, TickCloses DEF Procs
<1>3. ASSUME NEW q \in Requests, Request(q) PROVE Closing'
  <2>1. q \in Procs /\ q \notin Ticks
    BY LifecycleAssumption DEF LifecycleAssumption, Procs
  <2>2. RequestStop(q)
    BY <1>3 DEF Request, RequestRefresh, Webhook
  <2>3. /\ UNCHANGED <<db, todo>> /\ at'[q] \in {"stopping", "mark"}
        /\ \A p \in Procs \ {q} : at'[p] = at[p] /\ mem'[p] = mem[p]
    BY <2>1, <2>2 DEF RequestStop, Load, CInv, DInv, Typed, TypeOK
  <2>4. QED
    BY <2>1, <2>3 DEF CInv, Closing, Procs
<1>4. ASSUME LateStep, UNCHANGED <<at, todo, mem>> PROVE Closing'
  <2>1. \A p \in Ticks : todo[p] \subseteq Rows
    BY DEF CInv, DInv, Typed, TypeOK, Procs
  <2>2. QED
    BY <1>4, <2>1 DEF CInv, Closing, LateStep
<1>5. ASSUME NEW m \in Rows, Insert(m) PROVE Closing'
  <2>1. LateStep
    BY <1>5 DEF Insert, LateStep, Early, CInv, DInv, Typed, TypeOK
  <2>2. QED
    BY <1>4, <1>5, <2>1 DEF Insert, local
<1>6. ASSUME NEW m \in Rows, TimePasses(m) PROVE Closing'
  <2>1. LateStep
    BY <1>6, TimeKeeps DEF LateStep, CInv, DInv
  <2>2. QED
    BY <1>4, <1>6, <2>1 DEF TimePasses, local
<1>7. ASSUME Crash PROVE Closing'
  <2>1. /\ \A p \in Ticks : at'[p] \in {"idle", "done"}
        /\ \A q \in Requests : todo'[q] = {} /\ at'[q] \in {"idle", "done"}
    BY <1>7, LifecycleAssumption DEF LifecycleAssumption, Crash, Procs, Rests
  <2>2. QED
    BY <2>1 DEF Closing
<1>8. ASSUME (\E r \in Rooms : Vexa(r)) \/ UNCHANGED vars PROVE Closing'
  <2>1. UNCHANGED <<db, at, todo, mem>>
    BY <1>8 DEF Vexa, Admitted, Refused, CallEnds, BotMoves, local, vars
  <2>2. QED
    BY <1>4, <2>1 DEF LateStep
<1>9. QED
  BY <1>1, <1>2, <1>3, <1>5, <1>6, <1>7, <1>8 DEF CInv, Next

(* With one loop, only ended meetings are finalized, stop whoever and        *)
(* whenever: between process_pending and the end of the pipeline nobody      *)
(* takes a row back into its call. A late webhook breaks it: the latest row  *)
(* of a code (Webhook) may be that of the next meeting. So may a refresh.    *)
THEOREM OnlyEndedFinalized ==
  ASSUME OneTicker, Kinds \subseteq {"stop"}
  PROVE  Spec => []FinalizesEnded
<1>1. Init => CInv
  <2>1. Init => DInv
    BY DInvInitial
  <2>2. Init => Closing
    BY DEF Init, Closing, Procs
  <2>3. QED
    BY <2>1, <2>2 DEF CInv
<1>2. CInv /\ [Next]_vars => CInv'
  BY CInvInductive
<1>3. CInv => FinalizesEnded
  BY DEF CInv, Closing, FinalizesEnded, Early, Procs
<1>4. QED
  BY <1>1, <1>2, <1>3, PTL DEF Spec
=============================================================================
