-------------------------- MODULE Detection_proofs --------------------------
(***************************************************************************)
(* Proofs about Detection for any events, e-mails, requests and Meet       *)
(* codes.                                                                  *)
(***************************************************************************)
EXTENDS Detection, TLAPS

USE DEF Sources, Loops

LEMMA LoopStepType ==
  ASSUME TypeOK, Poller \/ Scanner
  PROVE  TypeOK'
<1>1. \A S : Upsert(S) => rows' \in [Sources -> States]
  BY DEF Upsert, TypeOK, States
<1>2. InFlight \subseteq Sources
  BY DEF InFlight
<1>3. \A l \in Loops : Rest(l) =>
        /\ at' \in [Loops -> {"idle", "look", "write"}]
        /\ seen' \in [Loops -> SUBSET Sources]
        /\ batch' \in [Loops -> SUBSET Sources]
        /\ batch'["poller"] \subseteq Events
        /\ batch'["scanner"] \subseteq Mails
  BY DEF Rest, TypeOK
<1>4. CASE PollList
  BY <1>3, <1>4 DEF PollList, Proceed, world, TypeOK
<1>5. CASE PollLook
  BY <1>2, <1>3, <1>5 DEF PollLook, Keep, world, TypeOK
<1>6. CASE PollWrite
  BY <1>1, <1>3, <1>6 DEF PollWrite, world, TypeOK
<1>7. CASE ScanList
  BY <1>3, <1>7 DEF ScanList, New, Proceed, world, TypeOK
<1>8. CASE ScanLook
  <2>1. PICK S \in Pick(batch["scanner"], InFlight) :
          IF S = {}
            THEN Rest("scanner")
            ELSE /\ at' = [at EXCEPT !["scanner"] = "write"]
                 /\ batch' = [batch EXCEPT !["scanner"] = S]
                 /\ seen' = [seen EXCEPT !["scanner"] = InFlight]
    BY <1>8 DEF ScanLook
  <2>2. S \subseteq Mails
    BY DEF Pick, TypeOK
  <2>3. QED
    BY <1>2, <1>3, <1>8, <2>1, <2>2 DEF ScanLook, world, TypeOK
<1>9. CASE ScanWrite
  BY <1>1, <1>3, <1>9 DEF ScanWrite, world, TypeOK
<1>10. QED
  BY <1>4, <1>5, <1>6, <1>7, <1>8, <1>9 DEF Poller, Scanner

LEMMA TypeInductive == ASSUME TypeOK, [Next]_vars PROVE TypeOK'
<1>1. ASSUME NEW u \in Manuals, DispatchOpens(u) \/ DispatchCommits(u) PROVE TypeOK'
  BY <1>1 DEF DispatchOpens, DispatchCommits, world, TypeOK, States
<1>2. ASSUME NEW e \in Events, EventAppears(e) \/ EventPasses(e) PROVE TypeOK'
  BY <1>2 DEF EventAppears, EventPasses, TypeOK
<1>3. ASSUME NEW g \in Mails, MailArrives(g) PROVE TypeOK'
  BY <1>3 DEF MailArrives, TypeOK
<1>4. ASSUME NEW s \in Sources, MeetingEnds(s) PROVE TypeOK'
  BY <1>4 DEF MeetingEnds, world, TypeOK, States
<1>5. CASE Crash
  BY <1>5, DetectionAssumption DEF DetectionAssumption, Crash, TypeOK, States
<1>6. CASE UNCHANGED vars
  BY <1>6 DEF vars, TypeOK
<1>7. QED
  BY <1>1, <1>2, <1>3, <1>4, <1>5, <1>6, LoopStepType DEF Next

(* Table, loops and the world keep their types; each loop's batch has its    *)
(* own kind of source.                                                       *)
THEOREM TypeCorrect == Spec => []TypeOK
<1>1. Init => TypeOK
  BY DetectionAssumption DEF DetectionAssumption, Init, TypeOK, States
<1>2. QED
  BY <1>1, TypeInductive, PTL DEF Spec

-----------------------------------------------------------------------------
(* One meeting of each code *)

LEMMA UpsertOne ==
  ASSUME TypeOK, OnePerCode, NEW S, Upsert(S)
  PROVE  OnePerCode'
<1>1. CASE Rejected(S)
  BY <1>1 DEF Upsert, OnePerCode, SameCode
<1>2. CASE ~Rejected(S)
  <2>1. \A s \in Sources : rows'[s] = IF s \in New(S) THEN "inflight" ELSE rows[s]
    BY <1>2 DEF Upsert
  <2>2. ASSUME NEW s \in New(S), NEW t \in Sources, CodeOf[t] = CodeOf[s],
               rows'[t] \in {"open", "inflight"}, s \in Sources
        PROVE  t = s
    <3>1. t \in New(S) \cup InFlight
      BY <2>1, <2>2 DEF Upsert, Waits, SameCode, InFlight
    <3>2. SameCode(s, New(S) \cup InFlight) = {s}
      BY <1>2 DEF Rejected
    <3>3. QED
      BY <2>2, <3>1, <3>2 DEF SameCode
  <2>3. ASSUME NEW s \in Sources, NEW t \in Sources, CodeOf[t] = CodeOf[s],
               rows'[s] \in {"open", "inflight"}, rows'[t] \in {"open", "inflight"}
        PROVE  s = t
    <3>1. CASE s \in New(S)
      BY <2>2, <2>3, <3>1
    <3>2. CASE t \in New(S)
      BY <2>2, <2>3, <3>2
    <3>3. CASE s \notin New(S) /\ t \notin New(S)
      BY <2>1, <2>3, <3>3 DEF OnePerCode, SameCode
    <3>4. QED
      BY <3>1, <3>2, <3>3
  <2>4. QED
    BY <2>3 DEF OnePerCode, SameCode
<1>3. QED
  BY <1>1, <1>2

LEMMA NobodyEnters ==
  ASSUME OnePerCode,
         \A s \in Sources :
           rows'[s] \in {"open", "inflight"} => rows[s] \in {"open", "inflight"}
  PROVE  OnePerCode'
BY DEF OnePerCode, SameCode

LEMMA OneInductive ==
  ASSUME TypeOK, OnePerCode, [Next]_vars
  PROVE  OnePerCode'
<1>1. CASE PollWrite \/ ScanWrite
  BY <1>1, UpsertOne DEF PollWrite, ScanWrite
<1>2. ASSUME NEW u \in Manuals, DispatchOpens(u) PROVE OnePerCode'
  <2>1. New({u}) = {u}
    BY <1>2 DEF DispatchOpens, New
  <2>2. SameCode(u, {u} \cup InFlight) = {u}
    BY <1>2, <2>1 DEF DispatchOpens, Rejected
  <2>3. \A t \in Sources : CodeOf[t] = CodeOf[u] /\ t # u => rows[t] \notin {"open", "inflight"}
    BY <1>2, <2>1, <2>2 DEF DispatchOpens, Waits, SameCode, InFlight
  <2>4. \A t \in Sources : t # u => rows'[t] = rows[t]
    BY <1>2 DEF DispatchOpens, TypeOK
  <2>5. QED
    BY <2>3, <2>4 DEF OnePerCode, SameCode
<1>3. ASSUME NEW u \in Manuals, DispatchCommits(u) PROVE OnePerCode'
  <2>1. \A s \in Sources :
          rows'[s] \in {"open", "inflight"} => rows[s] \in {"open", "inflight"}
    BY <1>3 DEF DispatchCommits, TypeOK
  <2>2. QED
    BY <2>1, NobodyEnters
<1>4. ASSUME NEW s \in Sources, MeetingEnds(s) PROVE OnePerCode'
  <2>1. \A t \in Sources :
          rows'[t] \in {"open", "inflight"} => rows[t] \in {"open", "inflight"}
    BY <1>4 DEF MeetingEnds, TypeOK
  <2>2. QED
    BY <2>1, NobodyEnters
<1>5. CASE Crash
  BY <1>5, NobodyEnters DEF Crash
<1>6. CASE UNCHANGED rows
  BY <1>6, NobodyEnters
<1>7. QED
  BY <1>1, <1>2, <1>3, <1>4, <1>5, <1>6
  DEF Next, Poller, Scanner, PollList, PollLook, ScanList, ScanLook, EventAppears,
      EventPasses, MailArrives, vars

(* Whatever the loops and requests read before they wrote, the unique index  *)
(* leaves one meeting of a Meet code in flight or being dispatched.          *)
THEOREM OneMeetingPerCode == Spec => []OnePerCode
<1>1. Init => OnePerCode
  BY DEF Init, OnePerCode, SameCode
<1>2. QED
  BY <1>1, OneInductive, TypeCorrect, PTL DEF Spec

-----------------------------------------------------------------------------
(* What the filter is worth *)

\* A loop about to write holds no candidate of a code that was in flight for
\* somebody else when it looked; the scanner, one candidate of each code besides.
Compared(l) == IF l = "poller" THEN seen[l] ELSE batch[l] \cup seen[l]

\* And what a loop saw in flight has a row.
Filtered ==
  \A l \in Loops :
    /\ at[l] = "write" =>
         \A s \in batch[l] : \A t \in SameCode(s, Compared(l)) : t = s \/ s \in seen[l]
    /\ \A s \in seen[l] : rows[s] \in {"inflight", "over"}

LEMMA RowsRemain ==
  ASSUME TypeOK, Next
  PROVE  \A s \in Sources : rows[s] \in {"inflight", "over"} => rows'[s] \in {"inflight", "over"}
<1>1. ASSUME NEW S, Upsert(S), NEW s \in Sources, rows[s] \in {"inflight", "over"}
      PROVE  rows'[s] \in {"inflight", "over"}
  BY <1>1 DEF Upsert
<1>2. CASE PollWrite \/ ScanWrite
  BY <1>1, <1>2 DEF PollWrite, ScanWrite
<1>3. CASE \E u \in Manuals : DispatchOpens(u) \/ DispatchCommits(u)
  BY <1>3 DEF DispatchOpens, DispatchCommits, TypeOK
<1>4. CASE \E s \in Sources : MeetingEnds(s)
  BY <1>4 DEF MeetingEnds, TypeOK
<1>5. CASE Crash
  BY <1>5 DEF Crash
<1>6. CASE UNCHANGED rows
  BY <1>6
<1>7. QED
  BY <1>2, <1>3, <1>4, <1>5, <1>6
  DEF Next, Poller, Scanner, PollList, PollLook, ScanList, ScanLook, EventAppears,
      EventPasses, MailArrives


LEMMA LoopFiltered ==
  ASSUME TypeOK, TypeOK', Filtered, Next, NEW l \in Loops,
         \A k \in Loops \ {l} : UNCHANGED <<at[k], batch[k], seen[k]>>,
         at'[l] = "write" =>
           \A s \in batch'[l] : \A t \in SameCode(s, Compared(l)') : t = s \/ s \in seen'[l],
         \A s \in seen'[l] : rows[s] \in {"inflight", "over"}
  PROVE  Filtered'
<1>1. \A s \in Sources : rows[s] \in {"inflight", "over"} => rows'[s] \in {"inflight", "over"}
  BY RowsRemain
<1>2. \A k \in Loops : seen[k] \subseteq Sources /\ seen'[k] \subseteq Sources
  BY DEF TypeOK
<1>3. QED
  BY <1>1, <1>2 DEF Filtered, SameCode, Compared

LEMMA FilteredInductive ==
  ASSUME TypeOK, Filtered, [Next]_vars
  PROVE  Filtered'
<1> USE DEF Sources, Loops
<1>t. TypeOK'
  BY TypeInductive
<1>r. ASSUME NEW l \in Loops, Rest(l) PROVE at'[l] = "idle" /\ seen'[l] = {}
  BY <1>r DEF Rest, TypeOK
<1>p. ASSUME NEW l \in Loops, NEW S, Proceed(l, "look", S)
      PROVE  at'[l] # "write" /\ seen'[l] \subseteq seen[l]
  BY <1>p, <1>r DEF Proceed, TypeOK
<1>1. CASE PollList \/ PollWrite
  <2>1. UNCHANGED <<at["scanner"], batch["scanner"], seen["scanner"]>>
    BY <1>1 DEF PollList, PollWrite, Proceed, Rest, TypeOK
  <2>2. at'["poller"] # "write" /\ seen'["poller"] \subseteq seen["poller"]
    BY <1>1, <1>p, <1>r DEF PollList, PollWrite
  <2>3. Next
    BY <1>1 DEF Next, Poller
  <2>4. QED
    BY <1>t, <2>1, <2>2, <2>3, LoopFiltered DEF Filtered
<1>2. CASE ScanList \/ ScanWrite
  <2>1. UNCHANGED <<at["poller"], batch["poller"], seen["poller"]>>
    BY <1>2 DEF ScanList, ScanWrite, Proceed, Rest, TypeOK
  <2>2. at'["scanner"] # "write" /\ seen'["scanner"] \subseteq seen["scanner"]
    BY <1>2, <1>p, <1>r DEF ScanList, ScanWrite
  <2>3. Next
    BY <1>2 DEF Next, Scanner
  <2>4. QED
    BY <1>t, <2>1, <2>2, <2>3, LoopFiltered DEF Filtered
<1>3. CASE PollLook
  <2> DEFINE held == InFlight
             kept == Keep(batch["poller"], held)
  <2>1. UNCHANGED <<at["scanner"], batch["scanner"], seen["scanner"]>>
    BY <1>3 DEF PollLook, Rest, TypeOK
  <2>2. CASE Rest("poller")
    BY <1>t, <1>3, <1>r, <2>1, <2>2, LoopFiltered DEF Next, Poller
  <2>3. CASE /\ at' = [at EXCEPT !["poller"] = "write"]
             /\ batch' = [batch EXCEPT !["poller"] = kept]
             /\ seen' = [seen EXCEPT !["poller"] = held]
    <3>1. batch'["poller"] = kept /\ seen'["poller"] = held
      BY <2>3 DEF TypeOK
    <3>3. \A s \in kept : \A t \in SameCode(s, held) : t = s \/ s \in held
      BY DEF Keep
    <3>4. \A s \in held : rows[s] \in {"inflight", "over"}
      BY DEF InFlight
    <3> HIDE DEF held, kept
    <3>5. QED
      BY <1>t, <1>3, <2>1, <3>1, <3>3, <3>4, LoopFiltered DEF Next, Poller, Compared
  <2>4. QED
    BY <1>3, <2>2, <2>3 DEF PollLook
<1>4. CASE ScanLook
  <2> DEFINE held == InFlight
  <2>1. UNCHANGED <<at["poller"], batch["poller"], seen["poller"]>>
    BY <1>4 DEF ScanLook, Rest, TypeOK
  <2>2. CASE Rest("scanner")
    BY <1>t, <1>4, <1>r, <2>1, <2>2, LoopFiltered DEF Next, Scanner
  <2>3. ASSUME NEW S \in Pick(batch["scanner"], held),
               /\ at' = [at EXCEPT !["scanner"] = "write"]
               /\ batch' = [batch EXCEPT !["scanner"] = S]
               /\ seen' = [seen EXCEPT !["scanner"] = held]
        PROVE  Filtered'
    <3>1. batch'["scanner"] = S /\ seen'["scanner"] = held
      BY <2>3 DEF TypeOK
    <3>2. ASSUME NEW s \in S, NEW t \in SameCode(s, S \cup held)
          PROVE  t = s
      <4>1. SameCode(s, held) = {} /\ \E h \in S : SameCode(s, S) = {h}
        BY DEF Pick
      <4>2. t \in SameCode(s, S) /\ s \in SameCode(s, S)
        BY <3>2, <4>1 DEF SameCode
      <4>3. QED
        BY <4>1, <4>2
    <3>4. \A s \in held : rows[s] \in {"inflight", "over"}
      BY DEF InFlight
    <3> HIDE DEF held
    <3>5. QED
      BY <1>t, <1>4, <2>1, <3>1, <3>2, <3>4, LoopFiltered DEF Next, Scanner, Compared
  <2>4. QED
    BY <1>4, <2>2, <2>3 DEF ScanLook
<1>5. ASSUME UNCHANGED <<at, batch, seen>>, Next PROVE Filtered'
  <2>1. seen["poller"] \subseteq Sources
    BY DEF TypeOK
  <2>2. QED
    BY <1>t, <1>5, <2>1, LoopFiltered DEF Filtered, Compared, TypeOK
<1>6. CASE Crash
  BY <1>6 DEF Crash, Filtered
<1>7. CASE UNCHANGED vars
  BY <1>7 DEF vars, Filtered, SameCode, Compared
<1>8. QED
  BY <1>1, <1>2, <1>3, <1>4, <1>5, <1>6, <1>7
  DEF Next, Poller, Scanner, DispatchOpens, DispatchCommits, EventAppears,
      EventPasses, MailArrives, MeetingEnds

(* Whatever links the events, e-mails and requests share: the index rejects  *)
(* the scanner's batch only when another writer got in after its look at the *)
(* table, and the poller's, besides, only for two new events of one link.    *)
THEOREM FilterSuffices == Spec => []RejectedForCause
<1>1. Init => Filtered
  BY DEF Init, Filtered
<1>2. TypeOK /\ Filtered /\ [Next]_vars => Filtered'
  BY FilteredInductive
<1>3. TypeOK /\ Filtered => RejectedForCause
  <2>1. ASSUME TypeOK, Filtered, NEW l \in Loops, at[l] = "write", Rejected(batch[l]),
               InFlight \subseteq seen[l], l # "poller" \/ ~Twins(batch[l])
        PROVE  FALSE
    <3>1. PICK s \in New(batch[l]) : SameCode(s, New(batch[l]) \cup InFlight) # {s}
      BY <2>1 DEF Rejected
    <3>2. s \in SameCode(s, New(batch[l]) \cup InFlight)
      BY DEF SameCode
    <3>3. PICK t \in SameCode(s, New(batch[l]) \cup InFlight) : t # s
      BY <3>1, <3>2
    <3>4. s \in batch[l] /\ s \notin seen[l]
      BY <2>1 DEF New, Filtered
    <3>5. t \notin SameCode(s, Compared(l))
      BY <2>1, <3>3, <3>4 DEF Filtered
    <3>6. l = "poller" /\ t \in SameCode(s, New(batch[l]))
      BY <2>1, <3>3, <3>5 DEF Compared, SameCode, New
    <3>7. Twins(batch[l])
      BY <3>3, <3>6 DEF Twins
    <3>8. QED
      BY <2>1, <3>6, <3>7
  <2>2. QED
    BY <2>1 DEF RejectedForCause
<1>4. QED
  BY <1>1, <1>2, <1>3, TypeCorrect, PTL DEF Spec

(* No step of a detector, a request or a restart takes a finished meeting    *)
(* out of its terminal status: an upsert keeps the status of rows it meets.  *)
THEOREM FinishedStaysFinished == Spec => OverIsOver
<1>1. ASSUME TypeOK, Next
      PROVE  \A s \in Sources : rows[s] = "over" => rows'[s] = "over"
  <2>1. ASSUME NEW S, Upsert(S), NEW s \in Sources, rows[s] = "over"
        PROVE  rows'[s] = "over"
    BY <2>1 DEF Upsert, New
  <2>2. CASE PollWrite \/ ScanWrite
    BY <2>1, <2>2 DEF PollWrite, ScanWrite
  <2>3. CASE \E u \in Manuals : DispatchOpens(u) \/ DispatchCommits(u)
    <3>1. PICK u \in Manuals, v \in States : rows[u] # "over" /\ rows' = [rows EXCEPT ![u] = v]
      BY <2>3 DEF DispatchOpens, DispatchCommits, States
    <3>2. QED
      BY <1>1, <3>1 DEF TypeOK
  <2>4. CASE \E s \in Sources : MeetingEnds(s)
    BY <1>1, <2>4 DEF MeetingEnds, TypeOK
  <2>5. CASE Crash
    BY <2>5 DEF Crash
  <2>6. CASE UNCHANGED rows
    BY <2>6
  <2>7. QED
    BY <1>1, <2>2, <2>3, <2>4, <2>5, <2>6
    DEF Next, Poller, Scanner, PollList, PollLook, ScanList, ScanLook, EventAppears,
        EventPasses, MailArrives
<1>2. TypeOK /\ [Next]_vars
        => [\A s \in Sources : rows[s] = "over" => rows'[s] = "over"]_vars
  BY <1>1
<1>3. QED
  BY <1>2, TypeCorrect, PTL DEF Spec, OverIsOver
-----------------------------------------------------------------------------
(* What the table promises *)

LEMMA HoldingIs ==
  /\ Holding("absent") = "free"
  /\ Holding("open") = "held"
  /\ Holding("inflight") = "held"
  /\ Holding("over") = "over"
BY DEF Holding

\* New rows of different codes, none of them in flight or open, take their slots.
LEMMA NewTakes ==
  ASSUME TypeOK, OnePerCode', NEW S \in SUBSET Sources, NEW s \in {"open", "inflight"},
         \A t \in S : rows[t] = "absent",
         rows' = [t \in Sources |-> IF t \in S THEN s ELSE rows[t]]
  PROVE  Slots!Take(S)
<1>1. Holding(s) = "held"
  BY HoldingIs
<1>2. S \subseteq Slots!In("free")
  BY HoldingIs DEF Slots!In, slot
<1>3. slot' = [t \in Sources |-> IF t \in S THEN "held" ELSE slot[t]]
  BY <1>1 DEF slot
<1>4. \A t \in Slots!In("held") : t \in Sources /\ rows[t] \in {"open", "inflight"}
  BY HoldingIs DEF Slots!In, slot, TypeOK, States
<1>5. ASSUME NEW m \in S, NEW n \in S \cup Slots!In("held"), CodeOf[m] = CodeOf[n]
      PROVE  m = n
  <2>1. m \in Sources /\ n \in Sources
    BY <1>4
  <2>2. rows'[m] \in {"open", "inflight"} /\ rows'[n] \in {"open", "inflight"}
    BY <1>4, <2>1
  <2>3. QED
    BY <1>5, <2>1, <2>2 DEF OnePerCode, SameCode
<1>6. QED
  BY <1>2, <1>3, <1>5 DEF Slots!Take, Slots!Move

LEMMA SlotsStep ==
  ASSUME TypeOK, OnePerCode', [Next]_vars
  PROVE  [Slots!SlotsNext]_slot
<1>1. ASSUME NEW S \in SUBSET Sources, Upsert(S) PROVE [Slots!SlotsNext]_slot
  <2>1. CASE Rejected(S)
    BY <1>1, <2>1 DEF Upsert, slot
  <2>2. CASE ~Rejected(S)
    <3>1. New(S) \in SUBSET Sources /\ \A t \in New(S) : rows[t] = "absent"
      BY DEF New
    <3>2. rows' = [t \in Sources |-> IF t \in New(S) THEN "inflight" ELSE rows[t]]
      BY <1>1, <2>2 DEF Upsert
    <3>3. Slots!Take(New(S))
      BY <3>1, <3>2, NewTakes
    <3>4. QED
      BY <3>1, <3>3 DEF Slots!SlotsNext
  <2>3. QED
    BY <2>1, <2>2
<1>2. CASE PollWrite \/ ScanWrite
  BY <1>1, <1>2 DEF PollWrite, ScanWrite, TypeOK
<1>3. ASSUME NEW u \in Manuals, DispatchOpens(u) PROVE [Slots!SlotsNext]_slot
  <2>1. rows' = [t \in Sources |-> IF t \in {u} THEN "open" ELSE rows[t]]
    BY <1>3 DEF DispatchOpens, TypeOK
  <2>2. Slots!Take({u})
    BY <1>3, <2>1, NewTakes DEF DispatchOpens
  <2>3. QED
    BY <2>2 DEF Slots!SlotsNext
<1>4. ASSUME NEW s \in Sources, rows[s] \in {"open", "inflight"}, rows' = [rows EXCEPT ![s] = "over"]
      PROVE  [Slots!SlotsNext]_slot
  <2>1. s \in Slots!In("held")
    BY <1>4, HoldingIs DEF Slots!In, slot
  <2>2. slot' = [t \in Sources |-> IF t \in {s} THEN "over" ELSE slot[t]]
    BY <1>4, HoldingIs DEF slot, TypeOK
  <2>3. Slots!GiveUp({s})
    BY <2>1, <2>2 DEF Slots!GiveUp, Slots!Move
  <2>4. QED
    BY <2>3 DEF Slots!SlotsNext
<1>5. ASSUME NEW u \in Manuals, DispatchCommits(u) PROVE [Slots!SlotsNext]_slot
  <2>1. CASE rows' = [rows EXCEPT ![u] = "inflight"]
    <3>1. \A t \in Sources : Holding(rows'[t]) = Holding(rows[t])
      BY <1>5, <2>1, HoldingIs DEF DispatchCommits, TypeOK
    <3>2. QED
      BY <3>1 DEF slot
  <2>2. CASE rows' = [rows EXCEPT ![u] = "over"]
    BY <1>4, <1>5, <2>2 DEF DispatchCommits
  <2>3. QED
    BY <1>5, <2>1, <2>2 DEF DispatchCommits
<1>6. ASSUME NEW s \in Sources, MeetingEnds(s) PROVE [Slots!SlotsNext]_slot
  BY <1>4, <1>6 DEF MeetingEnds
<1>7. CASE Crash
  <2> DEFINE S == {s \in Sources : rows[s] = "open"}
  <2>1. S \subseteq Slots!In("held")
    BY HoldingIs DEF Slots!In, slot
  <2>2. slot' = [t \in Sources |-> IF t \in S THEN "free" ELSE slot[t]]
    BY <1>7, HoldingIs DEF Crash, slot
  <2>3. Slots!Withdraw(S)
    BY <2>1, <2>2 DEF Slots!Withdraw, Slots!Move
  <2>4. S \in SUBSET Sources
    OBVIOUS
  <2> HIDE DEF S
  <2>5. QED
    BY <2>3, <2>4 DEF Slots!SlotsNext
<1>8. CASE UNCHANGED rows
  BY <1>8 DEF slot
<1>9. QED
  BY <1>2, <1>3, <1>5, <1>6, <1>7, <1>8
  DEF Next, Poller, Scanner, PollList, PollLook, ScanList, ScanLook, EventAppears,
      EventPasses, MailArrives, vars

(* Towards those who insert rows the table is MeetingSlots: whatever polls,  *)
(* scans and requests do at once, with open transactions and restarts, a     *)
(* code goes from one meeting to the next, and none comes back.              *)
THEOREM RefinesSlots == Spec => ImplementsSlots
<1>1. Init => Slots!SlotsInit
  BY HoldingIs DEF Init, slot, Slots!SlotsInit
<1>2. TypeOK /\ OnePerCode' /\ [Next]_vars => [Slots!SlotsNext]_slot
  BY SlotsStep
<1>3. QED
  BY <1>1, <1>2, TypeCorrect, OneMeetingPerCode, PTL
  DEF Spec, ImplementsSlots, Slots!SlotsSpec
=============================================================================
