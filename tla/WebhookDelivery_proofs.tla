----------------------- MODULE WebhookDelivery_proofs -----------------------
(***************************************************************************)
(* Theorems about WebhookDelivery, for any meetings, events, handlers and  *)
(* bounds.                                                                 *)
(*                                                                         *)
(* ActedOnce is not inductive: a handler at work on an event will act on   *)
(* it, so Accounted counts it already, and an id in the set stands for the *)
(* one action that has been paid for. HandedOff looks ahead in the same    *)
(* way (MarkHolds): a row that is not live stays so unless a poll sets it  *)
(* back, so a handler that loaded something else need not mark. That a     *)
(* poll does so once is OneLateAnswer: what it asks after the end is not   *)
(* answered with a live status. RingIsSet stands alone.                    *)
(***************************************************************************)
EXTENDS WebhookDelivery, FiniteSetTheorems, FunctionTheorems, SequenceTheorems, TLAPS

USE DEF memory, handler, poll, vexa, receiver, faults

\* Handlers at work on e.
InHand(e) == {h \in Handlers : event[h] = e}

\* Every act on an event, done or to be done, has an id recorded or forgotten.
Accounted ==
  \A e \in Events \ Anonymous :
    acted[e] + Cardinality(InHand(e)) <= forgotten[e] + (IF e \in seen THEN 1 ELSE 0)

\* What is recorded or acknowledged was acted on, will be, or is lost.
InGoodHands ==
  \A e \in acked \cup seen :
    acted[e] > 0 \/ e \in broken \/ \E h \in Handlers : event[h] = e

\* A poll that has set its row back did so after the end, with an answer from
\* before it, and gets no such answer any more.
OneLateAnswer ==
  \A q \in Polls :
    \/ setbacks[q] = 0
    \/ setbacks[q] = 1 /\ bot[Polled[q]] = "ended" /\ says[q] \notin Live

\* The meeting is out of flight, or a poll has set it back.
Kept(m) == row[m] \notin Live \/ \E q \in Polls : Polled[q] = m /\ setbacks[q] > 0

\* A handler's meeting is over. One about to spawn has its row marked, one about
\* to mark either loaded a live row or need not.
HandlerHolds(h) ==
  \A m \in Meetings :
    at[h] # "idle" /\ About[event[h]] = m =>
      /\ bot[m] = "ended"
      /\ at[h] = "mark" /\ loaded[h] \notin Live => Kept(m)
      /\ at[h] = "spawn" => Kept(m)

MarkHolds == \A h \in Handlers : HandlerHolds(h)

\* Acted on means over and marked.
ActedHolds ==
  \A e \in Events, m \in Meetings :
    acted[e] > 0 /\ About[e] = m => bot[m] = "ended" /\ Kept(m)

-----------------------------------------------------------------------------
(* Types *)

LEMMA NoEventIsNone ==
  ASSUME TypeOK, NEW h \in Handlers, at[h] # "idle"
  PROVE  event[h] \in Events /\ About[event[h]] \in Meetings
  BY DEF TypeOK

LEMMA RoomShape ==
  ASSUME TypeOK
  PROVE  /\ Room[1] = IF Len(ring) = RingSize THEN Tail(ring) ELSE ring
         /\ Room[2] = IF Len(ring) = RingSize THEN seen \ {Head(ring)} ELSE seen
         /\ Len(ring) = RingSize => ring # <<>>
  BY DeliveryAssumption DEF Room, TypeOK

LEMMA ForgetTyped ==
  ASSUME forgotten \in [Events -> Nat], Forget
  PROVE  forgotten' \in [Events -> Nat]
  BY DEF Forget

LEMMA RecordTyped ==
  ASSUME TypeOK, NEW e \in Events, Record(e)
  PROVE  /\ ring' \in Seq(Events \ Anonymous)
         /\ seen' \subseteq Events \ Anonymous
         /\ forgotten' \in [Events -> Nat]
<1>1. CASE e \in Anonymous
  BY <1>1 DEF Record, TypeOK
<1>2. CASE e \notin Anonymous
  <2>1. ring' = Append(Room[1], e) /\ seen' = Room[2] \cup {e} /\ Forget
    BY <1>2 DEF Record
  <2>2. Room[1] \in Seq(Events \ Anonymous) /\ Room[2] \subseteq Events \ Anonymous
    <3>1. ring \in Seq(Events \ Anonymous) /\ seen \subseteq Events \ Anonymous
      BY DEF TypeOK
    <3>2. CASE Len(ring) = RingSize
      BY <3>1, <3>2, RoomShape, HeadTailProperties
    <3>3. CASE Len(ring) # RingSize
      BY <3>1, <3>3, RoomShape
    <3> QED
      BY <3>2, <3>3
  <2>3. forgotten' \in [Events -> Nat]
    BY <2>1, ForgetTyped DEF TypeOK
  <2> QED
    BY <1>2, <2>1, <2>2, <2>3
<1> QED
  BY <1>1, <1>2

LEMMA TypeInit == Init => TypeOK
  BY DeliveryAssumption DEF Init, TypeOK, Places, PollPlaces, Statuses, Live, Answers

LEMMA AnswerTyped ==
  ASSUME acked \subseteq Events, NEW e \in Events, Answer(e)
  PROVE  acked' \subseteq Events
  BY DEF Answer

LEMMA RestTyped ==
  ASSUME TypeOK, NEW h \in Handlers, Rest(h)
  PROVE  /\ at' \in [Handlers -> Places]
         /\ event' \in [Handlers -> {e \in Events : About[e] \in Meetings} \cup {NoEvent}]
         /\ \A g \in Handlers : at'[g] = "idle" <=> event'[g] = NoEvent
         /\ loaded' \in [Handlers -> Statuses]
  BY DEF Rest, TypeOK, Places, Statuses, Live

LEMMA PollTyped ==
  ASSUME TypeOK, NEW q \in Polls, Poll(q) \/ PollFails(q)
  PROVE  TypeOK'
<1> DEFINE m == Polled[q]
<1>0. /\ m \in Meetings /\ row \in [Meetings -> Statuses] /\ bot \in [Meetings -> Live \cup {"ended"}]
      /\ pollAt \in [Polls -> PollPlaces] /\ held \in [Polls -> Statuses]
      /\ says \in [Polls -> Answers] /\ setbacks \in [Polls -> Nat]
      /\ failures \in 0 .. MaxFailures
  BY DeliveryAssumption DEF TypeOK
<1>1. ASSUME row' \in [Meetings -> Statuses], pollAt' \in [Polls -> PollPlaces],
             held' \in [Polls -> Statuses], says' \in [Polls -> Answers],
             setbacks' \in [Polls -> Nat], failures' \in 0 .. MaxFailures,
             UNCHANGED <<bot, receiver, crashes>>
      PROVE  TypeOK'
  BY <1>1 DEF TypeOK
<1>r. ASSUME PollRests(q)
      PROVE  /\ pollAt' \in [Polls -> PollPlaces] /\ held' \in [Polls -> Statuses]
             /\ says' \in [Polls -> Answers]
  BY <1>0, <1>r DEF PollRests, PollPlaces, Statuses, Live, Answers
<1>2. CASE PollSelects(q)
  BY <1>0, <1>1, <1>2 DEF PollSelects, PollPlaces
<1>3. CASE PollLoads(q)
  BY <1>0, <1>1, <1>3 DEF PollLoads, PollPlaces
<1>4. CASE PollAsks(q)
  <2>1. AnswersFor(m) \subseteq Answers
    BY <1>0 DEF AnswersFor, Answers, Live
  <2> QED
    BY <1>0, <1>1, <1>4, <2>1 DEF PollAsks, PollPlaces
<1>5. CASE PollWrites(q)
  <2> DEFINE status == Refreshed(row[m], held[q], says[q])
  <2>1. status \in Statuses
    <3>1. row[m] \in Statuses /\ says[q] \in Answers
      BY <1>0
    <3> QED
      BY <3>1 DEF Refreshed, Answers, Statuses, Live
  <2>2. /\ row' = [row EXCEPT ![m] = status]
        /\ setbacks' \in {[setbacks EXCEPT ![q] = @ + 1], setbacks}
        /\ \/ PollRests(q)
           \/ /\ pollAt' = [pollAt EXCEPT ![q] = "stop"]
              /\ held' = [held EXCEPT ![q] = status]
              /\ says' = [says EXCEPT ![q] = "gone"]
        /\ UNCHANGED <<bot, receiver, faults>>
    BY <1>5 DEF PollWrites
  <2> HIDE DEF status
  <2>3. row' \in [Meetings -> Statuses] /\ setbacks' \in [Polls -> Nat]
    BY <1>0, <2>1, <2>2
  <2>4. /\ pollAt' \in [Polls -> PollPlaces] /\ held' \in [Polls -> Statuses]
        /\ says' \in [Polls -> Answers]
    <3>1. CASE PollRests(q)
      BY <1>r, <3>1
    <3>2. CASE ~PollRests(q)
      BY <1>0, <2>1, <2>2, <3>2 DEF PollPlaces, Answers
    <3> QED
      BY <3>1, <3>2
  <2> QED
    BY <1>0, <1>1, <2>2, <2>3, <2>4
<1>6. CASE PollStops(q)
  BY <1>0, <1>1, <1>r, <1>6 DEF PollStops, Statuses
<1>7. CASE PollFails(q)
  BY <1>0, <1>1, <1>r, <1>7, DeliveryAssumption DEF PollFails
<1> QED
  BY <1>2, <1>3, <1>4, <1>5, <1>6, <1>7 DEF Poll

LEMMA TypeStep == TypeOK /\ [Next]_vars => TypeOK'
<1> SUFFICES ASSUME TypeOK, [Next]_vars
             PROVE  TypeOK'
  OBVIOUS
<1> USE DeliveryAssumption
<1>1. ASSUME NEW e \in Events, Delivery(e)
      PROVE  /\ delivered' \in [Events -> Nat]
             /\ \A d \in Events : delivered'[d] <= Tries[d]
  BY <1>1 DEF Delivery, TypeOK
<1>2. ASSUME NEW e \in Events, Refuse(e) PROVE TypeOK'
  <2>1. Delivery(e)
    BY <1>2 DEF Refuse
  <2> QED
    BY <1>1, <1>2, <2>1 DEF Refuse, TypeOK
<1>3. ASSUME NEW e \in Events, Duplicate(e) PROVE TypeOK'
  <2>1. Delivery(e) /\ Answer(e)
    BY <1>3 DEF Duplicate
  <2>2. acked' \subseteq Events
    BY <2>1, AnswerTyped DEF TypeOK
  <2> QED
    BY <1>1, <1>3, <2>1, <2>2 DEF Duplicate, TypeOK
<1>4. ASSUME NEW e \in Events, Ignore(e) PROVE TypeOK'
  <2>1. Delivery(e) /\ Answer(e) /\ Record(e)
    BY <1>4 DEF Ignore
  <2>2. acked' \subseteq Events
    BY <2>1, AnswerTyped DEF TypeOK
  <2>3. acted' \in [Events -> Nat]
    BY <1>4 DEF Ignore, TypeOK
  <2> QED
    BY <1>1, <1>4, <2>1, <2>2, <2>3, RecordTyped DEF Ignore, TypeOK
<1>5. ASSUME NEW e \in Events, NEW h \in Handlers, Begin(h, e) PROVE TypeOK'
  <2>1. Delivery(e) /\ Record(e) /\ About[e] \in Meetings
    BY <1>5 DEF Begin
  <2>2. e # NoEvent
    BY DeliveryAssumption
  <2>3. /\ at' \in [Handlers -> Places]
        /\ event' \in [Handlers -> {d \in Events : About[d] \in Meetings} \cup {NoEvent}]
        /\ \A g \in Handlers : at'[g] = "idle" <=> event'[g] = NoEvent
    BY <1>5, <2>1, <2>2 DEF Begin, TypeOK, Places
  <2> QED
    BY <1>1, <1>5, <2>1, <2>3, RecordTyped DEF Begin, TypeOK
<1>6. ASSUME NEW h \in Handlers, Find(h) PROVE TypeOK'
  <2>1. row[Meeting(h)] \in Statuses
    BY <1>6, NoEventIsNone DEF Find, TypeOK, Meeting
  <2> QED
    BY <1>6, <2>1 DEF Find, TypeOK, Places
<1>7. ASSUME NEW h \in Handlers, Mark(h) PROVE TypeOK'
  BY <1>7 DEF Mark, Marked, TypeOK, Places, Statuses
<1>8. ASSUME NEW h \in Handlers, Spawn(h) PROVE TypeOK'
  <2>1. event[h] \in Events
    BY <1>8, NoEventIsNone DEF Spawn
  <2>2. acked' \subseteq Events
    BY <1>8, <2>1, AnswerTyped DEF Spawn, TypeOK
  <2>3. acted' \in [Events -> Nat] /\ tasks' \in [Meetings -> Nat]
    <3>1. acted \in [Events -> Nat] /\ tasks \in [Meetings -> Nat]
      BY DEF TypeOK
    <3>2. Meeting(h) \in Meetings
      BY <1>8, NoEventIsNone DEF Spawn, Meeting
    <3>3. acted[event[h]] + 1 \in Nat /\ tasks[Meeting(h)] + 1 \in Nat
      BY <2>1, <3>1, <3>2
    <3>4. /\ acted' = [acted EXCEPT ![event[h]] = acted[event[h]] + 1]
          /\ tasks' = [tasks EXCEPT ![Meeting(h)] = tasks[Meeting(h)] + 1]
      BY <1>8 DEF Spawn
    <3> QED
      BY <3>1, <3>3, <3>4
  <2> QED
    BY <1>8, <2>2, <2>3, RestTyped DEF Spawn, TypeOK
<1>9. ASSUME NEW h \in Handlers, HandlerFails(h) PROVE TypeOK'
  <2>1. event[h] \in Events /\ Rest(h)
    BY <1>9, NoEventIsNone DEF HandlerFails
  <2>2. failures' \in 0 .. MaxFailures
    BY <1>9 DEF HandlerFails, TypeOK
  <2> QED
    BY <1>9, <2>1, <2>2, RestTyped DEF HandlerFails, TypeOK
<1>10. ASSUME NEW m \in Meetings, Admit(m) \/ End(m) \/ TaskEnds(m) \/ ProcessPending(m)
       PROVE  TypeOK'
  <2>1. CASE Admit(m) \/ End(m)
    BY <2>1 DEF Admit, End, TypeOK, Live
  <2>2. ASSUME row' \in [Meetings -> Statuses], tasks' \in [Meetings -> Nat],
               failures' \in 0 .. MaxFailures,
               UNCHANGED <<bot, poll, memory, handler, vexa, acted, broken, crashes>>
        PROVE  TypeOK'
    BY <2>2 DEF TypeOK
  <2>3. row \in [Meetings -> Statuses] /\ tasks \in [Meetings -> Nat]
    BY DEF TypeOK
  <2>4. failures \in 0 .. MaxFailures
        /\ (failures < MaxFailures => failures + 1 \in 0 .. MaxFailures)
    BY DEF TypeOK
  <2>5. CASE TaskEnds(m)
    BY <2>2, <2>3, <2>4, <2>5 DEF TaskEnds, Statuses
  <2>6. CASE ProcessPending(m)
    BY <2>2, <2>3, <2>4, <2>6 DEF ProcessPending, Statuses
  <2> QED
    BY <1>10, <2>1, <2>5, <2>6
<1>p. ASSUME NEW q \in Polls, Poll(q) \/ PollFails(q) PROVE TypeOK'
  BY <1>p, PollTyped
<1>11. CASE Crash
  <2>1. {event[h] : h \in {g \in Handlers : at[g] # "idle"}} \subseteq Events
    BY NoEventIsNone
  <2>2. forgotten' \in [Events -> Nat]
    BY <1>11, ForgetTyped DEF Crash, TypeOK
  <2> QED
    BY <1>11, <2>1, <2>2 DEF Crash, TypeOK, Places, PollPlaces, Statuses, Live, Answers
<1>12. CASE UNCHANGED vars
  BY <1>12 DEF vars, TypeOK
<1> QED
  BY <1>2, <1>3, <1>4, <1>5, <1>6, <1>7, <1>8, <1>9, <1>10, <1>11, <1>12, <1>p
  DEF Next, Handle

LEMMA TypeAlways == Spec => []TypeOK
  BY TypeInit, TypeStep, PTL DEF Spec

-----------------------------------------------------------------------------
(* The ring *)

LEMMA RecordKeepsRing ==
  ASSUME TypeOK, RingIsSet, NEW e \in Events, ~Known(e), Record(e)
  PROVE  RingIsSet'
<1>1. CASE e \in Anonymous
  BY <1>1 DEF Record, RingIsSet
<1>2. CASE e \notin Anonymous
  <2> DEFINE T == Events \ Anonymous
             r == Room[1]
  <2>1. ring' = Append(r, e) /\ seen' = Room[2] \cup {e} /\ e \notin seen
    BY <1>2 DEF Record, Known
  <2>2. ring \in Seq(T) /\ e \in T
    BY <1>2 DEF TypeOK
  <2>3. /\ r \in Seq(T)
        /\ Len(r) < RingSize
        /\ Room[2] = {r[i] : i \in 1 .. Len(r)}
        /\ \A i, j \in 1 .. Len(r) : r[i] = r[j] => i = j
    <3>1. /\ seen = {ring[i] : i \in 1 .. Len(ring)}
          /\ \A i, j \in 1 .. Len(ring) : ring[i] = ring[j] => i = j
          /\ Len(ring) \in Nat /\ RingSize \in Nat /\ Len(ring) <= RingSize
      BY <2>2, DeliveryAssumption DEF RingIsSet
    <3>2. CASE Len(ring) = RingSize
      <4>1. ring # <<>> /\ r = Tail(ring) /\ Room[2] = seen \ {Head(ring)}
        BY <3>2, RoomShape
      <4>2. /\ r \in Seq(T) /\ Len(r) = Len(ring) - 1
            /\ \A i \in 1 .. Len(r) : r[i] = ring[i + 1]
            /\ Head(ring) = ring[1]
        BY <2>2, <4>1, HeadTailProperties
      <4>3. Room[2] = {r[i] : i \in 1 .. Len(r)}
        <5>1. ASSUME NEW d \in Room[2] PROVE d \in {r[i] : i \in 1 .. Len(r)}
          <6>1. PICK i \in 1 .. Len(ring) : d = ring[i] /\ i # 1
            BY <3>1, <4>1, <4>2
          <6> QED
            BY <3>1, <4>2, <6>1, i - 1 \in 1 .. Len(r), (i - 1) + 1 = i
        <5>2. ASSUME NEW i \in 1 .. Len(r) PROVE r[i] \in Room[2]
          BY <3>1, <4>1, <4>2, i + 1 \in 1 .. Len(ring), i + 1 # 1, 1 \in 1 .. Len(ring)
        <5> QED
          BY <5>1, <5>2
      <4> QED
        BY <3>1, <3>2, <4>2, <4>3
    <3>3. CASE Len(ring) # RingSize
      BY <2>2, <3>1, <3>3, RoomShape
    <3> QED
      BY <3>2, <3>3
  <2> HIDE DEF r
  <2>4. /\ Len(ring') = Len(r) + 1
        /\ \A i \in 1 .. Len(r) : ring'[i] = r[i]
        /\ ring'[Len(r) + 1] = e
        /\ DOMAIN ring' = 1 .. Len(r) + 1
        /\ Len(r) \in Nat
    BY <2>1, <2>2, <2>3, AppendProperties
  <2>5. e \notin Room[2]
    BY <2>1, RoomShape
  <2>6. seen' = {ring'[i] : i \in DOMAIN ring'}
    <3>1. \A i \in 1 .. Len(r) + 1 : i = Len(r) + 1 \/ i \in 1 .. Len(r)
      BY <2>4
    <3> QED
      BY <2>1, <2>3, <2>4, <3>1
  <2>7. \A i, j \in DOMAIN ring' : ring'[i] = ring'[j] => i = j
    BY <2>3, <2>4, <2>5
  <2>8. Len(ring') <= RingSize
    BY <2>3, <2>4, DeliveryAssumption
  <2> QED
    BY <2>6, <2>7, <2>8 DEF RingIsSet
<1> QED
  BY <1>1, <1>2

LEMMA RingStep == TypeOK /\ RingIsSet /\ [Next]_vars => RingIsSet'
<1> SUFFICES ASSUME TypeOK, RingIsSet, [Next]_vars
             PROVE  RingIsSet'
  OBVIOUS
<1>1. ASSUME NEW e \in Events, Ignore(e) \/ \E h \in Handlers : Begin(h, e)
      PROVE  RingIsSet'
  BY <1>1, RecordKeepsRing DEF Ignore, Begin
<1>2. CASE Crash
  <2>1. ring' = <<>> /\ seen' = {}
    BY <1>2 DEF Crash
  <2> QED
    BY <2>1, DeliveryAssumption DEF RingIsSet
<1>3. CASE UNCHANGED memory
  BY <1>3 DEF RingIsSet
<1> QED
  BY <1>1, <1>2, <1>3
  DEF Next, vars, Refuse, Duplicate, Handle, Find, Mark, Spawn, HandlerFails,
      Admit, End, TaskEnds, ProcessPending,
      Poll, PollFails, PollSelects, PollLoads, PollAsks, PollWrites, PollStops

(* Ring and set never come apart and stay within RingSize (_already_seen,  *)
(* webhooks.py:87-98).                                                     *)
THEOREM RingCorrect == Spec => []RingIsSet
<1>1. Init => RingIsSet
  BY DeliveryAssumption DEF Init, RingIsSet
<1> QED
  BY <1>1, TypeAlways, RingStep, PTL DEF Spec

-----------------------------------------------------------------------------
(* Acting on an event *)

LEMMA InHandFinite ==
  ASSUME NEW e
  PROVE  IsFiniteSet(InHand(e)) /\ Cardinality(InHand(e)) \in Nat
<1>1. IsFiniteSet(InHand(e))
  BY DeliveryAssumption, FS_Subset DEF InHand
<1> QED
  BY <1>1, FS_CardinalityType

\* A handler that takes e up is one more, one that rests is one less.
LEMMA TakenUp ==
  ASSUME TypeOK, NEW h \in Handlers, NEW e \in Events, Begin(h, e)
  PROVE  \A d \in Events :
           Cardinality(InHand(d)') =
             Cardinality(InHand(d)) + (IF d = e THEN 1 ELSE 0)
<1> TAKE d \in Events
<1>1. event[h] = NoEvent /\ event' = [event EXCEPT ![h] = e] /\ NoEvent # d
  BY DeliveryAssumption DEF Begin, TypeOK
<1>2. CASE d = e
  <2>1. InHand(d)' = InHand(d) \cup {h} /\ h \notin InHand(d)
    BY <1>1, <1>2 DEF InHand, TypeOK
  <2> QED
    BY <1>2, <2>1, InHandFinite, FS_AddElement
<1>3. CASE d # e
  <2>1. InHand(d)' = InHand(d)
    BY <1>1, <1>3 DEF InHand, TypeOK
  <2> QED
    BY <1>3, <2>1, InHandFinite
<1> QED
  BY <1>2, <1>3

LEMMA PutDown ==
  ASSUME TypeOK, NEW h \in Handlers, at[h] # "idle", Rest(h)
  PROVE  \A d \in Events :
           /\ Cardinality(InHand(d)') \in Nat
           /\ Cardinality(InHand(d)') =
                Cardinality(InHand(d)) - (IF d = event[h] THEN 1 ELSE 0)
<1> TAKE d \in Events
<1>1. event' = [event EXCEPT ![h] = NoEvent] /\ NoEvent # d
  BY DeliveryAssumption DEF Rest
<1>0. IsFiniteSet(InHand(d)') /\ Cardinality(InHand(d)') \in Nat
  <2>1. IsFiniteSet(InHand(d)')
    BY DeliveryAssumption, FS_Subset DEF InHand
  <2> QED
    BY <2>1, FS_CardinalityType
<1>2. CASE d = event[h]
  <2>1. InHand(d)' = InHand(d) \ {h} /\ h \in InHand(d)
    BY <1>1, <1>2 DEF InHand, TypeOK
  <2> QED
    BY <1>0, <1>2, <2>1, InHandFinite, FS_RemoveElement
<1>3. CASE d # event[h]
  <2>1. InHand(d)' = InHand(d)
    BY <1>1, <1>3 DEF InHand, TypeOK
  <2> QED
    BY <1>0, <1>3, <2>1, InHandFinite
<1> QED
  BY <1>2, <1>3

\* Forgetting an id pays for what is done when it comes again.
LEMMA ForgetPays ==
  ASSUME TypeOK, Forget, seen' \subseteq Events, NEW e \in Events
  PROVE  /\ forgotten'[e] \in Nat
         /\ forgotten'[e] + (IF e \in seen' THEN 1 ELSE 0)
              >= forgotten[e] + (IF e \in seen THEN 1 ELSE 0)
         /\ e \notin seen /\ e \in seen' =>
              forgotten'[e] + 1 = forgotten[e] + 1
<1>1. forgotten'[e] = IF e \in seen \ seen' THEN forgotten[e] + 1 ELSE forgotten[e]
  BY DEF Forget
<1>2. forgotten[e] \in Nat
  BY DEF TypeOK
<1> QED
  BY <1>1, <1>2

LEMMA AccountedStep == TypeOK /\ Accounted /\ [Next]_vars => Accounted'
<1> SUFFICES ASSUME TypeOK, Accounted, [Next]_vars
             PROVE  Accounted'
  OBVIOUS
<1> DEFINE Paid(e) == forgotten[e] + (IF e \in seen THEN 1 ELSE 0)
           Due(e) == acted[e] + Cardinality(InHand(e))
<1>0. \A e \in Events : /\ acted[e] \in Nat /\ forgotten[e] \in Nat
                        /\ Cardinality(InHand(e)) \in Nat
                        /\ Paid(e) \in Nat /\ Due(e) \in Nat
  BY InHandFinite DEF TypeOK
<1>1. ASSUME NEW d \in Events, ~Known(d), Record(d),
             \A e \in Events : Due(e)' = Due(e) + (IF e = d THEN 1 ELSE 0)
      PROVE  Accounted'
  <2> SUFFICES ASSUME NEW e \in Events \ Anonymous
               PROVE  Due(e)' <= Paid(e)'
    BY DEF Accounted
  <2>1. Due(e) <= Paid(e)
    BY DEF Accounted
  <2>2. CASE d \in Anonymous
    <3>1. Paid(e)' = Paid(e) /\ e # d
      BY <1>1, <2>2 DEF Record
    <3> QED
      BY <1>0, <1>1, <2>1, <3>1
  <2>3. CASE d \notin Anonymous
    <3>1. Forget /\ seen' \subseteq Events /\ d \in seen' /\ d \notin seen
      BY <1>1, <2>3, RecordTyped DEF Record, Known
    <3>2. Paid(e)' >= Paid(e) + (IF e = d THEN 1 ELSE 0)
      BY <1>0, <3>1, ForgetPays
    <3>3. Paid(e)' \in Nat
      BY <3>1, ForgetPays
    <3> QED
      BY <1>0, <1>1, <2>1, <3>2, <3>3
  <2> QED
    BY <2>2, <2>3
<1>2. ASSUME NEW e \in Events, Ignore(e) PROVE Accounted'
  <2>1. \A d \in Events : Due(d)' = Due(d) + (IF d = e THEN 1 ELSE 0)
    <3>1. acted' = [acted EXCEPT ![e] = @ + 1] /\ event' = event
      BY <1>2 DEF Ignore
    <3>2. \A d \in Events : InHand(d)' = InHand(d)
      BY <3>1 DEF InHand
    <3> QED
      BY <1>0, <3>1, <3>2 DEF TypeOK
  <2> QED
    BY <1>1, <1>2, <2>1 DEF Ignore
<1>3. ASSUME NEW e \in Events, NEW h \in Handlers, Begin(h, e) PROVE Accounted'
  <2>1. \A d \in Events : Due(d)' = Due(d) + (IF d = e THEN 1 ELSE 0)
    <3>1. acted' = acted
      BY <1>3 DEF Begin
    <3> QED
      BY <1>0, <1>3, <3>1, TakenUp
  <2> QED
    BY <1>1, <1>3, <2>1 DEF Begin
<1>4. ASSUME NEW h \in Handlers, Spawn(h) PROVE Accounted'
  <2>1. /\ at[h] # "idle" /\ Rest(h)
        /\ acted' = [acted EXCEPT ![event[h]] = @ + 1]
        /\ UNCHANGED <<seen, forgotten>>
    BY <1>4 DEF Spawn
  <2>2. \A d \in Events : Due(d)' = Due(d)
    <3> TAKE d \in Events
    <3>1. acted'[d] = acted[d] + (IF d = event[h] THEN 1 ELSE 0)
      BY <2>1 DEF TypeOK
    <3>2. Cardinality(InHand(d)') =
            Cardinality(InHand(d)) - (IF d = event[h] THEN 1 ELSE 0)
      BY <2>1, PutDown
    <3> QED
      BY <1>0, <3>1, <3>2
  <2> QED
    BY <2>1, <2>2 DEF Accounted
<1>5. ASSUME NEW h \in Handlers, HandlerFails(h) PROVE Accounted'
  <2>1. at[h] # "idle" /\ Rest(h) /\ UNCHANGED <<seen, forgotten, acted>>
    BY <1>5 DEF HandlerFails
  <2>2. \A d \in Events : Due(d)' <= Due(d)
    BY <1>0, <2>1, PutDown
  <2>3. \A d \in Events : Due(d)' \in Nat
    BY <1>0, <2>1, PutDown
  <2> QED
    BY <1>0, <2>1, <2>2, <2>3 DEF Accounted
<1>6. CASE Crash
  <2>1. /\ Forget /\ seen' = {} /\ acted' = acted
        /\ event' = [h \in Handlers |-> NoEvent]
    BY <1>6 DEF Crash
  <2>2. \A d \in Events : Cardinality(InHand(d)') = 0
    <3>1. \A d \in Events : InHand(d)' = {}
      BY <2>1, DeliveryAssumption DEF InHand
    <3> QED
      BY <3>1, FS_EmptySet
  <2> SUFFICES ASSUME NEW e \in Events \ Anonymous
               PROVE  Due(e)' <= Paid(e)'
    BY DEF Accounted
  <2>3. Due(e) <= Paid(e)
    BY DEF Accounted
  <2> QED
    BY <1>0, <2>1, <2>2, <2>3, ForgetPays
<1>7. CASE UNCHANGED <<event, seen, forgotten, acted>>
  BY <1>7 DEF Accounted, InHand
<1> QED
  BY <1>2, <1>3, <1>4, <1>5, <1>6, <1>7
  DEF Next, vars, Refuse, Duplicate, Handle, Find, Mark,
      Admit, End, TaskEnds, ProcessPending,
      Poll, PollFails, PollSelects, PollLoads, PollAsks, PollWrites, PollStops

(* However events are redelivered and handlers overlap, an event is acted  *)
(* on at most once more often than its id was forgotten (webhooks.py:176,  *)
(* "a replayed/duplicate event_id is acknowledged but not re-run").        *)
THEOREM ActedOnceCorrect == Spec => []ActedOnce
<1>1. Init => Accounted
  <2> SUFFICES ASSUME Init PROVE Accounted
    OBVIOUS
  <2> SUFFICES ASSUME NEW d \in Events \ Anonymous
               PROVE  acted[d] + Cardinality(InHand(d))
                        <= forgotten[d] + (IF d \in seen THEN 1 ELSE 0)
    BY DEF Accounted
  <2>1. InHand(d) = {}
    BY DeliveryAssumption DEF Init, InHand
  <2>2. Cardinality(InHand(d)) = 0
    BY <2>1, FS_EmptySet
  <2>3. acted[d] = 0 /\ forgotten[d] = 0 /\ d \notin seen
    BY DEF Init
  <2> QED
    BY <2>2, <2>3
<1>2. TypeOK /\ Accounted => ActedOnce
  <2> SUFFICES ASSUME TypeOK, Accounted, NEW d \in Events \ Anonymous
               PROVE  acted[d] <= forgotten[d] + 1
    BY DEF ActedOnce
  <2>1. acted[d] \in Nat /\ forgotten[d] \in Nat /\ Cardinality(InHand(d)) \in Nat
    BY InHandFinite DEF TypeOK
  <2>2. acted[d] + Cardinality(InHand(d)) <= forgotten[d] + (IF d \in seen THEN 1 ELSE 0)
    BY DEF Accounted
  <2> QED
    BY <2>1, <2>2
<1> QED
  BY <1>1, <1>2, TypeAlways, AccountedStep, PTL DEF Spec

-----------------------------------------------------------------------------
(* A ring with room for every id *)

\* What the deque's maxlen must be for nothing to fall out of it.
RoomForAll ==
  /\ IsFiniteSet(Events \ Anonymous)
  /\ Cardinality(Events \ Anonymous) <= RingSize

\* The ring counts its ids.
LEMMA RingCounts ==
  ASSUME TypeOK, RingIsSet
  PROVE  IsFiniteSet(seen) /\ Cardinality(seen) = Len(ring)
<1>1. ring \in Seq(Events \ Anonymous) /\ Len(ring) \in Nat /\ DOMAIN ring = 1 .. Len(ring)
  BY DEF TypeOK
<1>2. ring \in [1 .. Len(ring) -> seen]
  BY <1>1, SeqDef DEF RingIsSet
<1>3. /\ \A i, j \in 1 .. Len(ring) : ring[i] = ring[j] => i = j
      /\ \A e \in seen : \E i \in 1 .. Len(ring) : ring[i] = e
  BY <1>1 DEF RingIsSet
<1>4. ring \in Bijection(1 .. Len(ring), seen)
  BY <1>2, <1>3, Fun_IsBij
<1>5. ExistsBijection(1 .. Len(ring), seen)
  BY <1>4, Fun_ExistsBij
<1>6. IsFiniteSet(1 .. Len(ring)) /\ Cardinality(1 .. Len(ring)) = Len(ring)
  BY <1>1, FS_Interval
<1> QED
  BY <1>5, <1>6, FS_Bijection

LEMMA RoomIsLeft ==
  ASSUME RoomForAll, TypeOK, RingIsSet, NEW e \in Events, ~Known(e), Record(e)
  PROVE  seen \subseteq seen'
<1>1. CASE e \in Anonymous
  BY <1>1 DEF Record
<1>2. CASE e \notin Anonymous
  <2>1. e \notin seen /\ seen \cup {e} \in SUBSET (Events \ Anonymous)
    BY <1>2 DEF Known, TypeOK
  <2>2. Cardinality(seen \cup {e}) = Len(ring) + 1
    BY <2>1, RingCounts, FS_AddElement
  <2>3. Cardinality(seen \cup {e}) <= Cardinality(Events \ Anonymous)
    BY <2>1, FS_Subset DEF RoomForAll
  <2>4. Cardinality(Events \ Anonymous) \in Nat /\ Len(ring) \in Nat /\ RingSize \in Nat
    BY FS_CardinalityType, DeliveryAssumption DEF RoomForAll, TypeOK
  <2>5. Len(ring) # RingSize
    BY <2>2, <2>3, <2>4 DEF RoomForAll
  <2> QED
    BY <1>2, <2>5, RoomShape DEF Record
<1> QED
  BY <1>1, <1>2

\* Only restarts forget.
Remembered == \A e \in Events : forgotten[e] <= crashes

LEMMA RememberedStep ==
  RoomForAll /\ TypeOK /\ RingIsSet /\ Remembered /\ [Next]_vars => Remembered'
<1> SUFFICES ASSUME RoomForAll, TypeOK, RingIsSet, Remembered, [Next]_vars
             PROVE  Remembered'
  OBVIOUS
<1>0. crashes \in Nat /\ \A e \in Events : forgotten[e] \in Nat
  BY DeliveryAssumption DEF TypeOK
<1>1. ASSUME NEW e \in Events, Ignore(e) \/ \E h \in Handlers : Begin(h, e)
      PROVE  Remembered'
  <2>1. ~Known(e) /\ Record(e) /\ UNCHANGED crashes
    BY <1>1 DEF Ignore, Begin
  <2>2. CASE e \in Anonymous
    BY <2>1, <2>2 DEF Record, Remembered
  <2>3. CASE e \notin Anonymous
    <3>1. Forget /\ seen \subseteq seen'
      BY <2>1, <2>3, RoomIsLeft DEF Record
    <3>2. \A d \in Events : forgotten'[d] = forgotten[d]
      BY <3>1 DEF Forget
    <3> QED
      BY <2>1, <3>2 DEF Remembered
  <2> QED
    BY <2>2, <2>3
<1>2. CASE Crash
  <2>1. crashes' = crashes + 1 /\ \A d \in Events : forgotten'[d] \in {forgotten[d], forgotten[d] + 1}
    BY <1>2 DEF Crash, Forget
  <2> QED
    BY <1>0, <2>1 DEF Remembered
<1>3. CASE UNCHANGED <<forgotten, crashes>>
  BY <1>3 DEF Remembered
<1> QED
  BY <1>1, <1>2, <1>3
  DEF Next, vars, Refuse, Duplicate, Handle, Find, Mark, Spawn, HandlerFails,
      Admit, End, TaskEnds, ProcessPending,
      Poll, PollFails, PollSelects, PollLoads, PollAsks, PollWrites, PollStops

(* With a ring that has room for every id (2048 of them, webhooks.py:80),  *)
(* only restarts make an event be acted on again: without one, what Vexa   *)
(* delivers at least once is acted on at most once.                        *)
THEOREM OncePerRestart ==
  ASSUME RoomForAll
  PROVE  Spec => [](\A e \in Events \ Anonymous : acted[e] <= crashes + 1)
<1>1. Init => Remembered
  BY DEF Init, Remembered
<1>2. TypeOK /\ RingIsSet /\ Remembered /\ [Next]_vars => Remembered'
  BY RememberedStep
<1>3. TypeOK /\ Remembered /\ ActedOnce
        => \A e \in Events \ Anonymous : acted[e] <= crashes + 1
  <2> SUFFICES ASSUME TypeOK, Remembered, ActedOnce, NEW e \in Events \ Anonymous
               PROVE  acted[e] <= crashes + 1
    OBVIOUS
  <2>1. acted[e] \in Nat /\ forgotten[e] \in Nat /\ crashes \in Nat
    BY DeliveryAssumption DEF TypeOK
  <2>2. acted[e] <= forgotten[e] + 1 /\ forgotten[e] <= crashes
    BY DEF Remembered, ActedOnce
  <2> QED
    BY <2>1, <2>2
<1> QED
  BY <1>1, <1>2, <1>3, TypeAlways, RingCorrect, ActedOnceCorrect, PTL DEF Spec

-----------------------------------------------------------------------------
(* What is acknowledged, and what is handed over *)

LEMMA RecordAddsOne ==
  ASSUME NEW e, Record(e)
  PROVE  seen' \subseteq seen \cup {e}
  BY DEF Record, Room

LEMMA HandsStep == TypeOK /\ InGoodHands /\ [Next]_vars => InGoodHands'
<1> SUFFICES ASSUME TypeOK, InGoodHands, [Next]_vars,
                    NEW e \in acked' \cup seen'
             PROVE  \/ acted'[e] > 0 \/ e \in broken'
                    \/ \E h \in Handlers : event'[h] = e
  BY DEF InGoodHands
<1> DEFINE Fine == acted[e] > 0 \/ e \in broken \/ \E h \in Handlers : event[h] = e
<1>0. e \in acked \cup seen => Fine
  BY DEF InGoodHands
<1>1. ASSUME NEW d \in Events, Refuse(d) \/ Duplicate(d)
      PROVE  e \in acked \cup seen /\ UNCHANGED <<acted, broken, event>>
  BY <1>1 DEF Refuse, Duplicate, Known, Answer
<1>2. ASSUME NEW d \in Events, Ignore(d) PROVE acted'[e] > 0 \/ (Fine /\ UNCHANGED <<broken, event>> /\ acted'[e] = acted[e])
  <2>1. e = d \/ e \in acked \cup seen
    BY <1>2, RecordAddsOne DEF Ignore, Answer
  <2> QED
    BY <1>0, <1>2, <2>1 DEF Ignore, TypeOK
<1>3. ASSUME NEW d \in Events, NEW h \in Handlers, Begin(h, d)
      PROVE  acted'[e] > 0 \/ e \in broken' \/ \E g \in Handlers : event'[g] = e
  <2>1. /\ event[h] = NoEvent /\ event' = [event EXCEPT ![h] = d]
        /\ UNCHANGED <<acted, broken, acked>>
    BY <1>3 DEF Begin, TypeOK
  <2>2. event'[h] = d /\ \A g \in Handlers \ {h} : event'[g] = event[g]
    BY <2>1 DEF TypeOK
  <2>3. e = d \/ e \in acked \cup seen
    BY <1>3, <2>1, RecordAddsOne DEF Begin
  <2>4. e \in Events
    BY <1>3, <2>1, RecordTyped DEF Begin, TypeOK
  <2> QED
    BY <1>0, <2>1, <2>2, <2>3, <2>4, DeliveryAssumption
<1>4. ASSUME NEW h \in Handlers, Spawn(h)
      PROVE  acted'[e] > 0 \/ e \in broken' \/ \E g \in Handlers : event'[g] = e
  <2>1. /\ event[h] \in Events
        /\ acted' = [acted EXCEPT ![event[h]] = @ + 1]
        /\ event' = [event EXCEPT ![h] = NoEvent]
        /\ UNCHANGED <<seen, broken>>
    BY <1>4, NoEventIsNone DEF Spawn, Rest
  <2>2. e = event[h] \/ e \in acked \cup seen
    BY <1>4, <2>1 DEF Spawn, Answer
  <2>3. CASE e = event[h]
    BY <2>1, <2>3 DEF TypeOK
  <2>4. CASE e # event[h]
    <3>1. Fine /\ acted'[e] = acted[e]
      BY <1>0, <2>1, <2>2, <2>4 DEF TypeOK
    <3>2. \A g \in Handlers : event[g] = e => event'[g] = e
      BY <2>1, <2>4 DEF TypeOK
    <3> QED
      BY <2>1, <3>1, <3>2
  <2> QED
    BY <2>3, <2>4
<1>5. ASSUME NEW h \in Handlers, HandlerFails(h)
      PROVE  acted'[e] > 0 \/ e \in broken' \/ \E g \in Handlers : event'[g] = e
  <2>1. /\ broken' = broken \cup {event[h]}
        /\ event' = [event EXCEPT ![h] = NoEvent]
        /\ UNCHANGED <<seen, acked, acted>>
    BY <1>5 DEF HandlerFails, Rest
  <2>2. e \in broken' \/ \A g \in Handlers : event[g] = e => event'[g] = e
    BY <2>1 DEF TypeOK
  <2> QED
    BY <1>0, <2>1, <2>2
<1>6. CASE Crash
  <2>1. /\ broken' = broken \cup {event[h] : h \in {g \in Handlers : at[g] # "idle"}}
        /\ UNCHANGED <<acked, acted>> /\ seen' = {}
    BY <1>6 DEF Crash
  <2>2. e \in Events /\ Fine
    BY <1>0, <2>1 DEF TypeOK
  <2>3. ASSUME NEW h \in Handlers, event[h] = e PROVE e \in broken'
    BY <2>1, <2>2, <2>3, DeliveryAssumption DEF TypeOK
  <2> QED
    BY <2>1, <2>2, <2>3
<1>7. CASE UNCHANGED <<acked, seen, acted, broken, event>>
  BY <1>0, <1>7
<1> QED
  BY <1>0, <1>1, <1>2, <1>3, <1>4, <1>5, <1>6, <1>7
  DEF Next, vars, Handle, Find, Mark, Admit, End, TaskEnds, ProcessPending,
      Poll, PollFails, PollSelects, PollLoads, PollAsks, PollWrites, PollStops

(* Vexa hears a 2xx only for an event that was acted on, is being handled, *)
(* or whose handler broke (webhooks.py:172-209).                           *)
THEOREM AckedCorrect == Spec => []AckedIsActedOn
<1>1. Init => InGoodHands
  BY DEF Init, InGoodHands
<1>2. InGoodHands => AckedIsActedOn
  BY DEF InGoodHands, AckedIsActedOn
<1> QED
  BY <1>1, <1>2, TypeAlways, HandsStep, PTL DEF Spec

LEMMA SetbackCounted ==
  ASSUME TypeOK, NEW q \in Polls, PollWrites(q)
  PROVE  /\ \A p \in Polls \ {q} : setbacks'[p] = setbacks[p] /\ says'[p] = says[p]
         /\ says'[q] = "gone"
         /\ setbacks'[q] \in {setbacks[q], setbacks[q] + 1}
         /\ setbacks'[q] # setbacks[q] => bot[Polled[q]] = "ended" /\ says[q] \in Live
         /\ \A m \in Meetings \ {Polled[q]} : row'[m] = row[m]
         /\ bot[Polled[q]] = "ended" /\ row[Polled[q]] \notin Live /\ row'[Polled[q]] \in Live
              => setbacks'[q] = setbacks[q] + 1
         /\ UNCHANGED bot
<1> DEFINE m == Polled[q]
           status == Refreshed(row[m], held[q], says[q])
<1>1. m \in Meetings /\ setbacks \in [Polls -> Nat] /\ says \in [Polls -> Answers]
      /\ row \in [Meetings -> Statuses]
  BY DeliveryAssumption DEF TypeOK
<1>2. row[m] \notin Live /\ status \in Live => says[q] \in Live
  BY <1>1 DEF Refreshed, Live, Answers
<1>3. /\ row' = [row EXCEPT ![m] = status]
      /\ setbacks' = IF bot[m] = "ended" /\ row[m] \notin Live /\ status \in Live
                       THEN [setbacks EXCEPT ![q] = @ + 1]
                       ELSE setbacks
      /\ says' = [says EXCEPT ![q] = "gone"]
      /\ UNCHANGED bot
  BY DEF PollWrites, PollRests
<1> HIDE DEF status
<1> QED
  BY <1>1, <1>2, <1>3

LEMMA SetbacksRemain ==
  ASSUME TypeOK, [Next]_vars, NEW q \in Polls
  PROVE  setbacks[q] > 0 => setbacks'[q] > 0
<1>1. setbacks[q] \in Nat
  BY DEF TypeOK
<1>2. ASSUME NEW p \in Polls, PollWrites(p) PROVE setbacks[q] > 0 => setbacks'[q] > 0
  BY <1>1, <1>2, SetbackCounted
<1>3. CASE UNCHANGED setbacks
  BY <1>3
<1> QED
  BY <1>2, <1>3
  DEF Next, vars, Refuse, Duplicate, Ignore, Begin, Handle, Find, Mark, Spawn, HandlerFails,
      Poll, PollSelects, PollLoads, PollAsks, PollStops, PollFails, Admit, End, TaskEnds,
      ProcessPending, Crash

LEMMA EndedStays ==
  ASSUME TypeOK, [Next]_vars, NEW m \in Meetings, bot[m] = "ended"
  PROVE  bot'[m] = "ended"
<1>1. ASSUME NEW n \in Meetings, Admit(n) \/ End(n) PROVE bot'[m] = "ended"
  BY <1>1 DEF Admit, End, TypeOK
<1>2. CASE UNCHANGED bot
  BY <1>2
<1> QED
  BY <1>1, <1>2
  DEF Next, vars, Refuse, Duplicate, Ignore, Begin, Handle, Find, Mark, Spawn, HandlerFails,
      Poll, PollSelects, PollLoads, PollAsks, PollWrites, PollStops, PollFails, TaskEnds,
      ProcessPending, Crash

LEMMA KeptStays ==
  ASSUME TypeOK, [Next]_vars, NEW m \in Meetings, bot[m] = "ended", Kept(m)
  PROVE  Kept(m)'
<1>1. CASE \E q \in Polls : Polled[q] = m /\ setbacks[q] > 0
  BY <1>1, SetbacksRemain DEF Kept
<1>2. CASE row[m] \notin Live
  <2>1. ASSUME NEW h \in Handlers, Mark(h) PROVE Kept(m)'
    BY <1>2, <2>1 DEF Mark, Marked, Kept, TypeOK, Live
  <2>2. ASSUME NEW n \in Meetings, TaskEnds(n) \/ ProcessPending(n) PROVE Kept(m)'
    BY <1>2, <2>2 DEF TaskEnds, ProcessPending, Kept, TypeOK, Live
  <2>3. ASSUME NEW q \in Polls, PollStops(q) PROVE Kept(m)'
    BY <1>2, <2>3 DEF PollStops, Kept, TypeOK, Live
  <2>4. ASSUME NEW q \in Polls, PollWrites(q) PROVE Kept(m)'
    <3>1. setbacks[q] \in Nat
      BY DEF TypeOK
    <3>2. CASE row'[m] \in Live
      <4>1. Polled[q] = m
        BY <1>2, <2>4, <3>2, SetbackCounted
      <4>2. setbacks'[q] = setbacks[q] + 1
        BY <1>2, <2>4, <3>2, <4>1, SetbackCounted
      <4> QED
        BY <3>1, <4>1, <4>2 DEF Kept
    <3> QED
      BY <3>2 DEF Kept
  <2>5. CASE UNCHANGED <<row, setbacks>>
    BY <2>5 DEF Kept
  <2> QED
    BY <2>1, <2>2, <2>3, <2>4, <2>5
    DEF Next, vars, Refuse, Duplicate, Ignore, Begin, Handle, Find, Spawn, HandlerFails,
        Poll, PollSelects, PollLoads, PollAsks, PollFails, Admit, End, Crash
<1> QED
  BY <1>1, <1>2 DEF Kept

LEMMA LateAnswerStep == TypeOK /\ OneLateAnswer /\ [Next]_vars => OneLateAnswer'
<1> SUFFICES ASSUME TypeOK, OneLateAnswer, [Next]_vars, NEW p \in Polls
             PROVE  \/ setbacks'[p] = 0
                    \/ setbacks'[p] = 1 /\ bot'[Polled[p]] = "ended" /\ says'[p] \notin Live
  BY DEF OneLateAnswer
<1> DEFINE Goal == \/ setbacks'[p] = 0
                   \/ setbacks'[p] = 1 /\ bot'[Polled[p]] = "ended" /\ says'[p] \notin Live
<1>0. /\ \/ setbacks[p] = 0
         \/ setbacks[p] = 1 /\ bot[Polled[p]] = "ended" /\ says[p] \notin Live
      /\ Polled[p] \in Meetings /\ bot[Polled[p]] = "ended" => bot'[Polled[p]] = "ended"
  BY EndedStays, DeliveryAssumption DEF OneLateAnswer
<1>1. ASSUME setbacks'[p] = setbacks[p], says'[p] \in {says[p], "gone"} PROVE Goal
  BY <1>0, <1>1, DeliveryAssumption DEF Live
<1>2. ASSUME NEW q \in Polls, PollWrites(q) PROVE Goal
  <2>1. setbacks[q] \in Nat
    BY DEF TypeOK
  <2>2. CASE p # q \/ setbacks'[q] = setbacks[q]
    BY <1>1, <1>2, <2>2, SetbackCounted
  <2>3. CASE p = q /\ setbacks'[q] # setbacks[q]
    <3>1. setbacks'[p] = setbacks[p] + 1 /\ bot[Polled[p]] = "ended" /\ says[p] \in Live
          /\ says'[p] = "gone" /\ UNCHANGED bot
      BY <1>2, <2>3, SetbackCounted
    <3> QED
      BY <1>0, <3>1 DEF Live
  <2> QED
    BY <2>2, <2>3
<1>3. ASSUME NEW q \in Polls, PollAsks(q) PROVE Goal
  <2>1. PICK a \in AnswersFor(Polled[q]) : says' = [says EXCEPT ![q] = a]
    BY <1>3 DEF PollAsks
  <2>2. UNCHANGED <<bot, setbacks>>
    BY <1>3 DEF PollAsks
  <2>3. bot[Polled[q]] = "ended" => a \notin Live
    BY DEF AnswersFor, Live
  <2> QED
    BY <1>0, <2>1, <2>2, <2>3 DEF TypeOK
<1>4. ASSUME NEW q \in Polls, PollStops(q) \/ PollFails(q) PROVE Goal
  BY <1>1, <1>4 DEF PollStops, PollFails, PollRests, TypeOK
<1>5. CASE Crash
  BY <1>1, <1>5 DEF Crash
<1>6. CASE UNCHANGED <<setbacks, says>>
  BY <1>1, <1>6
<1> QED
  BY <1>2, <1>3, <1>4, <1>5, <1>6
  DEF Next, vars, Refuse, Duplicate, Ignore, Begin, Handle, Find, Mark, Spawn, HandlerFails,
      Poll, PollSelects, PollLoads, Admit, End, TaskEnds, ProcessPending

LEMMA HandoffStep ==
  TypeOK /\ MarkHolds /\ ActedHolds /\ [Next]_vars
    => MarkHolds' /\ ActedHolds'
<1> SUFFICES ASSUME TypeOK, MarkHolds, ActedHolds, [Next]_vars
             PROVE  MarkHolds' /\ ActedHolds'
  OBVIOUS
<1>1. \A m \in Meetings : bot[m] = "ended" => bot'[m] = "ended" /\ (Kept(m) => Kept(m)')
  BY EndedStays, KeptStays
<1>2. ASSUME NEW e \in Events, acted'[e] = acted[e], NEW m \in Meetings,
             acted'[e] > 0, About[e] = m
      PROVE  bot'[m] = "ended" /\ Kept(m)'
  BY <1>1, <1>2 DEF ActedHolds
<1>3. ASSUME UNCHANGED acted PROVE ActedHolds'
  BY <1>2, <1>3 DEF ActedHolds
<1>4. ASSUME NEW g \in Handlers, UNCHANGED <<at[g], event[g], loaded[g]>>
      PROVE  HandlerHolds(g)'
  BY <1>1, <1>4 DEF MarkHolds, HandlerHolds
<1>5. ASSUME UNCHANGED <<at, event, loaded>> PROVE MarkHolds'
  BY <1>4, <1>5 DEF MarkHolds
<1>6. ASSUME NEW h \in Handlers, HandlerHolds(h)',
             \A g \in Handlers \ {h} : UNCHANGED <<at[g], event[g], loaded[g]>>
      PROVE  MarkHolds'
  BY <1>4, <1>6 DEF MarkHolds
<1>7. ASSUME NEW h \in Handlers, Rest(h)
      PROVE  MarkHolds'
  <2>1. at'[h] = "idle" /\ \A g \in Handlers \ {h} : UNCHANGED <<at[g], event[g], loaded[g]>>
    BY <1>7 DEF Rest, TypeOK
  <2>2. HandlerHolds(h)'
    BY <2>1 DEF HandlerHolds
  <2> QED
    BY <1>6, <2>1, <2>2
<1>8. ASSUME NEW e \in Events, Ignore(e)
      PROVE  MarkHolds' /\ ActedHolds'
  <2>1. /\ About[e] \notin Meetings /\ UNCHANGED <<at, event, loaded>>
        /\ \A d \in Events \ {e} : acted'[d] = acted[d]
    BY <1>8, DeliveryAssumption DEF Ignore, TypeOK
  <2>2. ActedHolds'
    BY <1>2, <2>1 DEF ActedHolds
  <2> QED
    BY <1>5, <2>1, <2>2
<1>9. ASSUME NEW e \in Events, NEW h \in Handlers, Begin(h, e)
      PROVE  MarkHolds' /\ ActedHolds'
  <2>1. /\ at'[h] = "find" /\ event'[h] = e /\ About[e] \in Meetings
        /\ \A g \in Handlers \ {h} : UNCHANGED <<at[g], event[g], loaded[g]>>
        /\ bot[About[e]] = "ended" /\ UNCHANGED <<bot, acted>>
    BY <1>9 DEF Begin, Delivery, TypeOK
  <2>2. HandlerHolds(h)'
    BY <2>1 DEF HandlerHolds
  <2> QED
    BY <1>3, <1>6, <2>1, <2>2
<1>10. ASSUME NEW h \in Handlers, Find(h) PROVE MarkHolds' /\ ActedHolds'
  <2>1. /\ at[h] = "find" /\ at'[h] = "mark" /\ event'[h] = event[h]
        /\ loaded'[h] = row[About[event[h]]]
        /\ \A g \in Handlers \ {h} : UNCHANGED <<at[g], event[g], loaded[g]>>
        /\ UNCHANGED <<bot, row, setbacks, acted>>
    BY <1>10 DEF Find, Meeting, TypeOK
  <2>2. HandlerHolds(h)'
    <3> SUFFICES ASSUME NEW m \in Meetings, About[event[h]] = m
                 PROVE  bot'[m] = "ended" /\ (loaded'[h] \notin Live => Kept(m)')
      BY <2>1 DEF HandlerHolds
    <3> QED
      BY <2>1 DEF MarkHolds, HandlerHolds, Kept
  <2> QED
    BY <1>3, <1>6, <2>1, <2>2
<1>11. ASSUME NEW h \in Handlers, Mark(h) PROVE MarkHolds' /\ ActedHolds'
  <2> DEFINE n == About[event[h]]
  <2>1. /\ at[h] = "mark" /\ at'[h] = "spawn" /\ event'[h] = event[h]
        /\ row' = [row EXCEPT ![n] = Marked(@, loaded[h])]
        /\ \A g \in Handlers \ {h} : UNCHANGED <<at[g], event[g], loaded[g]>>
        /\ UNCHANGED <<bot, setbacks, acted>>
    BY <1>11 DEF Mark, Meeting, TypeOK
  <2>2. n \in Meetings /\ bot[n] = "ended"
    BY <2>1, NoEventIsNone DEF MarkHolds, HandlerHolds
  <2>3. Kept(n)'
    <3>1. CASE loaded[h] \in Live
      BY <2>1, <2>2, <3>1 DEF Marked, Kept, Live, TypeOK
    <3>2. CASE loaded[h] \notin Live
      BY <1>1, <2>1, <2>2, <3>2 DEF MarkHolds, HandlerHolds
    <3> QED
      BY <3>1, <3>2
  <2>4. HandlerHolds(h)'
    <3> SUFFICES ASSUME NEW m \in Meetings, m = n
                 PROVE  bot'[m] = "ended" /\ Kept(m)'
      BY <2>1 DEF HandlerHolds
    <3> QED
      BY <2>1, <2>2, <2>3
  <2> QED
    BY <1>3, <1>6, <2>1, <2>4
<1>12. ASSUME NEW h \in Handlers, Spawn(h) PROVE MarkHolds' /\ ActedHolds'
  <2>1. /\ at[h] = "spawn" /\ Rest(h)
        /\ acted' = [acted EXCEPT ![event[h]] = @ + 1]
    BY <1>12 DEF Spawn
  <2>2. ASSUME NEW e \in Events, NEW m \in Meetings, acted'[e] > 0, About[e] = m
        PROVE  bot'[m] = "ended" /\ Kept(m)'
    <3>1. CASE e = event[h]
      BY <1>1, <2>1, <2>2, <3>1 DEF MarkHolds, HandlerHolds
    <3>2. CASE e # event[h]
      BY <1>2, <2>1, <2>2, <3>2 DEF TypeOK
    <3> QED
      BY <3>1, <3>2
  <2>3. ActedHolds'
    BY <2>2 DEF ActedHolds
  <2> QED
    BY <1>7, <2>1, <2>3
<1>13. ASSUME NEW h \in Handlers, HandlerFails(h) PROVE MarkHolds' /\ ActedHolds'
  BY <1>3, <1>7, <1>13 DEF HandlerFails
<1>14. CASE Crash
  BY <1>3, <1>14 DEF Crash, MarkHolds, HandlerHolds
<1>15. CASE UNCHANGED <<at, event, loaded, acted>>
  BY <1>3, <1>5, <1>15
<1> QED
  BY <1>8, <1>9, <1>10, <1>11, <1>12, <1>13, <1>14, <1>15
  DEF Next, Handle, vars, Refuse, Duplicate, Admit, End, TaskEnds, ProcessPending, Poll,
      PollFails, PollSelects, PollLoads, PollAsks, PollWrites, PollStops

(* Acted on means marked (_mark_processing before _spawn_finalize,           *)
(* webhooks.py:206-207): only a poll that Vexa answered before the end can   *)
(* put the row in flight again, and each does so once, for any number of     *)
(* polls, handlers and meetings.                                             *)
THEOREM HandoffCorrect == Spec => []HandedOff
<1>1. Init => OneLateAnswer /\ MarkHolds /\ ActedHolds
  BY DEF Init, OneLateAnswer, MarkHolds, HandlerHolds, ActedHolds
<1>2. TypeOK /\ OneLateAnswer /\ ActedHolds => HandedOff
  <2> SUFFICES ASSUME TypeOK, OneLateAnswer, ActedHolds PROVE HandedOff
    OBVIOUS
  <2>1. \A q \in Polls : setbacks[q] <= 1
    BY DEF OneLateAnswer
  <2>2. \A e \in Events :
          acted[e] > 0 /\ About[e] \in Meetings /\ row[About[e]] \in Live =>
            \E q \in Polls : Polled[q] = About[e] /\ setbacks[q] > 0
    BY DEF ActedHolds, Kept
  <2> QED
    BY <2>1, <2>2 DEF HandedOff
<1> QED
  BY <1>1, <1>2, TypeAlways, LateAnswerStep, HandoffStep, PTL DEF Spec

(* Types, for every value of the constants. *)
THEOREM TypeCorrect == Spec => []TypeOK
  BY TypeAlways
=============================================================================
