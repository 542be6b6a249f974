------------------------ MODULE MeetingMemory_proofs ------------------------
(***************************************************************************)
(* Theorems about MeetingMemory, for any builders, thresholds and bounds.  *)
(*                                                                         *)
(* CoversWhatWasSaid is inductive with the type invariant once it says of  *)
(* a builder at work that what it fetched is long enough. RebuildBuysGrowth *)
(* needs that a builder keeps, until it stores, the growth it decided on:  *)
(* fetched and seen are its own, and nobody moves them.                    *)
(***************************************************************************)
EXTENDS MeetingMemory, TLAPS

\* What a builder decided on still holds when it stores.
Decided ==
  \A b \in Builders :
    at[b] = "build" =>
      /\ fetched[b] >= MIN_CHARS
      /\ seen[b] # NoRow => fetched[b] >= seen[b] + MIN_GROWTH

IInv == TypeOK /\ CoversWhatWasSaid /\ Decided

LEMMA InitIInv == Init => IInv
  BY MemoryAssumption
  DEF Init, IInv, TypeOK, CoversWhatWasSaid, Decided, Covers

LEMMA StepIInv == IInv /\ [Next]_vars => IInv'
<1> SUFFICES ASSUME IInv, [Next]_vars
             PROVE  IInv'
  OBVIOUS
<1> USE MemoryAssumption DEF IInv, TypeOK, CoversWhatWasSaid, Decided, Covers
<1>1. ASSUME NEW n \in Utterances, Speak(n) PROVE IInv'
  <2>1. n \in Nat
    BY DEF MemoryAssumption
  <2> QED
    BY <1>1, <2>1 DEF Speak, builder
<1>2. CASE End
  BY <1>2 DEF End, builder
<1>3. ASSUME NEW b \in Builders, Select(b) PROVE IInv'
  BY <1>3 DEF Select
<1>4. ASSUME NEW b \in Builders, Fetch(b) PROVE IInv'
  BY <1>4 DEF Fetch
<1>5. ASSUME NEW b \in Builders, Look(b) PROVE IInv'
  <2>1. CASE ShouldRebuild(fetched[b], covered) /\ fetched[b] >= MIN_CHARS
    BY <1>5, <2>1 DEF Look, ShouldRebuild
  <2>2. CASE ~(ShouldRebuild(fetched[b], covered) /\ fetched[b] >= MIN_CHARS)
    BY <1>5, <2>2 DEF Look, Rest
  <2> QED
    BY <2>1, <2>2
<1>6. ASSUME NEW b \in Builders, Store(b) PROVE IInv'
  BY <1>6 DEF Store, Rest, Upserted
<1>7. ASSUME NEW b \in Builders, Fails(b) PROVE IInv'
  BY <1>7 DEF Fails, Rest
<1>8. ASSUME NEW b \in Builders, Crash(b) PROVE IInv'
  BY <1>8 DEF Crash, Rest
<1>9. CASE UNCHANGED vars
  BY <1>9 DEF vars
<1> QED
  BY <1>1, <1>2, <1>3, <1>4, <1>5, <1>6, <1>7, <1>8, <1>9 DEF Next, Tick

LEMMA Invariance == Spec => []IInv
  BY InitIInv, StepIInv, PTL DEF Spec

(* Types, for every value of the constants. *)
THEOREM TypeCorrect == Spec => []TypeOK
  BY Invariance, PTL DEF IInv

(* The stored length is that of a transcript that was spoken and long      *)
(* enough (refresh_memory, memory.py:191-210).                             *)
THEOREM CoverageCorrect == Spec => []CoversWhatWasSaid
  BY Invariance, PTL DEF IInv

(* A build nobody overtakes buys MIN_GROWTH characters; only an overlap    *)
(* takes memory back (memory.py:9-13, the delta guard).                    *)
THEOREM GrowthCorrect == Spec => RebuildBuysGrowth
<1> DEFINE Buys ==
      \A b \in Builders :
        /\ at[b] = "build" /\ at'[b] = "idle" /\ covered' # covered
        /\ covered # NoRow
        => seen[b] # covered \/ covered' >= covered + MIN_GROWTH
<1>1. ASSUME IInv, [Next]_vars PROVE [Buys]_vars
  <2> SUFFICES ASSUME Next, NEW b \in Builders,
                      at[b] = "build", at'[b] = "idle",
                      covered' # covered, covered # NoRow, seen[b] = covered
               PROVE  covered' >= covered + MIN_GROWTH
    BY <1>1
  <2>1. PICK c \in Builders : Store(c)
    BY DEF Next, Speak, End, Tick, Select, Fetch, Look, Fails, Crash
  <2>2. c = b
    BY <1>1, <2>1 DEF Store, Rest, IInv, TypeOK
  <2> QED
    BY <1>1, <2>1, <2>2 DEF Store, Upserted, IInv, Decided
<1> QED
  BY <1>1, Invariance, PTL DEF Spec, RebuildBuysGrowth
-----------------------------------------------------------------------------
(* One process, one copilot_memory loop *)

OneBuilder == \A b, c \in Builders : b = c

\* What the builder looked at is what it writes over.
LooksLast == \A b \in Builders : at[b] = "build" => seen[b] = covered

LEMMA LooksLastStep == OneBuilder /\ IInv /\ LooksLast /\ [Next]_vars => LooksLast'
<1> SUFFICES ASSUME OneBuilder, IInv, LooksLast, [Next]_vars, NEW b \in Builders,
                    at'[b] = "build"
             PROVE  seen'[b] = covered'
  BY DEF LooksLast
<1> USE DEF IInv, TypeOK, LooksLast
<1>1. CASE UNCHANGED <<at, seen, covered>>
  BY <1>1
<1>2. ASSUME NEW c \in Builders, Tick(c) \/ Fails(c) \/ Crash(c)
      PROVE  seen'[b] = covered'
  <2>1. c = b
    BY DEF OneBuilder
  <2>2. Look(b) /\ ShouldRebuild(fetched[b], covered) /\ fetched[b] >= MIN_CHARS
    BY <1>2, <2>1 DEF Tick, Select, Fetch, Look, Store, Fails, Crash, Rest
  <2> QED
    BY <2>2 DEF Look
<1> QED
  BY <1>1, <1>2 DEF Next, vars, Speak, End, builder

(* With one loop memory never goes back: the row never disappears, and each *)
(* write but the first covers MIN_GROWTH characters more than the last, so  *)
(* that a transcript of n characters stores n / MIN_GROWTH + 1 builds at     *)
(* most, whatever fails and restarts (memory.py:9-13).                      *)
THEOREM MemoryOnlyGrows ==
  ASSUME OneBuilder
  PROVE  Spec => [][covered # NoRow /\ covered' # covered
                      => covered' \in Nat /\ covered' >= covered + MIN_GROWTH]_vars
<1> DEFINE Grows == covered # NoRow /\ covered' # covered
                      => covered' \in Nat /\ covered' >= covered + MIN_GROWTH
<1>1. ASSUME IInv, LooksLast, Next PROVE Grows
  <2>1. CASE UNCHANGED covered
    BY <2>1
  <2>2. ASSUME NEW b \in Builders, Store(b) PROVE Grows
    BY <1>1, <2>2 DEF Store, Upserted, IInv, TypeOK, Decided, LooksLast
  <2> QED
    BY <1>1, <2>1, <2>2
    DEF Next, Speak, End, Tick, Select, Fetch, Look, Fails, Crash
<1>2. IInv /\ LooksLast /\ [Next]_vars => [Grows]_vars
  BY <1>1
<1>3. Init => LooksLast
  BY DEF Init, LooksLast
<1>4. IInv /\ LooksLast /\ [Next]_vars => LooksLast'
  BY LooksLastStep
<1> QED
  BY <1>2, <1>3, <1>4, Invariance, PTL DEF Spec
=============================================================================
