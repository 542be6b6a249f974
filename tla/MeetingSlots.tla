---------------------------- MODULE MeetingSlots ----------------------------
(***************************************************************************)
(* What the meetings table promises whoever looks at it by Meet code: a    *)
(* code is a slot that one meeting holds at a time (the partial unique     *)
(* index uq_meetings_active_native), and a meeting that has given its slot *)
(* up is over for good. Detection.tla implements this towards those who    *)
(* insert rows, MeetingLifecycle.tla towards those who bring them to an    *)
(* end.                                                                    *)
(***************************************************************************)
CONSTANTS
  Meetings,  (* the rows there may be                                       *)
  SlotOf     (* the Meet code of each                                       *)

VARIABLE
  slot       (* has each meeting its slot: "free" before, "held", "over"    *)

SlotsTypeOK == slot \in [Meetings -> {"free", "held", "over"}]

SlotsInit == slot = [m \in Meetings |-> "free"]

In(place) == {m \in Meetings : slot[m] = place}

Move(S, from, to) ==
  /\ S \subseteq In(from)
  /\ slot' = [m \in Meetings |-> IF m \in S THEN to ELSE slot[m]]

\* One commit may take several slots: each is free, and taken by one of S.
Take(S) ==
  /\ Move(S, "free", "held")
  /\ \A m \in S, n \in S \cup In("held") : SlotOf[m] = SlotOf[n] => m = n

\* A transaction that took slots is rolled back.
Withdraw(S) == Move(S, "held", "free")

GiveUp(S) == Move(S, "held", "over")

SlotsNext == \E S \in SUBSET Meetings : Take(S) \/ Withdraw(S) \/ GiveUp(S)

SlotsSpec == SlotsInit /\ [][SlotsNext]_slot
=============================================================================
