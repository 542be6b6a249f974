---------------------------- MODULE EmailOutbox ----------------------------
(***************************************************************************)
(* What the insight e-mail of one meeting promises, whoever asks for it    *)
(* and however often: the report becomes ready once, is taken by one       *)
(* sender at a time, may be handed back when the send fails, and is never  *)
(* offered to the mail service again once the service has confirmed it.    *)
(* InsightEmail.tla implements this.                                       *)
(***************************************************************************)
EXTENDS Naturals

VARIABLES
  phase,    (* what became of the report so far                            *)
  copies    (* copies of the e-mail the mail service has accepted          *)

outboxVars == <<phase, copies>>

Phases == {"absent", "ready", "taken", "sent", "lost"}

OutboxTypeOK == /\ phase \in Phases
                /\ copies \in Nat

OutboxInit == phase = "absent" /\ copies = 0

Move(from, to) == phase = from /\ phase' = to

\* The analysis of the transcript is stored.
Store == Move("absent", "ready") /\ UNCHANGED copies

\* A sender takes the report; nobody else can until it is given back.
Take == Move("ready", "taken") /\ UNCHANGED copies

\* The mail service accepts a copy, but the taker does not learn of it.
AcceptUnheard == Move("taken", "taken") /\ copies' = copies + 1

\* The mail service accepts a copy and the taker hears so.
Confirm == Move("taken", "sent") /\ copies' = copies + 1

\* The taker gives up and hands the report back.
GiveBack == Move("taken", "ready") /\ UNCHANGED copies

\* The taker dies with the report in hand.
Lose == Move("taken", "lost") /\ UNCHANGED copies

OutboxNext ==
  Store \/ Take \/ AcceptUnheard \/ Confirm \/ GiveBack \/ Lose

OutboxSpec == OutboxInit /\ [][OutboxNext]_outboxVars
=============================================================================
