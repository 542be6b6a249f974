----------------------------- MODULE AnswerDesk -----------------------------
(***************************************************************************)
(* What the copilot promises the chat: a message that asks it something is *)
(* taken by one handler, which sends its answer a bounded number of times, *)
(* closes the case truthfully, and never opens it again. A handler may be  *)
(* lost on the way; then the case stays as it is, and nobody else goes on  *)
(* with it. CopilotMentions.tla implements this.                           *)
(***************************************************************************)
EXTENDS Naturals

CONSTANTS
  Cases,    (* the messages of the chat                                     *)
  MaxCopies (* posts of one answer that one send_chat may make              *)

VARIABLES
  phase,    (* what became of each case                                     *)
  copies    (* copies of its answer the chat has accepted                   *)

deskVars == <<phase, copies>>

Closed == {"answered", "failed", "skipped"}

DeskTypeOK ==
  /\ phase \in [Cases -> {"open", "taken", "lost"} \cup Closed]
  /\ copies \in [Cases -> 0 .. MaxCopies]

DeskInit ==
  /\ phase = [c \in Cases |-> "open"]
  /\ copies = [c \in Cases |-> 0]

Move(c, from, to) == phase[c] = from /\ phase' = [phase EXCEPT ![c] = to]

Take(c) == Move(c, "open", "taken") /\ UNCHANGED copies

\* The chat accepts a copy; the handler may break off unheard.
Send(c) ==
  /\ Move(c, "taken", "taken") \/ Move(c, "taken", "lost")
  /\ copies[c] < MaxCopies
  /\ copies' = [copies EXCEPT ![c] = @ + 1]

Close(c) ==
  /\ \/ Move(c, "taken", "answered") /\ copies[c] > 0
     \/ Move(c, "taken", "skipped") /\ copies[c] = 0
     \/ Move(c, "taken", "failed")
  /\ UNCHANGED copies

\* The process dies with cases in hand, or a send raises.
Lose(S) ==
  /\ \A c \in S : phase[c] = "taken"
  /\ phase' = [c \in Cases |-> IF c \in S THEN "lost" ELSE phase[c]]
  /\ UNCHANGED copies

DeskNext ==
  \/ \E c \in Cases : Take(c) \/ Send(c) \/ Close(c)
  \/ \E S \in SUBSET Cases : Lose(S)

DeskSpec == DeskInit /\ [][DeskNext]_deskVars
=============================================================================
