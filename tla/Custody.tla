------------------------------ MODULE Custody ------------------------------
(***************************************************************************)
(* What becomes of a conversation, whoever answers it: the assistant has   *)
(* it until one asker claims it for the team.  From then on it comes back  *)
(* to the assistant only if that asker gives it back, and never once it    *)
(* has reached the team.  An asker may die with it; people take it, and    *)
(* the visitor ends it, at any time (chat.routes.ts:576-585, 639-645).     *)
(***************************************************************************)
CONSTANT Askers

VARIABLES
  party,    \* whose the conversation is
  holders,  \* askers that have claimed it and not yet let it go
  reached   \* the team was told of it

Parties == {"assistant", "team", "ended"}

TypeOK ==
  /\ party \in Parties
  /\ holders \subseteq Askers
  /\ reached \in BOOLEAN

Init ==
  /\ party = "assistant"
  /\ holders = {}
  /\ reached = FALSE

Claim(a) ==
  /\ party = "assistant" /\ holders = {} /\ ~reached
  /\ party' = "team"
  /\ holders' = {a}
  /\ UNCHANGED reached

HandOver ==
  /\ holders # {}
  /\ holders' = {} /\ reached' = TRUE
  /\ UNCHANGED party

(* The asker dies before the team has heard of it.                         *)
Abandon ==
  /\ holders # {}
  /\ holders' = {}
  /\ UNCHANGED <<party, reached>>

GiveBack ==
  /\ holders # {} /\ ~reached
  /\ party' = "assistant"
  /\ holders' = {}
  /\ UNCHANGED reached

(* A person answers, or the conversation is ended.                         *)
Turn ==
  /\ party' \in {"team", "ended"}
  /\ UNCHANGED <<holders, reached>>

Next ==
  \/ \E a \in Askers : Claim(a)
  \/ HandOver \/ Abandon \/ GiveBack \/ Turn

Spec == Init /\ [][Next]_<<party, holders, reached>>
=============================================================================
