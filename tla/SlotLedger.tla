---------------------------- MODULE SlotLedger ----------------------------
(***************************************************************************)
(* What booking promises, with no handler, calendar or failure in sight: a *)
(* slot has at most one holder, a request holds a slot at most once in its *)
(* life, and a slot goes from one holder to another only by being          *)
(* released first (README.md:587).                                         *)
(***************************************************************************)
CONSTANTS Requests, Slots, Nobody

VARIABLES
  holder,  \* who holds each slot
  used     \* requests that hold a slot or have held one

TypeOK ==
  /\ holder \in [Slots -> Requests \cup {Nobody}]
  /\ used \subseteq Requests

Init ==
  /\ holder = [s \in Slots |-> Nobody]
  /\ used = {}

Hold(r, s) ==
  /\ holder[s] = Nobody
  /\ r \notin used
  /\ holder' = [holder EXCEPT ![s] = r]
  /\ used' = used \cup {r}

Release(s) ==
  /\ holder[s] # Nobody
  /\ holder' = [holder EXCEPT ![s] = Nobody]
  /\ UNCHANGED used

Next ==
  \/ \E r \in Requests, s \in Slots : Hold(r, s)
  \/ \E s \in Slots : Release(s)

Spec == Init /\ [][Next]_<<holder, used>>
=============================================================================
