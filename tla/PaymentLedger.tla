--------------------------- MODULE PaymentLedger ---------------------------
(***************************************************************************)
(* What the payment of emergency support comes to, with no handler, copy   *)
(* or outage in sight: a request is recorded as paid once money has come   *)
(* in for it, each record is receipted at most once, and a request is      *)
(* recorded again only after a failed checkout of it has taken the record  *)
(* away (emergency.routes.ts:153-161, 247-261).                            *)
(***************************************************************************)
CONSTANTS Requests, Checkouts, Notices

VARIABLES
  money,   \* requests for which money has come in
  paid,    \* requests recorded as paid
  due,     \* receipts to be sent: the request and the notice of its payment
  sent,    \* receipts that were
  failed   \* failed checkouts, with their requests

TypeOK ==
  /\ paid \subseteq money /\ money \subseteq Requests
  /\ due \subseteq Requests \X Notices /\ sent \subseteq Requests \X Notices
  /\ failed \subseteq Requests \X Checkouts

Init == money = {} /\ paid = {} /\ due = {} /\ sent = {} /\ failed = {}

Receive(r) ==
  /\ money' = money \cup {r}
  /\ UNCHANGED <<paid, due, sent, failed>>

(* The record, and perhaps the receipt it calls for.                       *)
Record(r, n) ==
  /\ r \in money \ paid
  /\ \A q \in Requests : <<q, n>> \notin due \cup sent
  /\ paid' = paid \cup {r}
  /\ due' = due \cup {<<r, n>>} \/ due' = due
  /\ UNCHANGED <<money, sent, failed>>

Send(r, n) ==
  /\ <<r, n>> \in due
  /\ due' = due \ {<<r, n>>} /\ sent' = sent \cup {<<r, n>>}
  /\ UNCHANGED <<money, paid, failed>>

(* Mail fails, or the process dies: receipts are never sent.               *)
Lose ==
  /\ due' \subseteq due
  /\ UNCHANGED <<money, paid, sent, failed>>

Fail(r, k) ==
  /\ \A q \in Requests : <<q, k>> \notin failed
  /\ failed' = failed \cup {<<r, k>>}
  /\ paid' = paid \/ paid' = paid \ {r}
  /\ UNCHANGED <<money, due, sent>>

Next ==
  \/ \E r \in Requests : Receive(r)
  \/ \E r \in Requests, n \in Notices : Record(r, n) \/ Send(r, n)
  \/ \E r \in Requests, k \in Checkouts : Fail(r, k)
  \/ Lose

Spec == Init /\ [][Next]_<<money, paid, due, sent, failed>>
=============================================================================
