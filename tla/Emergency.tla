----------------------------- MODULE Emergency -----------------------------
(***************************************************************************)
(* Emergency support requests and their payment:                           *)
(* apps/api/src/routes/emergency.routes.ts (/request, /checkout, /status,  *)
(* /webhook) and createEmergencyCheckout of services/stripe.service.ts.    *)
(*                                                                         *)
(* A checkout is one run of POST /checkout; Stripe opens at most one       *)
(* session for it (the client repeats a call under one idempotency key),   *)
(* so a checkout also names its session.  The webhook of a session is      *)
(* delivered at least once: a delivery is a pair of a session and the      *)
(* number of a copy.  Stripe is taken to be configured, the requestId that *)
(* is posted to be one the site handed out, and signatures to be Stripe's. *)
(***************************************************************************)
EXTENDS Naturals, FiniteSets

CONSTANTS
  Requests,   \* runs of POST /request; a request also names its row
  Checkouts,  \* runs of POST /checkout; a checkout also names its session
  Copies,     \* deliveries of one webhook event
  Nobody,     \* no request
  NoSession,  \* a column that is null
  MaxFaults   \* failures of Stripe, of the database, of mail, of the process

ASSUME FaultsAssumption == MaxFaults \in Nat
ASSUME NobodyAssumption == Nobody \notin Requests
ASSUME NoSessionAssumption == NoSession \notin Checkouts
ASSUME FiniteAssumption == IsFiniteSet(Checkouts) /\ IsFiniteSet(Copies)

VARIABLES
  status,           \* status of each row; "NONE" before the row exists
  stripeSessionId,  \* the column of that name
  payment,          \* stripePaymentIntentId, amountCents: the recorded charge
  rpc,              \* where each /request handler stands
  leads,            \* requests that are in the leads table
  alert,            \* whether the team was told of each, by Teams or email
  pc,               \* where each /checkout handler stands
  target,           \* the request each checkout is for
  session,          \* each session at Stripe
  hook,             \* where each /webhook handler stands
  receipts,         \* receipt emails: the delivery and the charge it shows
  faults            \* failures so far

rows    == <<status, stripeSessionId, payment>>
intake  == <<rpc, leads, alert>>
pay     == <<pc, target, session>>
webhook == <<hook, receipts>>
vars    == <<rows, intake, pay, webhook, faults>>

----------------------------------------------------------------------------
EmergencyStatus == {"NONE", "PENDING", "PAID", "FAILED", "CANCELLED"}

RequestSteps == {"idle", "recording", "alerting", "answered", "error", "crashed"}

CheckoutSteps == {"idle", "creating", "storing", "failing",
                  "answered", "refused", "error", "crashed"}

HookSteps == {"idle", "claiming", "expiring", "reading", "done", "lost", "crashed"}

(* "processing": the customer has completed the session and the payment is *)
(* still unpaid (a delayed method); "settled": that money came in later.   *)
SessionStates == {"none", "open", "paid", "processing", "settled", "expired"}

Deliveries == Checkouts \X Copies

TypeOK ==
  /\ status \in [Requests -> EmergencyStatus]
  /\ stripeSessionId \in [Requests -> Checkouts \cup {NoSession}]
  /\ payment \in [Requests -> Checkouts \cup {NoSession}]
  /\ rpc \in [Requests -> RequestSteps]
  /\ leads \subseteq Requests
  /\ alert \in [Requests -> {"none", "sent", "failed"}]
  /\ pc \in [Checkouts -> CheckoutSteps]
  /\ target \in [Checkouts -> Requests \cup {Nobody}]
  /\ session \in [Checkouts -> SessionStates]
  /\ hook \in [Deliveries -> HookSteps]
  /\ receipts \subseteq [delivery : Deliveries, shows : Checkouts \cup {NoSession}]
  /\ faults \in Nat

Init ==
  /\ status = [r \in Requests |-> "NONE"]
  /\ stripeSessionId = [r \in Requests |-> NoSession]
  /\ payment = [r \in Requests |-> NoSession]
  /\ rpc = [r \in Requests |-> "idle"]
  /\ leads = {}
  /\ alert = [r \in Requests |-> "none"]
  /\ pc = [k \in Checkouts |-> "idle"]
  /\ target = [k \in Checkouts |-> Nobody]
  /\ session = [k \in Checkouts |-> "none"]
  /\ hook = [d \in Deliveries |-> "idle"]
  /\ receipts = {}
  /\ faults = 0

----------------------------------------------------------------------------
Fault ==
  /\ faults < MaxFaults
  /\ faults' = faults + 1

IntakeGoto(r, step) == rpc' = [rpc EXCEPT ![r] = step]

Goto(k, step) == pc' = [pc EXCEPT ![k] = step]

HookGoto(d, step) == hook' = [hook EXCEPT ![d] = step]

SetStatus(r, s) == status' = [status EXCEPT ![r] = s]

(* The request a delivery is about: metadata.requestId of its session.     *)
Subject(d) == target[d[1]]

----------------------------------------------------------------------------
(* POST /request.                                                          *)

Capture(r) ==
  /\ rpc[r] = "idle"
  /\ SetStatus(r, "PENDING")
  /\ IntakeGoto(r, "recording")
  /\ UNCHANGED <<stripeSessionId, payment, leads, alert, pay, webhook, faults>>

(* The insert fails, perhaps only for the answer: 500 and no requestId.    *)
CaptureFails(r) ==
  /\ rpc[r] = "idle"
  /\ Fault
  /\ SetStatus(r, "PENDING") \/ UNCHANGED status
  /\ IntakeGoto(r, "error")
  /\ UNCHANGED <<stripeSessionId, payment, leads, alert, pay, webhook>>

RecordLead(r) ==
  /\ rpc[r] = "recording"
  /\ leads' = leads \cup {r}
  /\ IntakeGoto(r, "alerting")
  /\ UNCHANGED <<rows, alert, pay, webhook, faults>>

(* Slip: the catch answers and ends the handler.                           *)
RecordLeadFailsAndEnds(r) ==
  /\ rpc[r] = "recording"
  /\ Fault
  /\ IntakeGoto(r, "answered")
  /\ UNCHANGED <<rows, leads, alert, pay, webhook>>

(* The failure is logged and the handler goes on to the alerts.            *)
RecordLeadFails(r) ==
  /\ rpc[r] = "recording"
  /\ Fault
  /\ IntakeGoto(r, "alerting")
  /\ UNCHANGED <<rows, leads, alert, pay, webhook>>

(* Promise.allSettled over Teams and email, then the 201.                  *)
Alert(r) ==
  /\ rpc[r] = "alerting"
  /\ \/ alert' = [alert EXCEPT ![r] = "sent"] /\ UNCHANGED faults
     \/ alert' = [alert EXCEPT ![r] = "failed"] /\ Fault
  /\ IntakeGoto(r, "answered")
  /\ UNCHANGED <<rows, leads, pay, webhook>>

----------------------------------------------------------------------------
(* POST /checkout.                                                         *)

(* The row is read once; its status is not looked at again.                *)
Checkout(k, r) ==
  /\ pc[k] = "idle"
  /\ rpc[r] = "answered"
  /\ target' = [target EXCEPT ![k] = r]
  /\ Goto(k, IF status[r] = "PAID" THEN "refused" ELSE "creating")
  /\ UNCHANGED <<rows, intake, session, webhook, faults>>

OpenSession(k) ==
  /\ pc[k] = "creating"
  /\ session' = [session EXCEPT ![k] = "open"]
  /\ Goto(k, "storing")
  /\ UNCHANGED <<rows, intake, target, webhook, faults>>

(* Stripe refuses, or opens the session and the answer is lost.            *)
OpenSessionFails(k) ==
  /\ pc[k] = "creating"
  /\ Fault
  /\ session' = [session EXCEPT ![k] = "open"] \/ UNCHANGED session
  /\ Goto(k, "failing")
  /\ UNCHANGED <<rows, intake, target, webhook>>

(* Only stripeSessionId is written, over that of an earlier checkout.      *)
StoreSession(k) ==
  /\ pc[k] = "storing"
  /\ stripeSessionId' = [stripeSessionId EXCEPT ![target[k]] = k]
  /\ Goto(k, "answered")
  /\ UNCHANGED <<status, payment, intake, target, session, webhook, faults>>

(* The update is inside the try: its failure, too, ends in the catch.      *)
StoreSessionFails(k) ==
  /\ pc[k] = "storing"
  /\ Fault
  /\ \/ stripeSessionId' = [stripeSessionId EXCEPT ![target[k]] = k]
     \/ UNCHANGED stripeSessionId
  /\ Goto(k, "failing")
  /\ UNCHANGED <<status, payment, intake, target, session, webhook>>

(* The catch writes FAILED whatever the row has become, and answers 502.   *)
MarkFailed(k) ==
  /\ pc[k] = "failing"
  /\ SetStatus(target[k], "FAILED")
  /\ Goto(k, "error")
  /\ UNCHANGED <<stripeSessionId, payment, intake, target, session, webhook, faults>>

MarkFailedFails(k) ==
  /\ pc[k] = "failing"
  /\ Fault
  /\ Goto(k, "error")
  /\ UNCHANGED <<rows, intake, target, session, webhook>>

----------------------------------------------------------------------------
(* Stripe and its customer.  Only an answered checkout gives the customer  *)
(* the address of the payment page.                                        *)

Pay(k) ==
  /\ session[k] = "open" /\ pc[k] = "answered"
  /\ \E outcome \in {"paid", "processing"} : session' = [session EXCEPT ![k] = outcome]
  /\ UNCHANGED <<rows, intake, pc, target, webhook, faults>>

(* The event of this, async_payment_succeeded, is of a type the webhook    *)
(* acknowledges and ignores.                                               *)
Settle(k) ==
  /\ session[k] = "processing"
  /\ session' = [session EXCEPT ![k] = "settled"]
  /\ UNCHANGED <<rows, intake, pc, target, webhook, faults>>

(* expires_at, two hours after the session was opened.                     *)
Expire(k) ==
  /\ session[k] = "open"
  /\ session' = [session EXCEPT ![k] = "expired"]
  /\ UNCHANGED <<rows, intake, pc, target, webhook, faults>>

----------------------------------------------------------------------------
(* POST /webhook.                                                          *)

(* The delivery is acknowledged before any work, so a delivery whose work  *)
(* fails is not repeated for that reason.  The event is a snapshot: that   *)
(* of a session completed unpaid says so even when the money has come in.  *)
Deliver(d) ==
  /\ hook[d] = "idle"
  /\ \/ session[d[1]] = "paid" /\ HookGoto(d, "claiming")
     \/ session[d[1]] = "expired" /\ HookGoto(d, "expiring")
     \/ session[d[1]] \in {"processing", "settled"} /\ HookGoto(d, "done")
  /\ UNCHANGED <<rows, intake, pay, receipts, faults>>

(* Slip: the row is closed whatever its status.                            *)
CancelAnyRow(d) ==
  /\ hook[d] = "expiring"
  /\ SetStatus(Subject(d), "CANCELLED")
  /\ HookGoto(d, "done")
  /\ UNCHANGED <<stripeSessionId, payment, intake, pay, receipts, faults>>

(* checkout.session.expired: updateMany where status is PENDING.           *)
CancelRow(d) ==
  /\ hook[d] = "expiring"
  /\ IF status[Subject(d)] = "PENDING"
       THEN SetStatus(Subject(d), "CANCELLED")
       ELSE UNCHANGED status
  /\ HookGoto(d, "done")
  /\ UNCHANGED <<stripeSessionId, payment, intake, pay, receipts, faults>>

CancelRowFails(d) ==
  /\ hook[d] = "expiring"
  /\ Fault
  /\ HookGoto(d, "lost")
  /\ UNCHANGED <<rows, intake, pay, receipts>>

RecordPayment(d) ==
  /\ SetStatus(Subject(d), "PAID")
  /\ payment' = [payment EXCEPT ![Subject(d)] = d[1]]

(* Slip: a claim that does not look at the status.                         *)
ClaimAlways(d) ==
  /\ hook[d] = "claiming"
  /\ RecordPayment(d)
  /\ HookGoto(d, "reading")
  /\ UNCHANGED <<stripeSessionId, intake, pay, receipts, faults>>

(* Slip: a claim of PENDING rows only.                                     *)
ClaimPending(d) ==
  /\ hook[d] = "claiming"
  /\ IF status[Subject(d)] = "PENDING"
       THEN RecordPayment(d) /\ HookGoto(d, "reading")
       ELSE HookGoto(d, "done") /\ UNCHANGED <<status, payment>>
  /\ UNCHANGED <<stripeSessionId, intake, pay, receipts, faults>>

(* updateMany where status is not PAID; a count of 0 ends the handler.     *)
Claim(d) ==
  /\ hook[d] = "claiming"
  /\ IF status[Subject(d)] # "PAID"
       THEN RecordPayment(d) /\ HookGoto(d, "reading")
       ELSE HookGoto(d, "done") /\ UNCHANGED <<status, payment>>
  /\ UNCHANGED <<stripeSessionId, intake, pay, receipts, faults>>

(* The update throws, committed or not; the answer has long been sent.     *)
ClaimFails(d) ==
  /\ hook[d] = "claiming"
  /\ Fault
  /\ \/ status[Subject(d)] # "PAID" /\ RecordPayment(d)
     \/ UNCHANGED <<status, payment>>
  /\ HookGoto(d, "lost")
  /\ UNCHANGED <<stripeSessionId, intake, pay, receipts>>

(* The row is read back and mailed: the receipt shows the charge the row   *)
(* holds by then.                                                          *)
SendReceipt(d) ==
  /\ hook[d] = "reading"
  /\ receipts' = receipts \cup {[delivery |-> d, shows |-> payment[Subject(d)]]}
  /\ HookGoto(d, "done")
  /\ UNCHANGED <<rows, intake, pay, faults>>

(* The read throws, or the mail does not go out.                           *)
SendReceiptFails(d) ==
  /\ hook[d] = "reading"
  /\ Fault
  /\ HookGoto(d, "lost")
  /\ UNCHANGED <<rows, intake, pay, receipts>>

----------------------------------------------------------------------------
(* The process dies, and every handler under way with it.                  *)
Crash ==
  /\ Fault
  /\ rpc' = [r \in Requests |->
               IF rpc[r] \in {"recording", "alerting"} THEN "crashed" ELSE rpc[r]]
  /\ pc' = [k \in Checkouts |->
              IF pc[k] \in {"creating", "storing", "failing"} THEN "crashed" ELSE pc[k]]
  /\ hook' = [d \in Deliveries |->
                IF hook[d] \in {"claiming", "expiring", "reading"} THEN "crashed" ELSE hook[d]]
  /\ \E lost \in SUBSET {k \in Checkouts : pc[k] = "creating"} :
       session' = [k \in Checkouts |-> IF k \in lost THEN "open" ELSE session[k]]
  /\ UNCHANGED <<rows, leads, alert, target, receipts>>

IntakeProgress(r) == RecordLead(r) \/ Alert(r)

CheckoutProgress(k) == OpenSession(k) \/ StoreSession(k) \/ MarkFailed(k)

CheckoutFailure(k) == OpenSessionFails(k) \/ StoreSessionFails(k) \/ MarkFailedFails(k)

HookProgress(d) == CancelRow(d) \/ Claim(d) \/ SendReceipt(d)

HookFailure(d) == CancelRowFails(d) \/ ClaimFails(d) \/ SendReceiptFails(d)

Next ==
  \/ \E r \in Requests : Capture(r) \/ CaptureFails(r) \/ IntakeProgress(r) \/ RecordLeadFails(r)
  \/ \E k \in Checkouts : \E r \in Requests : Checkout(k, r)
  \/ \E k \in Checkouts : CheckoutProgress(k) \/ CheckoutFailure(k)
  \/ \E k \in Checkouts : Pay(k) \/ Settle(k) \/ Expire(k)
  \/ \E d \in Deliveries : Deliver(d) \/ HookProgress(d) \/ HookFailure(d)
  \/ Crash

(* Handlers under way go on, and Stripe delivers each event at least once; *)
(* nobody has to ask, to pay, or to fail.                                  *)
Fairness ==
  /\ \A r \in Requests : WF_vars(IntakeProgress(r))
  /\ \A k \in Checkouts : WF_vars(CheckoutProgress(k))
  /\ \A k \in Checkouts : WF_vars(\E n \in Copies : Deliver(<<k, n>>))
  /\ \A d \in Deliveries : WF_vars(HookProgress(d))

Spec == Init /\ [][Next]_vars

FairSpec == Spec /\ Fairness

----------------------------------------------------------------------------
(***************************************************************************)
(* Properties                                                              *)
(***************************************************************************)

(* A row says PAID, and a receipt is mailed, only for money that Stripe    *)
(* reported as received on a session of that very request, whichever of    *)
(* several sessions and copies of their events got there first.            *)
PaidIsBacked ==
  /\ \A r \in Requests : status[r] = "PAID" =>
       \E k \in Checkouts : payment[r] = k /\ target[k] = r /\ session[k] = "paid"
  /\ \A x \in receipts : \E k \in Checkouts :
       x.shows = k /\ target[k] = Subject(x.delivery) /\ session[k] = "paid"

Receipted(r) == {x \in receipts : Subject(x.delivery) = r}

FailedCheckouts(r) == {k \in Checkouts : target[k] = r /\ pc[k] = "error"}

(* The receipts of a request never outnumber its failed checkouts by more  *)
(* than one: copies of an event and events of other sessions are absorbed  *)
(* by the claim, except after a failing checkout has overwritten PAID.     *)
ReceiptsBounded ==
  \A r \in Requests : Cardinality(Receipted(r)) <= 1 + Cardinality(FailedCheckouts(r))

(* PAID is final but for the catch of a checkout of the same request: the  *)
(* expiry of another session, delivered late or twice, does not undo it.   *)
PaidIsKept ==
  [][\A r \in Requests : status[r] = "PAID" /\ status'[r] # "PAID" =>
       \E k \in Checkouts : target[k] = r /\ pc[k] = "failing" /\ pc'[k] = "error"]_vars

(* The money of a session reaches the row of its request, also when a      *)
(* failed checkout or an expired session has closed the row before, unless *)
(* the webhook's work was lost after its acknowledgement, or the payment   *)
(* was a delayed one, which settles after the session and never reaches    *)
(* the row: the webhook does not take that event (emergency.routes.ts:227, *)
(* 245), which "is what marks a block as paid" (line 201).                 *)
ChargeIsRecorded ==
  \A k \in Checkouts : \A r \in Requests :
    (session[k] \in {"paid", "settled"} /\ target[k] = r
      /\ \A n \in Copies : hook[<<k, n>>] = "idle") ~>
        \/ status[r] = "PAID" \/ session[k] = "settled"
        \/ \E n \in Copies : hook[<<k, n>>] \in {"lost", "crashed"}

(* A captured request is answered, and the team is told of it before, also *)
(* when it could not be recorded as a lead (emergency.routes.ts:75-98):    *)
(* only the alert itself may fail, and only a dead process leaves a        *)
(* request alone.                                                          *)
CaptureSettles ==
  \A r \in Requests :
    rpc[r] = "recording" ~>
      \/ /\ rpc[r] = "answered" /\ alert[r] # "none"
         /\ faults = 0 => r \in leads /\ alert[r] = "sent"
      \/ rpc[r] = "crashed"

(* emergency.routes.ts:247: the receipt email must not go out twice for    *)
(* one payment.                                                            *)
OneReceiptPerPayment ==
  \A x, y \in receipts : x.delivery[1] = y.delivery[1] => x = y

----------------------------------------------------------------------------
(* The accounts of which the handlers keep only traces.                    *)
Money == {r \in Requests : \E k \in Checkouts : target[k] = r /\ session[k] = "paid"}

Paid == {r \in Requests : status[r] = "PAID"}

ReceiptsDue == {<<Subject(d), d>> : d \in {e \in Deliveries : hook[e] = "reading"}}

ReceiptsSent == {<<Subject(x.delivery), x.delivery>> : x \in receipts}

CheckoutsFailed == {<<target[k], k>> : k \in {j \in Checkouts : pc[j] = "error"}}

Ledger ==
  INSTANCE PaymentLedger WITH Notices <- Deliveries, money <- Money, paid <- Paid,
    due <- ReceiptsDue, sent <- ReceiptsSent, failed <- CheckoutsFailed

(* Whatever overlaps, is repeated or is lost, the payment of a request     *)
(* goes as the ledger says: nothing is recorded that was not paid, and a   *)
(* record is made anew only after a failed checkout                        *)
(* (emergency.routes.ts:153-161, 247-261).                                 *)
KeepsLedger == Ledger!Spec
=============================================================================
