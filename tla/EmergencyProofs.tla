-------------------------- MODULE EmergencyProofs --------------------------
(***************************************************************************)
(* Proofs about Emergency for any number of requests, checkouts, copies    *)
(* and failures.  IInv ties the handlers under way and the recorded        *)
(* charges to the sessions at Stripe.  Below it the receipts are counted,  *)
(* and every step is shown to be one of PaymentLedger.                     *)
(***************************************************************************)
EXTENDS Emergency, FiniteSetTheorems, TLAPS

(* A checkout is for an answered request; its session opens once, and not  *)
(* before the checkout has passed the look at the status.                  *)
CheckoutInv ==
  /\ \A r \in Requests : rpc[r] = "idle" => status[r] = "NONE"
  /\ \A k \in Checkouts :
       /\ pc[k] = "idle" <=> target[k] = Nobody
       /\ target[k] # Nobody => rpc[target[k]] = "answered"
       /\ pc[k] \in {"idle", "creating", "refused"} => session[k] = "none"

(* What a webhook handler read in its event is still so at Stripe.         *)
HookInv ==
  \A d \in Deliveries :
    /\ hook[d] # "idle" => session[d[1]] # "none"
    /\ hook[d] \in {"claiming", "reading"} => session[d[1]] = "paid"

(* A recorded charge is real, and a row that is PAID or being receipted    *)
(* has one.                                                                *)
PaymentInv ==
  /\ \A r \in Requests :
       /\ payment[r] # NoSession => target[payment[r]] = r /\ session[payment[r]] = "paid"
       /\ status[r] = "PAID" => payment[r] # NoSession
  /\ \A d \in Deliveries : hook[d] = "reading" => payment[Subject(d)] # NoSession
  /\ \A x \in receipts : /\ hook[x.delivery] = "done"
                         /\ x.shows # NoSession
                         /\ target[x.shows] = Subject(x.delivery)
                         /\ session[x.shows] = "paid"

IInv == TypeOK /\ CheckoutInv /\ HookInv /\ PaymentInv

----------------------------------------------------------------------------
(* An event that has been delivered is about a request.                    *)
LEMMA SubjectKnown ==
  ASSUME IInv, NEW d \in Deliveries, hook[d] # "idle"
  PROVE  d[1] \in Checkouts /\ Subject(d) \in Requests
BY DEF IInv, TypeOK, CheckoutInv, HookInv, Subject, Deliveries

LEMMA TypeStep == IInv /\ [Next]_vars => TypeOK'
<1>. SUFFICES ASSUME IInv, TypeOK, [Next]_vars PROVE TypeOK'
  BY DEF IInv
<1>. USE DEF TypeOK, EmergencyStatus, RequestSteps, CheckoutSteps, HookSteps,
             SessionStates, Goto, IntakeGoto, HookGoto, SetStatus, Fault,
             rows, intake, pay, webhook
<1>1. ASSUME NEW r \in Requests,
             Capture(r) \/ CaptureFails(r) \/ IntakeProgress(r) \/ RecordLeadFails(r)
      PROVE  TypeOK'
  BY <1>1 DEF Capture, CaptureFails, IntakeProgress, RecordLead, RecordLeadFails, Alert
<1>2. ASSUME NEW k \in Checkouts, NEW r \in Requests, Checkout(k, r)
      PROVE  TypeOK'
  BY <1>2 DEF Checkout
<1>3. ASSUME NEW k \in Checkouts, CheckoutProgress(k) PROVE TypeOK'
  BY <1>3 DEF CheckoutProgress, OpenSession, StoreSession, MarkFailed
<1>4. ASSUME NEW k \in Checkouts, CheckoutFailure(k) PROVE TypeOK'
  BY <1>4 DEF CheckoutFailure, OpenSessionFails, StoreSessionFails, MarkFailedFails
<1>5. ASSUME NEW k \in Checkouts, Pay(k) \/ Settle(k) \/ Expire(k) PROVE TypeOK'
  BY <1>5 DEF Pay, Settle, Expire
<1>6. ASSUME NEW d \in Deliveries, Deliver(d) \/ HookProgress(d) \/ HookFailure(d)
      PROVE  TypeOK'
  <2>. d[1] \in Checkouts
    BY DEF Deliveries
  <2>1. CASE Deliver(d) \/ CancelRow(d)
    BY <2>1 DEF Deliver, CancelRow
  <2>2. CASE Claim(d) \/ ClaimFails(d)
    BY <2>2 DEF Claim, ClaimFails, RecordPayment
  <2>3. CASE CancelRowFails(d) \/ SendReceiptFails(d)
    BY <2>3 DEF CancelRowFails, SendReceiptFails
  <2>4. CASE SendReceipt(d)
    <3>1. payment[Subject(d)] \in Checkouts \cup {NoSession}
      BY <2>4, SubjectKnown DEF SendReceipt
    <3>. QED
      BY <2>4, <3>1 DEF SendReceipt
  <2>. QED
    BY <1>6, <2>1, <2>2, <2>3, <2>4 DEF HookProgress, HookFailure
<1>7. CASE Crash
  BY <1>7 DEF Crash
<1>8. CASE UNCHANGED vars
  BY <1>8 DEF vars
<1>. QED
  BY <1>1, <1>2, <1>3, <1>4, <1>5, <1>6, <1>7, <1>8 DEF Next

LEMMA CheckoutStep == IInv /\ [Next]_vars => CheckoutInv'
<1>. SUFFICES ASSUME IInv, [Next]_vars PROVE CheckoutInv'
  OBVIOUS
<1>. USE NobodyAssumption
     DEF IInv, TypeOK, CheckoutInv, Goto, IntakeGoto, HookGoto, SetStatus, Fault,
         rows, intake, pay, webhook
<1>1. ASSUME NEW r \in Requests,
             Capture(r) \/ CaptureFails(r) \/ IntakeProgress(r) \/ RecordLeadFails(r)
      PROVE  CheckoutInv'
  BY <1>1 DEF Capture, CaptureFails, IntakeProgress, RecordLead, RecordLeadFails, Alert
<1>2. ASSUME NEW k \in Checkouts, NEW r \in Requests, Checkout(k, r)
      PROVE  CheckoutInv'
  BY <1>2 DEF Checkout
<1>3. ASSUME NEW k \in Checkouts, CheckoutProgress(k) PROVE CheckoutInv'
  BY <1>3 DEF CheckoutProgress, OpenSession, StoreSession, MarkFailed
<1>4. ASSUME NEW k \in Checkouts, CheckoutFailure(k) PROVE CheckoutInv'
  BY <1>4 DEF CheckoutFailure, OpenSessionFails, StoreSessionFails, MarkFailedFails
<1>5. ASSUME NEW k \in Checkouts, Pay(k) \/ Settle(k) \/ Expire(k) PROVE CheckoutInv'
  BY <1>5 DEF Pay, Settle, Expire
<1>6. ASSUME NEW d \in Deliveries, Deliver(d) \/ HookProgress(d) \/ HookFailure(d)
      PROVE  CheckoutInv'
  <2>1. UNCHANGED <<rpc, pc, target, session>>
    BY <1>6 DEF Deliver, HookProgress, CancelRow, Claim, SendReceipt,
                HookFailure, CancelRowFails, ClaimFails, SendReceiptFails
  <2>2. \/ status' = status
        \/ hook[d] # "idle" /\ SetStatus(Subject(d), "PAID")
        \/ hook[d] # "idle" /\ SetStatus(Subject(d), "CANCELLED")
    BY <1>6 DEF Deliver, HookProgress, CancelRow, Claim, SendReceipt, RecordPayment,
                HookFailure, CancelRowFails, ClaimFails, SendReceiptFails
  <2>3. hook[d] # "idle" => Subject(d) \in Requests /\ rpc[Subject(d)] = "answered"
    BY DEF HookInv, Subject, Deliveries
  <2>. QED
    BY <2>1, <2>2, <2>3
<1>7. CASE Crash
  BY <1>7 DEF Crash
<1>8. CASE UNCHANGED vars
  BY <1>8 DEF vars
<1>. QED
  BY <1>1, <1>2, <1>3, <1>4, <1>5, <1>6, <1>7, <1>8 DEF Next

(* At Stripe a session that is paid stays paid, and stays its request's.   *)
LEMMA SessionMoves ==
  ASSUME IInv, [Next]_vars, NEW k \in Checkouts
  PROVE  /\ session[k] # "none" => session'[k] # "none" /\ target'[k] = target[k]
         /\ session[k] = "paid" => session'[k] = "paid"
<1>. USE DEF IInv, TypeOK, CheckoutInv, Goto, rows, intake, pay, webhook
<1>1. ASSUME NEW r \in Requests,
             Capture(r) \/ CaptureFails(r) \/ IntakeProgress(r) \/ RecordLeadFails(r)
      PROVE  UNCHANGED <<session, target>>
  BY <1>1 DEF Capture, CaptureFails, IntakeProgress, RecordLead, RecordLeadFails, Alert
<1>2. ASSUME NEW j \in Checkouts, NEW r \in Requests, Checkout(j, r)
      PROVE  session' = session /\ (session[k] # "none" => target'[k] = target[k])
  BY <1>2 DEF Checkout
<1>3. ASSUME NEW j \in Checkouts, CheckoutProgress(j) \/ CheckoutFailure(j)
      PROVE  target' = target /\ (session[k] # "none" => session'[k] = session[k])
  BY <1>3 DEF CheckoutProgress, OpenSession, StoreSession, MarkFailed,
              CheckoutFailure, OpenSessionFails, StoreSessionFails, MarkFailedFails
<1>4. ASSUME NEW j \in Checkouts, Pay(j) \/ Settle(j) \/ Expire(j)
      PROVE  /\ target' = target
             /\ session[k] # "none" => session'[k] # "none"
             /\ session[k] = "paid" => session'[k] = "paid"
  BY <1>4 DEF Pay, Settle, Expire
<1>5. ASSUME NEW d \in Deliveries, Deliver(d) \/ HookProgress(d) \/ HookFailure(d)
      PROVE  UNCHANGED <<session, target>>
  BY <1>5 DEF Deliver, HookProgress, CancelRow, Claim, SendReceipt,
              HookFailure, CancelRowFails, ClaimFails, SendReceiptFails
<1>6. ASSUME Crash
      PROVE  target' = target /\ (session[k] # "none" => session'[k] = session[k])
  BY <1>6 DEF Crash
<1>7. CASE UNCHANGED vars
  BY <1>7 DEF vars
<1>. QED
  BY <1>1, <1>2, <1>3, <1>4, <1>5, <1>6, <1>7 DEF Next

LEMMA HookStep == IInv /\ [Next]_vars => HookInv'
<1>. SUFFICES ASSUME IInv, [Next]_vars, NEW d \in Deliveries
     PROVE  /\ hook'[d] # "idle" => session'[d[1]] # "none"
            /\ hook'[d] \in {"claiming", "reading"} => session'[d[1]] = "paid"
  BY DEF HookInv
<1>. d[1] \in Checkouts
  BY DEF Deliveries
<1>1. \/ hook'[d] = hook[d]
      \/ hook'[d] \notin {"idle", "claiming", "reading"} /\ hook[d] # "idle"
      \/ hook[d] = "claiming" /\ hook'[d] = "reading"
      \/ /\ hook[d] = "idle" /\ session' = session /\ session[d[1]] # "none"
         /\ hook'[d] # "reading" /\ (hook'[d] = "claiming" => session[d[1]] = "paid")
  <2>. USE DEF IInv, TypeOK, HookGoto, rows, intake, pay, webhook
  <2>1. ASSUME NEW r \in Requests,
               Capture(r) \/ CaptureFails(r) \/ IntakeProgress(r) \/ RecordLeadFails(r)
        PROVE  UNCHANGED hook
    BY <2>1 DEF Capture, CaptureFails, IntakeProgress, RecordLead, RecordLeadFails, Alert
  <2>2. ASSUME NEW j \in Checkouts, NEW r \in Requests, Checkout(j, r)
        PROVE  UNCHANGED hook
    BY <2>2 DEF Checkout
  <2>3. ASSUME NEW j \in Checkouts, CheckoutProgress(j) \/ CheckoutFailure(j)
        PROVE  UNCHANGED hook
    BY <2>3 DEF CheckoutProgress, OpenSession, StoreSession, MarkFailed,
                CheckoutFailure, OpenSessionFails, StoreSessionFails, MarkFailedFails
  <2>4. ASSUME NEW j \in Checkouts, Pay(j) \/ Settle(j) \/ Expire(j)
        PROVE  UNCHANGED hook
    BY <2>4 DEF Pay, Settle, Expire
  <2>5. ASSUME NEW e \in Deliveries, Deliver(e)
        PROVE  \/ hook'[d] = hook[d]
               \/ /\ hook[d] = "idle" /\ session' = session /\ session[d[1]] # "none"
                  /\ hook'[d] # "reading" /\ (hook'[d] = "claiming" => session[d[1]] = "paid")
    BY <2>5 DEF Deliver
  <2>6. ASSUME NEW e \in Deliveries, HookProgress(e) \/ HookFailure(e)
        PROVE  \/ hook'[d] = hook[d]
               \/ hook'[d] \notin {"idle", "claiming", "reading"} /\ hook[d] # "idle"
               \/ hook[d] = "claiming" /\ hook'[d] = "reading"
    BY <2>6 DEF HookProgress, CancelRow, Claim, SendReceipt,
                HookFailure, CancelRowFails, ClaimFails, SendReceiptFails
  <2>7. ASSUME Crash
        PROVE  hook'[d] = hook[d] \/ (hook'[d] = "crashed" /\ hook[d] # "idle")
    BY <2>7 DEF Crash
  <2>8. CASE UNCHANGED vars
    BY <2>8 DEF vars
  <2>. QED
    BY <2>1, <2>2, <2>3, <2>4, <2>5, <2>6, <2>7, <2>8 DEF Next
<1>. QED
  BY <1>1, SessionMoves DEF IInv, HookInv

(* A row is given a charge by the claim of a session that is paid.         *)
LEMMA PaymentStep == IInv /\ [Next]_vars => PaymentInv'
<1>. SUFFICES ASSUME IInv, [Next]_vars PROVE PaymentInv'
  OBVIOUS
<1>. USE NoSessionAssumption
     DEF IInv, TypeOK, PaymentInv, Goto, IntakeGoto, HookGoto, SetStatus, Fault,
         rows, intake, pay, webhook
<1>a. ASSUME NEW x \in receipts
      PROVE  /\ x.delivery \in Deliveries /\ x.shows \in Checkouts
             /\ target'[x.shows] = Subject(x.delivery)' /\ session'[x.shows] = "paid"
  <2>1. x.delivery \in Deliveries /\ x.delivery[1] \in Checkouts /\ x.shows \in Checkouts
    BY DEF Deliveries
  <2>. QED
    BY <2>1, SessionMoves DEF Subject, HookInv
<1>b. \A r \in Requests : payment[r] # NoSession =>
         target'[payment[r]] = r /\ session'[payment[r]] = "paid"
  BY SessionMoves
<1>c. \A d \in Deliveries : hook[d] # "idle" =>
         d[1] \in Checkouts /\ Subject(d) \in Requests /\ Subject(d)' = Subject(d)
  BY SubjectKnown, SessionMoves DEF Subject, HookInv
<1>1. ASSUME UNCHANGED <<payment, receipts>>,
             \A r \in Requests : status'[r] = "PAID" => status[r] = "PAID",
             \A d \in Deliveries : /\ hook'[d] = "reading" => hook[d] = "reading"
                                   /\ hook[d] = "done" => hook'[d] = "done"
      PROVE  PaymentInv'
  BY <1>1, <1>a, <1>b, <1>c
<1>2. ASSUME NEW r \in Requests,
             Capture(r) \/ CaptureFails(r) \/ IntakeProgress(r) \/ RecordLeadFails(r)
      PROVE  PaymentInv'
  BY <1>1, <1>2 DEF Capture, CaptureFails, IntakeProgress, RecordLead, RecordLeadFails, Alert
<1>3. ASSUME NEW k \in Checkouts, NEW r \in Requests, Checkout(k, r)
      PROVE  PaymentInv'
  BY <1>1, <1>3 DEF Checkout
<1>4. ASSUME NEW k \in Checkouts, CheckoutProgress(k) PROVE PaymentInv'
  BY <1>1, <1>4 DEF CheckoutProgress, OpenSession, StoreSession, MarkFailed
<1>5. ASSUME NEW k \in Checkouts, CheckoutFailure(k) PROVE PaymentInv'
  BY <1>1, <1>5 DEF CheckoutFailure, OpenSessionFails, StoreSessionFails, MarkFailedFails
<1>6. ASSUME NEW k \in Checkouts, Pay(k) \/ Settle(k) \/ Expire(k) PROVE PaymentInv'
  BY <1>1, <1>6 DEF Pay, Settle, Expire
<1>7. ASSUME NEW d \in Deliveries, Deliver(d) \/ CancelRow(d) \/ CancelRowFails(d)
             \/ SendReceiptFails(d)
      PROVE  PaymentInv'
  BY <1>1, <1>7 DEF Deliver, CancelRow, CancelRowFails, SendReceiptFails
<1>8. ASSUME NEW d \in Deliveries, Claim(d) \/ ClaimFails(d)
      PROVE  PaymentInv'
  <2>1. /\ UNCHANGED <<receipts, target, session>>
        /\ hook[d] = "claiming"
        /\ \A e \in Deliveries : e # d => hook'[e] = hook[e]
    BY <1>8 DEF Claim, ClaimFails
  <2>2. CASE RecordPayment(d)
    <3>1. payment' = [payment EXCEPT ![Subject(d)] = d[1]] /\ d[1] # NoSession
          /\ status' = [status EXCEPT ![Subject(d)] = "PAID"]
      BY <2>1, <2>2, <1>c DEF RecordPayment
    <3>2. target[d[1]] = Subject(d) /\ session[d[1]] = "paid"
      BY <2>1 DEF HookInv, Subject
    <3>. QED
      BY <2>1, <3>1, <3>2, <1>a, <1>b, <1>c
  <2>3. CASE ~RecordPayment(d)
    BY <1>1, <1>8, <2>3 DEF Claim, ClaimFails
  <2>. QED
    BY <2>2, <2>3
<1>9. ASSUME NEW d \in Deliveries, SendReceipt(d) PROVE PaymentInv'
  <2>. DEFINE p == payment[Subject(d)]
  <2>1. /\ UNCHANGED <<status, payment, target, session>>
        /\ hook' = [hook EXCEPT ![d] = "done"]
        /\ receipts' = receipts \cup {[delivery |-> d, shows |-> p]}
    BY <1>9 DEF SendReceipt
  <2>2. p # NoSession /\ target[p] = Subject(d) /\ session[p] = "paid"
    BY <1>9, <1>c DEF SendReceipt
  <2>3. ASSUME NEW x \in receipts'
        PROVE  /\ hook'[x.delivery] = "done" /\ x.shows # NoSession
               /\ target'[x.shows] = Subject(x.delivery)' /\ session'[x.shows] = "paid"
    <3>1. CASE x \in receipts
      BY <2>1, <3>1, <1>a
    <3>2. CASE x = [delivery |-> d, shows |-> p]
      BY <2>1, <2>2, <3>2 DEF Subject
    <3>. QED
      BY <2>1, <3>1, <3>2
  <2>. QED
    BY <2>1, <2>3, <1>b DEF Subject
<1>10. CASE Crash
  BY <1>1, <1>10 DEF Crash
<1>11. CASE UNCHANGED vars
  BY <1>1, <1>11 DEF vars
<1>. QED
  BY <1>2, <1>3, <1>4, <1>5, <1>6, <1>7, <1>8, <1>9, <1>10, <1>11
  DEF Next, HookProgress, HookFailure

LEMMA IInvInit == Init => IInv
BY NobodyAssumption, NoSessionAssumption
   DEF Init, IInv, TypeOK, CheckoutInv, HookInv, PaymentInv, EmergencyStatus,
       RequestSteps, CheckoutSteps, HookSteps, SessionStates, Deliveries

LEMMA Inductive == Spec => []IInv
<1>1. IInv /\ [Next]_vars => IInv'
  BY TypeStep, CheckoutStep, HookStep, PaymentStep DEF IInv
<1>. QED
  BY <1>1, IInvInit, PTL DEF Spec

(* Every variable keeps its type.                                          *)
THEOREM TypeCorrect == Spec => []TypeOK
<1>1. IInv => TypeOK
  BY DEF IInv
<1>. QED
  BY <1>1, Inductive, PTL

(* PAID and receipts are backed by money received on a session of that     *)
(* request (the claim of emergency.routes.ts:249 and the read at 263).     *)
THEOREM Backed == Spec => []PaidIsBacked
<1>1. IInv => PaidIsBacked
  BY DEF IInv, TypeOK, PaymentInv, PaidIsBacked, Deliveries, Subject
<1>. QED
  BY <1>1, Inductive, PTL

(* Only the catch of a checkout of the request takes PAID from a row.      *)
THEOREM Kept == Spec => PaidIsKept
<1>1. ASSUME IInv, [Next]_vars, NEW r \in Requests, status[r] = "PAID", status'[r] # "PAID"
      PROVE  \E k \in Checkouts : target[k] = r /\ pc[k] = "failing" /\ pc'[k] = "error"
  <2>. USE <1>1 DEF IInv, TypeOK, CheckoutInv, SetStatus, rows, intake, pay, webhook
  <2>1. ASSUME NEW q \in Requests,
               Capture(q) \/ CaptureFails(q) \/ IntakeProgress(q) \/ RecordLeadFails(q)
        PROVE  FALSE
    BY <2>1 DEF Capture, CaptureFails, IntakeProgress, RecordLead, RecordLeadFails, Alert
  <2>2. ASSUME NEW k \in Checkouts, NEW q \in Requests, Checkout(k, q) PROVE FALSE
    BY <2>2 DEF Checkout
  <2>3. ASSUME NEW k \in Checkouts, OpenSession(k) \/ StoreSession(k) \/ CheckoutFailure(k)
        PROVE  FALSE
    BY <2>3 DEF OpenSession, StoreSession,
                CheckoutFailure, OpenSessionFails, StoreSessionFails, MarkFailedFails
  <2>4. ASSUME NEW k \in Checkouts, MarkFailed(k)
        PROVE  target[k] = r /\ pc[k] = "failing" /\ pc'[k] = "error"
    BY <2>4 DEF MarkFailed, Goto
  <2>5. ASSUME NEW k \in Checkouts, Pay(k) \/ Settle(k) \/ Expire(k) PROVE FALSE
    BY <2>5 DEF Pay, Settle, Expire
  <2>6. ASSUME NEW d \in Deliveries, Deliver(d) \/ HookProgress(d) \/ HookFailure(d)
        PROVE  FALSE
    BY <2>6 DEF Deliver, HookProgress, CancelRow, Claim, SendReceipt, RecordPayment,
                HookFailure, CancelRowFails, ClaimFails, SendReceiptFails
  <2>7. CASE Crash
    BY <2>7 DEF Crash
  <2>8. CASE UNCHANGED vars
    BY <2>8 DEF vars
  <2>. QED
    BY <2>1, <2>2, <2>3, <2>4, <2>5, <2>6, <2>7, <2>8 DEF Next, CheckoutProgress
<1>2. IInv /\ [Next]_vars =>
        [\A r \in Requests : status[r] = "PAID" /\ status'[r] # "PAID" =>
           \E k \in Checkouts : target[k] = r /\ pc[k] = "failing" /\ pc'[k] = "error"]_vars
  BY <1>1
<1>. QED
  BY <1>2, Inductive, PTL DEF Spec, PaidIsKept

----------------------------------------------------------------------------
(* How many receipts a request gets.  Each claim uses up what is due on    *)
(* the row, and only the catch of a checkout makes it due again.           *)
Receipting(r) == {d \in Deliveries : hook[d] = "reading" /\ Subject(d) = r}

Due(r) == IF status[r] = "PAID" THEN 0 ELSE 1

Budget(r) ==
  Cardinality(Receipted(r)) + Cardinality(Receipting(r)) + Due(r)
    <= 1 + Cardinality(FailedCheckouts(r))

BudgetInv == IsFiniteSet(receipts) /\ \A r \in Requests : Budget(r)

LEMMA FiniteCounts ==
  ASSUME IsFiniteSet(receipts), NEW r \in Requests
  PROVE  /\ IsFiniteSet(Receipted(r)) /\ Cardinality(Receipted(r)) \in Nat
         /\ IsFiniteSet(Receipting(r)) /\ Cardinality(Receipting(r)) \in Nat
         /\ IsFiniteSet(FailedCheckouts(r)) /\ Cardinality(FailedCheckouts(r)) \in Nat
<1>1. IsFiniteSet(Deliveries)
  BY FiniteAssumption, FS_Product DEF Deliveries
<1>2. IsFiniteSet(Receipted(r))
  BY FS_Subset DEF Receipted
<1>3. IsFiniteSet(Receipting(r))
  BY <1>1, FS_Subset DEF Receipting
<1>4. IsFiniteSet(FailedCheckouts(r))
  BY FiniteAssumption, FS_Subset DEF FailedCheckouts
<1>. QED
  BY <1>2, <1>3, <1>4, FS_CardinalityType

(* The same sets after a step.                                             *)
LEMMA FiniteCountsNext ==
  ASSUME IsFiniteSet(receipts'), NEW r \in Requests
  PROVE  /\ IsFiniteSet(Receipted(r)') /\ Cardinality(Receipted(r)') \in Nat
         /\ IsFiniteSet(Receipting(r)') /\ Cardinality(Receipting(r)') \in Nat
         /\ IsFiniteSet(FailedCheckouts(r)') /\ Cardinality(FailedCheckouts(r)') \in Nat
<1>1. IsFiniteSet(Deliveries)
  BY FiniteAssumption, FS_Product DEF Deliveries
<1>2. IsFiniteSet(Receipted(r)')
  BY FS_Subset DEF Receipted
<1>3. IsFiniteSet(Receipting(r)')
  BY <1>1, FS_Subset DEF Receipting
<1>4. IsFiniteSet(FailedCheckouts(r)')
  BY FiniteAssumption, FS_Subset DEF FailedCheckouts
<1>. QED
  BY <1>2, <1>3, <1>4, FS_CardinalityType

(* A step that only takes from the left of the budget and adds to the      *)
(* right of it.                                                            *)
LEMMA QuietBudget ==
  ASSUME IsFiniteSet(receipts), IsFiniteSet(receipts'), NEW r \in Requests, Budget(r),
         Receipted(r)' \subseteq Receipted(r),
         Receipting(r)' \subseteq Receipting(r),
         FailedCheckouts(r) \subseteq FailedCheckouts(r)',
         status[r] # "PAID" \/ status'[r] = "PAID"
  PROVE  Budget(r)'
<1>1. Cardinality(Receipted(r)') <= Cardinality(Receipted(r))
  BY FiniteCounts, FS_Subset
<1>2. Cardinality(Receipting(r)') <= Cardinality(Receipting(r))
  BY FiniteCounts, FS_Subset
<1>3. Cardinality(FailedCheckouts(r)) <= Cardinality(FailedCheckouts(r)')
  BY FiniteCountsNext, FS_Subset
<1>. HIDE DEF Receipted, Receipting, FailedCheckouts
<1>. QED
  BY <1>1, <1>2, <1>3, FiniteCounts, FiniteCountsNext DEF Budget, Due

LEMMA OneMore ==
  ASSUME NEW S, NEW x, IsFiniteSet(S)
  PROVE  Cardinality(S \cup {x}) <= Cardinality(S) + 1
<1>1. Cardinality(S) \in Nat
  BY FS_CardinalityType
<1>2. Cardinality(S \cup {x}) = IF x \in S THEN Cardinality(S) ELSE Cardinality(S) + 1
  BY FS_AddElement
<1>. QED
  BY <1>1, <1>2

LEMMA BudgetStep == IInv /\ BudgetInv /\ [Next]_vars => BudgetInv'
<1>. SUFFICES ASSUME IInv, BudgetInv, [Next]_vars PROVE BudgetInv'
  OBVIOUS
<1>. USE DEF IInv, TypeOK, Goto, IntakeGoto, HookGoto, SetStatus, rows, intake, pay, webhook
<1>a. \A d \in Deliveries : hook[d] # "idle" =>
         d[1] \in Checkouts /\ Subject(d) \in Requests /\ Subject(d)' = Subject(d)
  BY SubjectKnown, SessionMoves DEF Subject, HookInv
<1>b. \A x \in receipts : x.delivery \in Deliveries /\ hook[x.delivery] = "done"
  BY DEF PaymentInv
<1>1. ASSUME UNCHANGED receipts,
             \A d \in Deliveries : hook'[d] = "reading" => hook[d] = "reading",
             \A k \in Checkouts : pc[k] = "error" => pc'[k] = "error" /\ target'[k] = target[k],
             \A r \in Requests : status[r] # "PAID" \/ status'[r] = "PAID"
      PROVE  BudgetInv'
  <2>1. ASSUME NEW r \in Requests
        PROVE  /\ Receipted(r)' \subseteq Receipted(r)
               /\ Receipting(r)' \subseteq Receipting(r)
               /\ FailedCheckouts(r) \subseteq FailedCheckouts(r)'
    BY <1>1, <1>a, <1>b DEF Receipted, Receipting, FailedCheckouts
  <2>. QED
    BY <1>1, <2>1, QuietBudget DEF BudgetInv
<1>2. ASSUME NEW r \in Requests,
             Capture(r) \/ CaptureFails(r) \/ IntakeProgress(r) \/ RecordLeadFails(r)
      PROVE  BudgetInv'
  BY <1>1, <1>2
  DEF CheckoutInv, Capture, CaptureFails, IntakeProgress, RecordLead, RecordLeadFails, Alert
<1>3. ASSUME NEW k \in Checkouts, NEW r \in Requests, Checkout(k, r)
      PROVE  BudgetInv'
  BY <1>1, <1>3 DEF Checkout
<1>4. ASSUME NEW k \in Checkouts, OpenSession(k) \/ StoreSession(k) PROVE BudgetInv'
  BY <1>1, <1>4 DEF OpenSession, StoreSession
<1>5. ASSUME NEW k \in Checkouts, CheckoutFailure(k) PROVE BudgetInv'
  BY <1>1, <1>5 DEF CheckoutFailure, OpenSessionFails, StoreSessionFails, MarkFailedFails
<1>6. ASSUME NEW k \in Checkouts, Pay(k) \/ Settle(k) \/ Expire(k) PROVE BudgetInv'
  BY <1>1, <1>6 DEF Pay, Settle, Expire
<1>7. ASSUME NEW d \in Deliveries, Deliver(d) \/ CancelRow(d) \/ CancelRowFails(d)
             \/ SendReceiptFails(d)
      PROVE  BudgetInv'
  BY <1>1, <1>7 DEF Deliver, CancelRow, CancelRowFails, SendReceiptFails
<1>8. ASSUME NEW k \in Checkouts, MarkFailed(k) PROVE BudgetInv'
  <2>1. UNCHANGED <<receipts, hook, target>> /\ IsFiniteSet(receipts')
    BY <1>8 DEF MarkFailed, BudgetInv
  <2>. SUFFICES ASSUME NEW r \in Requests PROVE Budget(r)'
    BY <2>1 DEF BudgetInv
  <2>2. Receipted(r)' = Receipted(r) /\ Receipting(r)' = Receipting(r)
    BY <2>1 DEF Receipted, Receipting, Subject
  <2>3. CASE target[k] = r
    <3>1. FailedCheckouts(r)' = FailedCheckouts(r) \cup {k} /\ k \notin FailedCheckouts(r)
      BY <1>8, <2>1, <2>3 DEF MarkFailed, FailedCheckouts
    <3>2. Cardinality(FailedCheckouts(r)') = Cardinality(FailedCheckouts(r)) + 1
      BY <3>1, FiniteCounts, FS_AddElement DEF BudgetInv
    <3>. QED
      BY <2>1, <2>2, <3>2, FiniteCounts, FiniteCountsNext DEF BudgetInv, Budget, Due
  <2>4. CASE target[k] # r
    <3>1. status'[r] = status[r] /\ FailedCheckouts(r) \subseteq FailedCheckouts(r)'
      BY <1>8, <2>1, <2>4 DEF MarkFailed, FailedCheckouts
    <3>. QED
      BY <2>1, <2>2, <3>1, QuietBudget DEF BudgetInv
  <2>. QED
    BY <2>3, <2>4
<1>9. ASSUME NEW d \in Deliveries, Claim(d) PROVE BudgetInv'
  <2>1. CASE status[Subject(d)] = "PAID"
    BY <1>1, <1>9, <2>1 DEF Claim
  <2>2. CASE status[Subject(d)] # "PAID"
    <3>1. /\ UNCHANGED <<receipts, pc, target>> /\ IsFiniteSet(receipts')
          /\ hook[d] = "claiming" /\ hook' = [hook EXCEPT ![d] = "reading"]
          /\ status' = [status EXCEPT ![Subject(d)] = "PAID"]
      BY <1>9, <2>2 DEF Claim, RecordPayment, BudgetInv
    <3>. SUFFICES ASSUME NEW r \in Requests PROVE Budget(r)'
      BY <3>1 DEF BudgetInv
    <3>2. Receipted(r)' = Receipted(r) /\ FailedCheckouts(r)' = FailedCheckouts(r)
      BY <3>1 DEF Receipted, FailedCheckouts, Subject
    <3>3. CASE Subject(d) = r
      <4>1. Receipting(r)' = Receipting(r) \cup {d} /\ d \notin Receipting(r)
        BY <3>1, <3>3, <1>a DEF Receipting, Subject
      <4>2. Cardinality(Receipting(r)') = Cardinality(Receipting(r)) + 1
        BY <4>1, FiniteCounts, FS_AddElement DEF BudgetInv
      <4>3. status[r] # "PAID" /\ status'[r] = "PAID"
        BY <2>2, <3>1, <3>3
      <4>. QED
        BY <3>2, <4>2, <4>3, FiniteCounts DEF BudgetInv, Budget, Due
    <3>4. CASE Subject(d) # r
      <4>1. Receipting(r)' = Receipting(r) /\ status'[r] = status[r]
        BY <3>1, <3>4 DEF Receipting, Subject
      <4>. QED
        BY <3>2, <4>1 DEF BudgetInv, Budget, Due
    <3>. QED
      BY <3>3, <3>4
  <2>. QED
    BY <2>1, <2>2
<1>10. ASSUME NEW d \in Deliveries, ClaimFails(d) PROVE BudgetInv'
  BY <1>1, <1>10 DEF ClaimFails, RecordPayment
<1>11. ASSUME NEW d \in Deliveries, SendReceipt(d) PROVE BudgetInv'
  <2>. DEFINE x == [delivery |-> d, shows |-> payment[Subject(d)]]
  <2>1. /\ UNCHANGED <<status, pc, target>>
        /\ hook[d] = "reading" /\ hook' = [hook EXCEPT ![d] = "done"]
        /\ receipts' = receipts \cup {x}
    BY <1>11 DEF SendReceipt
  <2>2. IsFiniteSet(receipts')
    BY <2>1, FS_AddElement DEF BudgetInv
  <2>. SUFFICES ASSUME NEW r \in Requests PROVE Budget(r)'
    BY <2>2 DEF BudgetInv
  <2>3. FailedCheckouts(r)' = FailedCheckouts(r)
    BY <2>1 DEF FailedCheckouts
  <2>4. CASE Subject(d) = r
    <3>1. Receipted(r)' = Receipted(r) \cup {x}
      BY <2>1, <2>4 DEF Receipted, Subject
    <3>2. Receipting(r)' = Receipting(r) \ {d} /\ d \in Receipting(r)
      BY <2>1, <2>4 DEF Receipting, Subject
    <3>3. Cardinality(Receipted(r)') <= Cardinality(Receipted(r)) + 1
      <4>1. IsFiniteSet(Receipted(r))
        BY FiniteCounts DEF BudgetInv
      <4>2. Cardinality(Receipted(r) \cup {x}) <= Cardinality(Receipted(r)) + 1
        BY <4>1, OneMore
      <4>. QED
        BY <3>1, <4>2
    <3>4. Cardinality(Receipting(r)') = Cardinality(Receipting(r)) - 1
      BY <3>2, FiniteCounts, FS_RemoveElement DEF BudgetInv
    <3>. QED
      <4>1. status'[r] = status[r] /\ Budget(r)
        BY <2>1 DEF BudgetInv
      <4>. QED
        BY <4>1, <2>2, <2>3, <3>3, <3>4, FiniteCounts, FiniteCountsNext DEF BudgetInv, Budget, Due
  <2>5. CASE Subject(d) # r
    <3>1. Receipted(r)' = Receipted(r) /\ Receipting(r)' = Receipting(r)
      BY <2>1, <2>5 DEF Receipted, Receipting, Subject
    <3>. QED
      BY <2>1, <2>3, <3>1 DEF BudgetInv, Budget, Due
  <2>. QED
    BY <2>4, <2>5
<1>12. CASE Crash
  BY <1>1, <1>12 DEF Crash
<1>13. CASE UNCHANGED vars
  BY <1>1, <1>13 DEF vars
<1>. QED
  BY <1>2, <1>3, <1>4, <1>5, <1>6, <1>7, <1>8, <1>9, <1>10, <1>11, <1>12, <1>13
  DEF Next, CheckoutProgress, HookProgress, HookFailure

(* A request gets at most one receipt more than it has failed checkouts,   *)
(* however many sessions, copies and crashes there are.                    *)
THEOREM FewReceipts == Spec => []ReceiptsBounded
<1>1. Init => BudgetInv
  <2>1. SUFFICES ASSUME Init, NEW r \in Requests PROVE IsFiniteSet(receipts) /\ Budget(r)
    BY FS_EmptySet DEF BudgetInv, Init
  <2>2. IsFiniteSet(receipts) /\ Receipted(r) = {} /\ Receipting(r) = {}
    BY <2>1, FS_EmptySet DEF Init, Receipted, Receipting
  <2>. QED
    BY <2>1, <2>2, FiniteCounts, FS_EmptySet DEF Budget, Due, Init
<1>2. BudgetInv => ReceiptsBounded
  BY FiniteCounts DEF BudgetInv, Budget, Due, ReceiptsBounded
<1>. QED
  BY <1>1, <1>2, Inductive, BudgetStep, PTL DEF Spec

----------------------------------------------------------------------------
(* Refinement of PaymentLedger.                                            *)
LedgerStep == [Ledger!Next]_<<Money, Paid, ReceiptsDue, ReceiptsSent, CheckoutsFailed>>

(* Notices that have been delivered are about the same request for ever.   *)
LEMMA SubjectStays ==
  ASSUME IInv, [Next]_vars, NEW d \in Deliveries, hook[d] # "idle"
  PROVE  Subject(d) \in Requests /\ Subject(d)' = Subject(d)
BY SubjectKnown, SessionMoves DEF Subject, IInv, HookInv

(* What is due changes with the handlers that are about to send, and what  *)
(* was sent with the receipts.                                             *)
LEMMA DueStays ==
  ASSUME IInv, [Next]_vars, \A d \in Deliveries : hook'[d] = "reading" <=> hook[d] = "reading"
  PROVE  ReceiptsDue' = ReceiptsDue
<1>1. \A d \in Deliveries : hook[d] = "reading" => Subject(d)' = Subject(d)
  BY SubjectStays
<1>. QED
  BY <1>1 DEF ReceiptsDue

LEMMA DueShrinks ==
  ASSUME IInv, [Next]_vars, \A d \in Deliveries : hook'[d] = "reading" => hook[d] = "reading"
  PROVE  ReceiptsDue' \subseteq ReceiptsDue
<1>1. \A d \in Deliveries : hook[d] = "reading" => Subject(d)' = Subject(d)
  BY SubjectStays
<1>. QED
  BY <1>1 DEF ReceiptsDue

LEMMA SentStays ==
  ASSUME IInv, [Next]_vars, receipts' = receipts
  PROVE  ReceiptsSent' = ReceiptsSent
<1>1. \A x \in receipts : x.delivery \in Deliveries /\ hook[x.delivery] # "idle"
  BY DEF IInv, TypeOK, PaymentInv
<1>2. \A x \in receipts : Subject(x.delivery)' = Subject(x.delivery)
  BY <1>1, SubjectStays
<1>. QED
  BY <1>2 DEF ReceiptsSent

(* The accounts of a step in which nobody fails or pays.                   *)
LEMMA FailedStays ==
  ASSUME \A k \in Checkouts : pc'[k] = "error" <=> pc[k] = "error",
         \A k \in Checkouts : pc[k] = "error" => target'[k] = target[k]
  PROVE  CheckoutsFailed' = CheckoutsFailed
BY DEF CheckoutsFailed

LEMMA MoneyStays ==
  ASSUME \A k \in Checkouts : session'[k] = "paid" <=> session[k] = "paid",
         \A k \in Checkouts : session[k] = "paid" => target'[k] = target[k]
  PROVE  Money' = Money
BY DEF Money

LEMMA PaidStays ==
  ASSUME \A r \in Requests : status'[r] = "PAID" <=> status[r] = "PAID"
  PROVE  Paid' = Paid
BY DEF Paid

(* Intake and the opening of sessions leave the ledger alone.              *)
LEMMA IntakeLedger ==
  ASSUME IInv, [Next]_vars, NEW r \in Requests,
         Capture(r) \/ CaptureFails(r) \/ IntakeProgress(r) \/ RecordLeadFails(r)
  PROVE  LedgerStep
<1>1. UNCHANGED <<pc, target, session, hook, receipts>>
  BY DEF Capture, CaptureFails, IntakeProgress, RecordLead, RecordLeadFails, Alert, pay, webhook
<1>2. \A q \in Requests : status'[q] = "PAID" <=> status[q] = "PAID"
  BY DEF Capture, CaptureFails, IntakeProgress, RecordLead, RecordLeadFails, Alert, rows,
         SetStatus, IInv, TypeOK, CheckoutInv
<1>. QED
  BY <1>1, <1>2, DueStays, SentStays, FailedStays, MoneyStays, PaidStays DEF LedgerStep

LEMMA OpeningLedger ==
  ASSUME IInv, [Next]_vars, NEW k \in Checkouts,
         \/ \E r \in Requests : Checkout(k, r)
         \/ OpenSession(k) \/ StoreSession(k) \/ OpenSessionFails(k) \/ StoreSessionFails(k)
         \/ Settle(k) \/ Expire(k)
  PROVE  LedgerStep
<1>. USE DEF Checkout, OpenSession, StoreSession, OpenSessionFails, StoreSessionFails, Settle,
             Expire, Goto, rows, pay, webhook, intake
<1>1. UNCHANGED <<status, hook, receipts>>
  OBVIOUS
<1>2. \A j \in Checkouts : /\ pc'[j] = "error" <=> pc[j] = "error"
                           /\ pc[j] = "error" => target'[j] = target[j]
  BY DEF IInv, TypeOK
<1>3. \A j \in Checkouts : /\ session'[j] = "paid" <=> session[j] = "paid"
                           /\ session[j] = "paid" => target'[j] = target[j]
  BY DEF IInv, TypeOK, CheckoutInv
<1>. QED
  BY <1>1, <1>2, <1>3, DueStays, SentStays, FailedStays, MoneyStays, PaidStays DEF LedgerStep

(* Stripe is paid.                                                         *)
LEMMA PayLedger ==
  ASSUME IInv, [Next]_vars, NEW k \in Checkouts, Pay(k)
  PROVE  LedgerStep
<1>1. UNCHANGED <<status, pc, target, hook, receipts>>
  BY DEF Pay, rows, webhook
<1>2. target[k] \in Requests
  BY DEF Pay, IInv, TypeOK, CheckoutInv
<1>3. UNCHANGED <<Paid, ReceiptsDue, ReceiptsSent, CheckoutsFailed>>
  BY <1>1, DueStays, SentStays, FailedStays, PaidStays
<1>4. CASE session'[k] = "paid"
  <2>1. Money' = Money \cup {target[k]}
    BY <1>1, <1>2, <1>4 DEF Pay, Money, IInv, TypeOK
  <2>. QED
    BY <1>2, <1>3, <2>1 DEF LedgerStep, Ledger!Next, Ledger!Receive
<1>5. CASE session'[k] # "paid"
  <2>1. Money' = Money
    BY <1>1, <1>5 DEF Pay, Money, IInv, TypeOK
  <2>. QED
    BY <1>3, <2>1 DEF LedgerStep
<1>. QED
  BY <1>4, <1>5

(* A checkout fails, and takes away the record of the payment if it can.   *)
LEMMA FailLedger ==
  ASSUME IInv, [Next]_vars, NEW k \in Checkouts, MarkFailed(k) \/ MarkFailedFails(k)
  PROVE  LedgerStep
<1>. DEFINE r == target[k]
<1>1. UNCHANGED <<target, session, hook, receipts>> /\ pc[k] = "failing"
      /\ pc' = [pc EXCEPT ![k] = "error"]
  BY DEF MarkFailed, MarkFailedFails, Goto, webhook
<1>2. r \in Requests
  BY <1>1 DEF IInv, TypeOK, CheckoutInv
<1>3. UNCHANGED <<Money, ReceiptsDue, ReceiptsSent>>
  BY <1>1, DueStays, SentStays, MoneyStays
<1>4. CheckoutsFailed' = CheckoutsFailed \cup {<<r, k>>}
  BY <1>1 DEF CheckoutsFailed, IInv, TypeOK
<1>5. \A q \in Requests : <<q, k>> \notin CheckoutsFailed
  BY <1>1 DEF CheckoutsFailed
<1>6. Paid' = Paid \/ Paid' = Paid \ {r}
  BY <1>2 DEF MarkFailed, MarkFailedFails, SetStatus, rows, Paid, IInv, TypeOK
<1>7. Ledger!Fail(r, k)
  BY <1>3, <1>4, <1>5, <1>6 DEF Ledger!Fail
<1>. QED
  BY <1>2, <1>7 DEF LedgerStep, Ledger!Next

(* A notice is claimed: the record, with its receipt or without.           *)
LEMMA ClaimLedger ==
  ASSUME IInv, [Next]_vars, NEW d \in Deliveries, Claim(d) \/ ClaimFails(d)
  PROVE  LedgerStep
<1>. DEFINE r == Subject(d)
<1>1. UNCHANGED <<pc, target, session, receipts>> /\ hook[d] = "claiming"
      /\ \A e \in Deliveries : e # d => hook'[e] = hook[e]
  BY DEF Claim, ClaimFails, HookGoto, pay, IInv, TypeOK
<1>2. r \in Requests /\ d[1] \in Checkouts /\ target[d[1]] = r /\ session[d[1]] = "paid"
  BY <1>1, SubjectKnown DEF Subject, IInv, HookInv
<1>3. UNCHANGED <<Money, ReceiptsSent, CheckoutsFailed>>
  BY <1>1, SentStays, FailedStays, MoneyStays
<1>4. CASE UNCHANGED status
  <2>1. \A e \in Deliveries : hook'[e] = "reading" <=> hook[e] = "reading"
    BY <1>1, <1>2, <1>4 DEF Claim, ClaimFails, RecordPayment, SetStatus, HookGoto, IInv, TypeOK
  <2>. QED
    BY <1>3, <1>4, <2>1, DueStays, PaidStays DEF LedgerStep
<1>5. CASE ~UNCHANGED status
  <2>1. status[r] # "PAID" /\ status' = [status EXCEPT ![r] = "PAID"]
    BY <1>5 DEF Claim, ClaimFails, RecordPayment, SetStatus
  <2>2. r \in Money \ Paid /\ Paid' = Paid \cup {r}
    BY <1>2, <2>1 DEF Money, Paid, IInv, TypeOK
  <2>3. \A q \in Requests : <<q, d>> \notin ReceiptsDue \cup ReceiptsSent
    BY <1>1 DEF ReceiptsDue, ReceiptsSent, IInv, PaymentInv
  <2>4. ReceiptsDue' = ReceiptsDue \cup {<<r, d>>} \/ ReceiptsDue' = ReceiptsDue
    <3>1. Subject(d)' = Subject(d)
          /\ \A e \in Deliveries : hook[e] = "reading" => Subject(e)' = Subject(e)
      BY <1>1, SubjectStays
    <3>. QED
      BY <1>1, <3>1 DEF ReceiptsDue
  <2>5. Ledger!Record(r, d)
    BY <1>3, <2>2, <2>3, <2>4 DEF Ledger!Record
  <2>. QED
    BY <1>2, <2>5 DEF LedgerStep, Ledger!Next
<1>. QED
  BY <1>4, <1>5

LEMMA SendLedger ==
  ASSUME IInv, [Next]_vars, NEW d \in Deliveries, SendReceipt(d)
  PROVE  LedgerStep
<1>. DEFINE r == Subject(d)
<1>1. UNCHANGED <<status, pc, target, session>> /\ hook[d] = "reading"
      /\ hook' = [hook EXCEPT ![d] = "done"]
      /\ receipts' = receipts \cup {[delivery |-> d, shows |-> payment[r]]}
  BY DEF SendReceipt, HookGoto, pay, rows
<1>2. r \in Requests
  BY <1>1, SubjectKnown
<1>3. UNCHANGED <<Money, Paid, CheckoutsFailed>>
  BY <1>1, FailedStays, MoneyStays, PaidStays
<1>4. \A e \in Deliveries : Subject(e)' = Subject(e)
  BY <1>1 DEF Subject
<1>5. <<r, d>> \in ReceiptsDue /\ ReceiptsDue' = ReceiptsDue \ {<<r, d>>}
  BY <1>1, <1>4 DEF ReceiptsDue, IInv, TypeOK
<1>6. ReceiptsSent' = ReceiptsSent \cup {<<r, d>>}
  <2>. DEFINE new == [delivery |-> d, shows |-> payment[r]]
  <2>1. \A x \in receipts' : Subject(x.delivery)' = Subject(x.delivery)
    BY <1>1 DEF Subject
  <2>2. receipts' = receipts \cup {new} /\ new.delivery = d
    BY <1>1
  <2>. HIDE DEF new
  <2>3. ReceiptsSent' = {<<Subject(x.delivery), x.delivery>> : x \in receipts'}
    BY <2>1 DEF ReceiptsSent
  <2>. QED
    BY <2>2, <2>3 DEF ReceiptsSent
<1>7. Ledger!Send(r, d)
  BY <1>3, <1>5, <1>6 DEF Ledger!Send
<1>. QED
  BY <1>2, <1>7 DEF LedgerStep, Ledger!Next

(* What the other steps leave of the receipts due.                         *)
LEMMA LoseLedger ==
  ASSUME IInv, [Next]_vars,
         \/ \E d \in Deliveries : Deliver(d) \/ CancelRow(d) \/ CancelRowFails(d) \/ SendReceiptFails(d)
         \/ Crash
  PROVE  LedgerStep
<1>. USE DEF Deliver, CancelRow, CancelRowFails, SendReceiptFails, Crash, HookGoto, rows, pay
<1>1. receipts' = receipts /\ target' = target
  OBVIOUS
<1>2. \A d \in Deliveries : hook'[d] = "reading" => hook[d] = "reading"
  BY DEF IInv, TypeOK
<1>3. \A r \in Requests : status'[r] = "PAID" <=> status[r] = "PAID"
  BY DEF SetStatus, IInv, TypeOK
<1>4. \A k \in Checkouts : /\ pc'[k] = "error" <=> pc[k] = "error"
                           /\ session'[k] = "paid" <=> session[k] = "paid"
  <2>1. CASE Crash
    <3>1. PICK lost \in SUBSET {k \in Checkouts : pc[k] = "creating"} :
            session' = [k \in Checkouts |-> IF k \in lost THEN "open" ELSE session[k]]
      BY <2>1
    <3>2. \A k \in lost : session[k] = "none"
      BY DEF IInv, CheckoutInv
    <3>3. \A k \in Checkouts : session'[k] = "paid" <=> session[k] = "paid"
      BY <3>1, <3>2
    <3>. QED
      BY <2>1, <3>3
  <2>2. CASE ~Crash
    <3>1. UNCHANGED <<pc, session>>
      BY <2>2
    <3>. QED
      BY <3>1
  <2>. QED
    BY <2>1, <2>2
<1>5. UNCHANGED <<Money, Paid, ReceiptsSent, CheckoutsFailed>>
  BY <1>1, <1>3, <1>4, SentStays, FailedStays, MoneyStays, PaidStays
<1>6. ReceiptsDue' \subseteq ReceiptsDue
  BY <1>2, DueShrinks
<1>. QED
  BY <1>5, <1>6 DEF LedgerStep, Ledger!Next, Ledger!Lose

(* The handlers, Stripe and the failures implement the ledger: money comes *)
(* before the record, the record before the receipt, and a second record   *)
(* after a failed checkout only (emergency.routes.ts:153-161, 247-261).    *)
THEOREM LedgerKept == Spec => KeepsLedger
<1>1. Init => Ledger!Init
  BY DEF Init, Ledger!Init, Money, Paid, ReceiptsDue, ReceiptsSent, CheckoutsFailed
<1>2. IInv /\ [Next]_vars => LedgerStep
  <2>. SUFFICES ASSUME IInv, [Next]_vars PROVE LedgerStep
    OBVIOUS
  <2>1. CASE UNCHANGED vars
    BY <2>1, DueStays, SentStays, FailedStays, MoneyStays, PaidStays
    DEF LedgerStep, vars, rows, pay, webhook
  <2>. QED
    BY <2>1, IntakeLedger, OpeningLedger, PayLedger, FailLedger, ClaimLedger, SendLedger, LoseLedger
    DEF Next, CheckoutProgress, CheckoutFailure, HookProgress, HookFailure
<1>. QED
  BY <1>1, <1>2, Inductive, PTL DEF Spec, KeepsLedger, Ledger!Spec, LedgerStep
=============================================================================
