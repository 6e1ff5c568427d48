---------------------------- MODULE IntakeProofs ----------------------------
(***************************************************************************)
(* Proofs about Intake for any number of forms, submissions and failures.  *)
(* IInv says of each attempt what its handler has done by the step where   *)
(* it stands, and of each form which tokens it may have sent; the four     *)
(* properties of the module follow from it.                                *)
(***************************************************************************)
EXTENDS Intake, TLAPS

(* What an attempt has behind it where it stands.                          *)
OrderAt(a) ==
  /\ pc[a] = "idle" <=> a[2] > try[a[1]]
  /\ pc[a] = "looking" => Kind(a) = "health"
  /\ pc[a] \in {"issuing", "mailing", "stamping"} => a \in rows
  /\ pc[a] = "mailing" /\ Kind(a) = "health" => a \in grants
  /\ a \in rows => pc[a] \in {"issuing", "mailing", "stamping", "done", "failed", "crashed"}
  /\ pc[a] \in {"vanished", "crashed"} => faults > 0

(* What an answer says is so.                                              *)
AnswerAt(a) ==
  /\ pc[a] \in {"idle", "arriving", "looking", "creating", "issuing"} => answer[a] = "none"
  /\ answer[a] = "ok" =>
       \/ Visit(a) \in trapped
       \/ a \in rows /\ (Kind(a) = "health" => a \in grants)
  /\ answer[a] = "error" => pc[a] = "refused" \/ (pc[a] = "failed" /\ faults > 0)

MailAt(a) ==
  /\ pc[a] = "stamping" /\ a \notin announced => faults > 0
  /\ pc[a] = "done" /\ a \in rows /\ a \notin announced => faults > 0
  /\ a \in stamped => a \in announced

(* Rows that were there at submission are there at the search, and it      *)
(* finds them.                                                             *)
RepeatAt(a) ==
  /\ before[a] \subseteq rows
  /\ (a \in rows \/ pc[a] = "creating") /\ Kind(a) = "health"
       /\ Claims(Visit(a), before[a]) # {} => a \in prior

AttemptInv ==
  \A a \in Attempts : OrderAt(a) /\ AnswerAt(a) /\ MailAt(a) /\ RepeatAt(a)

(* A form that asks for a new token after each error it shows.             *)
Renewing(v) ==
  \/ kind[v] = "oncall"
  \/ kind[v] \in {"plan", "health"} /\ faults = 0

FormAt(v) ==
  /\ form[v] = "submitting" => try[v] > 0 /\ token[v] <= try[v]
  /\ form[v] = "success" => try[v] > 0 /\ answer[<<v, try[v]>>] = "ok"
  /\ token[v] \in 1..(try[v] + 1)

(* Tokens that were sent are no newer than the one the form has, and older *)
(* while a form that renews waits for its visitor.                         *)
TokenAt(v) ==
  /\ \A n \in 1..MaxTries : sent[<<v, n>>] <= token[v]
  /\ \A t \in Tokens : <<v, t>> \in spent => t <= token[v]
  /\ form[v] \in {"idle", "error"} /\ Renewing(v) =>
       /\ \A n \in 1..MaxTries : sent[<<v, n>>] < token[v]
       /\ \A t \in Tokens : <<v, t>> \in spent => t < token[v]

FormInv == \A v \in Visits : FormAt(v) /\ TokenAt(v)

IInv == TypeOK /\ AttemptInv /\ FormInv

----------------------------------------------------------------------------
LEMMA CurrentIsAttempt ==
  ASSUME TypeOK, NEW v \in Visits, try[v] > 0
  PROVE  <<v, try[v]>> \in Attempts
BY BoundsAssumption DEF TypeOK, Attempts

LEMMA NextIsAttempt ==
  ASSUME TypeOK, NEW v \in Visits, try[v] < MaxTries
  PROVE  <<v, try[v] + 1>> \in Attempts /\ try[v] + 1 \in 0..MaxTries
BY BoundsAssumption DEF TypeOK, Attempts

LEMMA AttemptParts ==
  ASSUME NEW a \in Attempts
  PROVE  /\ Visit(a) \in Visits /\ a[2] \in 1..MaxTries /\ a = <<a[1], a[2]>>
         /\ Visit(a) = a[1]
BY DEF Attempts, Visit

LEMMA ClaimsGrow ==
  ASSUME NEW v, NEW S, NEW T, S \subseteq T, Claims(v, S) # {}
  PROVE  Claims(v, T) # {}
BY DEF Claims

LEMMA InitIInv == Init => IInv
<1> SUFFICES ASSUME Init PROVE IInv
  OBVIOUS
<1>1. TypeOK
  BY BoundsAssumption DEF Init, TypeOK, Tokens, Steps, Attempts
<1>2. AttemptInv
  <2> SUFFICES ASSUME NEW a \in Attempts
               PROVE  OrderAt(a) /\ AnswerAt(a) /\ MailAt(a) /\ RepeatAt(a)
    BY DEF AttemptInv
  <2>1. a[1] \in Visits /\ a[2] \in 1..MaxTries
    BY AttemptParts DEF Visit
  <2> QED
    BY <2>1, BoundsAssumption DEF Init, OrderAt, AnswerAt, MailAt, RepeatAt
<1>3. FormInv
  <2> SUFFICES ASSUME NEW v \in Visits PROVE FormAt(v) /\ TokenAt(v)
    BY DEF FormInv
  <2>1. \A n \in 1..MaxTries : <<v, n>> \in Attempts
    BY DEF Attempts
  <2> QED
    BY <2>1, BoundsAssumption DEF Init, FormAt, TokenAt, Tokens
<1> QED BY <1>1, <1>2, <1>3 DEF IInv

LEMMA TypeStep ==
  ASSUME TypeOK, FormInv, [Next]_vars
  PROVE  TypeOK'
<1> USE BoundsAssumption
<1> USE DEF TypeOK, Steps, Tokens, Goto, Reply, Fault, config, page, server, Kind
<1>1. ASSUME NEW v \in Visits, Submit(v) PROVE TypeOK'
  <2> DEFINE a == <<v, try[v] + 1>>
  <2>1. a \in Attempts /\ try[v] + 1 \in 0..MaxTries
    BY <1>1, NextIsAttempt DEF Submit
  <2>2. PICK t \in {0, token[v]} : sent' = [sent EXCEPT ![a] = t]
    BY <1>1 DEF Submit
  <2>3. pc' = [pc EXCEPT ![a] = "arriving"] /\ before' = [before EXCEPT ![a] = rows]
    BY <1>1 DEF Submit
  <2> HIDE DEF a
  <2>4. sent' \in [Attempts -> 0..(MaxTries + 1)]
    BY <2>1, <2>2
  <2>5. pc' \in [Attempts -> Steps]
    BY <2>1, <2>3
  <2>6. before' \in [Attempts -> SUBSET Attempts]
    BY <2>1, <2>3
  <2> QED BY <1>1, <2>1, <2>4, <2>5, <2>6 DEF Submit
<1>2. ASSUME NEW v \in Visits, ShowSuccess(v) PROVE TypeOK'
  BY <1>2 DEF ShowSuccess, Current
<1>3. ASSUME NEW v \in Visits, ShowRefusal(v) \/ ShowNoAnswer(v) PROVE TypeOK'
  <2>1. form[v] = "submitting" => token[v] <= try[v]
    BY DEF FormInv, FormAt
  <2>2. try[v] \in 0..MaxTries /\ token[v] \in 0..(MaxTries + 1)
    OBVIOUS
  <2>3. form[v] = "submitting" => token[v] + 1 \in 0..(MaxTries + 1)
    BY <2>1, <2>2
  <2>4. token' \in [Visits -> 0..(MaxTries + 1)]
    BY <1>3, <2>3 DEF ShowRefusal, ShowNoAnswer, ShowError
  <2>5. CASE ShowRefusal(v)
    BY <2>4, <2>5 DEF ShowRefusal, ShowError
  <2>6. CASE ShowNoAnswer(v)
    <3>1. ShowError(v, FALSE) /\ (Fault \/ UNCHANGED faults)
      BY <2>6 DEF ShowNoAnswer
    <3>2. faults' \in 0..MaxFaults
      BY <3>1
    <3> QED BY <2>4, <3>1, <3>2 DEF ShowError
  <2> QED BY <1>3, <2>5, <2>6
<1>4. ASSUME NEW a \in Attempts, Limit(a) \/ Trap(a) \/ Invalid(a) PROVE TypeOK'
  BY <1>4 DEF Limit, Trap, Invalid, Refuse
<1>5. ASSUME NEW a \in Attempts, Verify(a) \/ VerifyFails(a) PROVE TypeOK'
  <2>1. <<Visit(a), sent[a]>> \in Visits \X (0..(MaxTries + 1))
    BY AttemptParts
  <2>2. spent' \subseteq Visits \X (0..(MaxTries + 1))
    BY <1>5, <2>1 DEF Verify, VerifyFails
  <2> QED BY <1>5, <2>2 DEF Verify, VerifyFails, Admit, Refuse
<1>6. ASSUME NEW a \in Attempts, Look(a) \/ Vanish(a) PROVE TypeOK'
  BY <1>6 DEF Look, Vanish
<1>7. ASSUME NEW a \in Attempts, Create(a) \/ CreateFails(a) PROVE TypeOK'
  BY <1>7 DEF Create, CreateFails
<1>8. ASSUME NEW a \in Attempts, Issue(a) \/ IssueFails(a) PROVE TypeOK'
  BY <1>8 DEF Issue, IssueFails
<1>9. ASSUME NEW a \in Attempts, Mail(a) \/ MailFails(a) PROVE TypeOK'
  BY <1>9 DEF Mail, MailFails, AfterMail
<1>10. ASSUME NEW a \in Attempts, Stamp(a) \/ StampFails(a) PROVE TypeOK'
  BY <1>10 DEF Stamp, StampFails
<1>11. CASE Crash
  BY <1>11 DEF Crash, Running
<1>12. CASE UNCHANGED vars
  BY <1>12 DEF vars
<1> QED
  BY <1>1, <1>2, <1>3, <1>4, <1>5, <1>6, <1>7, <1>8, <1>9, <1>10, <1>11, <1>12
  DEF Next, PageStep, HandlerStep, HandlerFailure

LEMMA OrderStep ==
  ASSUME IInv, [Next]_vars, NEW x \in Attempts
  PROVE  OrderAt(x)'
<1> TypeOK /\ OrderAt(x) /\ x[1] \in Visits /\ x[2] \in 1..MaxTries
  BY AttemptParts DEF IInv, AttemptInv, Visit
<1> USE BoundsAssumption
<1> USE DEF TypeOK, OrderAt, Steps, Goto, Reply, Fault, config, page, server, Kind
<1>1. ASSUME NEW v \in Visits, Submit(v) PROVE OrderAt(x)'
  <2> DEFINE a == <<v, try[v] + 1>>
  <2>1. pc' = [pc EXCEPT ![a] = "arriving"] /\ try' = [try EXCEPT ![v] = @ + 1]
    BY <1>1 DEF Submit
  <2>2. CASE x = a
    <3>1. a[2] = try[v] + 1 /\ a[1] = v
      OBVIOUS
    <3>2. pc[x] = "idle"
      BY <2>2, <3>1
    <3>3. pc'[x] = "arriving" /\ try'[v] = try[v] + 1
      BY <2>1, <2>2
    <3> QED BY <1>1, <2>2, <3>1, <3>2, <3>3 DEF Submit
  <2>3. CASE x # a
    <3>1. x[1] = v => x[2] # try[v] + 1
      BY <2>3, AttemptParts
    <3>2. pc'[x] = pc[x]
      BY <2>1, <2>3
    <3>3. pc'[x] = "idle" <=> x[2] > try'[x[1]]
      <4>1. pc[x] = "idle" <=> x[2] > try[x[1]]
        OBVIOUS
      <4>2. x[2] \in Nat /\ try[v] \in Nat /\ try'[v] = try[v] + 1
        BY <2>1
      <4>3. CASE x[1] = v
        <5>1. x[2] > try[v] <=> x[2] > try[v] + 1
          BY <3>1, <4>2, <4>3
        <5> QED BY <3>2, <4>1, <4>2, <4>3, <5>1
      <4>4. CASE x[1] # v
        <5>1. try'[x[1]] = try[x[1]]
          BY <2>1, <4>4
        <5> QED BY <3>2, <4>1, <5>1
      <4> QED BY <4>3, <4>4
    <3> QED BY <1>1, <3>2, <3>3 DEF Submit
  <2> QED BY <2>2, <2>3
<1>2. ASSUME NEW v \in Visits, ShowSuccess(v) PROVE OrderAt(x)'
  BY <1>2 DEF ShowSuccess, Current
<1>3. ASSUME NEW v \in Visits, ShowRefusal(v) \/ ShowNoAnswer(v) PROVE OrderAt(x)'
  BY <1>3 DEF ShowRefusal, ShowNoAnswer, ShowError, Renews, Current
<1>4. ASSUME NEW a \in Attempts, Limit(a) \/ Trap(a) \/ Invalid(a) PROVE OrderAt(x)'
  BY <1>4 DEF Limit, Trap, Invalid, Refuse
<1>5. ASSUME NEW a \in Attempts, Verify(a) \/ VerifyFails(a) PROVE OrderAt(x)'
  BY <1>5 DEF Verify, VerifyFails, Admit, Refuse
<1>6. ASSUME NEW a \in Attempts, Look(a) \/ Vanish(a) PROVE OrderAt(x)'
  BY <1>6 DEF Look, Vanish
<1>7. ASSUME NEW a \in Attempts, Create(a) \/ CreateFails(a) PROVE OrderAt(x)'
  BY <1>7 DEF Create, CreateFails
<1>8. ASSUME NEW a \in Attempts, Issue(a) \/ IssueFails(a) PROVE OrderAt(x)'
  BY <1>8 DEF Issue, IssueFails
<1>9. ASSUME NEW a \in Attempts, Mail(a) \/ MailFails(a) PROVE OrderAt(x)'
  BY <1>9 DEF Mail, MailFails, AfterMail
<1>10. ASSUME NEW a \in Attempts, Stamp(a) \/ StampFails(a) PROVE OrderAt(x)'
  BY <1>10 DEF Stamp, StampFails
<1>11. CASE Crash
  BY <1>11 DEF Crash, Running
<1>12. CASE UNCHANGED vars
  BY <1>12 DEF vars
<1> QED
  BY <1>1, <1>2, <1>3, <1>4, <1>5, <1>6, <1>7, <1>8, <1>9, <1>10, <1>11, <1>12
  DEF Next, PageStep, HandlerStep, HandlerFailure

LEMMA AnswerStep ==
  ASSUME IInv, [Next]_vars, NEW x \in Attempts
  PROVE  AnswerAt(x)'
<1> TypeOK /\ OrderAt(x) /\ AnswerAt(x)
  BY DEF IInv, AttemptInv
<1> USE BoundsAssumption
<1> USE DEF TypeOK, OrderAt, AnswerAt, Steps, Goto, Reply, Fault, config, page, server, Kind
<1>1. ASSUME NEW v \in Visits, Submit(v) PROVE AnswerAt(x)'
  BY <1>1 DEF Submit, Current
<1>2. ASSUME NEW v \in Visits, ShowSuccess(v) PROVE AnswerAt(x)'
  BY <1>2 DEF ShowSuccess, Current
<1>3. ASSUME NEW v \in Visits, ShowRefusal(v) \/ ShowNoAnswer(v) PROVE AnswerAt(x)'
  BY <1>3 DEF ShowRefusal, ShowNoAnswer, ShowError, Renews, Current
<1>4. ASSUME NEW a \in Attempts, Limit(a) \/ Trap(a) \/ Invalid(a) PROVE AnswerAt(x)'
  BY <1>4 DEF Limit, Trap, Invalid, Refuse
<1>5. ASSUME NEW a \in Attempts, Verify(a) \/ VerifyFails(a) PROVE AnswerAt(x)'
  BY <1>5 DEF Verify, VerifyFails, Admit, Refuse
<1>6. ASSUME NEW a \in Attempts, Look(a) \/ Vanish(a) PROVE AnswerAt(x)'
  BY <1>6 DEF Look, Vanish
<1>7. ASSUME NEW a \in Attempts, Create(a) \/ CreateFails(a) PROVE AnswerAt(x)'
  BY <1>7 DEF Create, CreateFails
<1>8. ASSUME NEW a \in Attempts, Issue(a) \/ IssueFails(a) PROVE AnswerAt(x)'
  BY <1>8 DEF Issue, IssueFails
<1>9. ASSUME NEW a \in Attempts, Mail(a) \/ MailFails(a) PROVE AnswerAt(x)'
  BY <1>9 DEF Mail, MailFails, AfterMail
<1>10. ASSUME NEW a \in Attempts, Stamp(a) \/ StampFails(a) PROVE AnswerAt(x)'
  BY <1>10 DEF Stamp, StampFails
<1>11. CASE Crash
  BY <1>11 DEF Crash, Running
<1>12. CASE UNCHANGED vars
  BY <1>12 DEF vars
<1> QED
  BY <1>1, <1>2, <1>3, <1>4, <1>5, <1>6, <1>7, <1>8, <1>9, <1>10, <1>11, <1>12
  DEF Next, PageStep, HandlerStep, HandlerFailure

LEMMA MailStep ==
  ASSUME IInv, [Next]_vars, NEW x \in Attempts
  PROVE  MailAt(x)'
<1> TypeOK /\ OrderAt(x) /\ MailAt(x)
  BY DEF IInv, AttemptInv
<1> USE BoundsAssumption
<1> USE DEF TypeOK, OrderAt, MailAt, Steps, Goto, Reply, Fault, config, page, server, Kind
<1>1. ASSUME NEW v \in Visits, Submit(v) PROVE MailAt(x)'
  BY <1>1 DEF Submit, Current
<1>2. ASSUME NEW v \in Visits, ShowSuccess(v) PROVE MailAt(x)'
  BY <1>2 DEF ShowSuccess, Current
<1>3. ASSUME NEW v \in Visits, ShowRefusal(v) \/ ShowNoAnswer(v) PROVE MailAt(x)'
  BY <1>3 DEF ShowRefusal, ShowNoAnswer, ShowError, Renews, Current
<1>4. ASSUME NEW a \in Attempts, Limit(a) \/ Trap(a) \/ Invalid(a) PROVE MailAt(x)'
  BY <1>4 DEF Limit, Trap, Invalid, Refuse
<1>5. ASSUME NEW a \in Attempts, Verify(a) \/ VerifyFails(a) PROVE MailAt(x)'
  BY <1>5 DEF Verify, VerifyFails, Admit, Refuse
<1>6. ASSUME NEW a \in Attempts, Look(a) \/ Vanish(a) PROVE MailAt(x)'
  BY <1>6 DEF Look, Vanish
<1>7. ASSUME NEW a \in Attempts, Create(a) \/ CreateFails(a) PROVE MailAt(x)'
  BY <1>7 DEF Create, CreateFails
<1>8. ASSUME NEW a \in Attempts, Issue(a) \/ IssueFails(a) PROVE MailAt(x)'
  BY <1>8 DEF Issue, IssueFails
<1>9. ASSUME NEW a \in Attempts, Mail(a) \/ MailFails(a) PROVE MailAt(x)'
  BY <1>9 DEF Mail, MailFails, AfterMail
<1>10. ASSUME NEW a \in Attempts, Stamp(a) \/ StampFails(a) PROVE MailAt(x)'
  BY <1>10 DEF Stamp, StampFails
<1>11. CASE Crash
  BY <1>11 DEF Crash, Running
<1>12. CASE UNCHANGED vars
  BY <1>12 DEF vars
<1> QED
  BY <1>1, <1>2, <1>3, <1>4, <1>5, <1>6, <1>7, <1>8, <1>9, <1>10, <1>11, <1>12
  DEF Next, PageStep, HandlerStep, HandlerFailure

LEMMA RepeatStep ==
  ASSUME IInv, [Next]_vars, NEW x \in Attempts
  PROVE  RepeatAt(x)'
<1>0. ASSUME config' = config, before'[x] = before[x]
      PROVE  Claims(Visit(x), before[x])' = Claims(Visit(x), before[x])
  BY <1>0 DEF config, Claims, SameCustomer, Kind
<1> TypeOK /\ OrderAt(x) /\ RepeatAt(x)
  BY DEF IInv, AttemptInv
<1> USE BoundsAssumption
<1> USE DEF TypeOK, RepeatAt, Steps, Goto, Reply, Fault, config, page, server, Kind
<1>1. ASSUME NEW v \in Visits, Submit(v) PROVE RepeatAt(x)'
  <2> DEFINE a == <<v, try[v] + 1>>
  <2>1. before' = [before EXCEPT ![a] = rows] /\ pc' = [pc EXCEPT ![a] = "arriving"]
    BY <1>1 DEF Submit
  <2>2. CASE x = a
    <3>1. x \notin rows
      <4>1. a[2] = try[v] + 1 /\ a[1] = v
        OBVIOUS
      <4> QED BY <2>2, <4>1 DEF OrderAt
    <3>2. pc'[x] = "arriving" /\ before'[x] = rows
      BY <2>1, <2>2
    <3> QED BY <1>1, <3>1, <3>2 DEF Submit
  <2>3. CASE x # a
    BY <1>1, <2>1, <2>3, <1>0 DEF Submit
  <2> QED BY <2>2, <2>3
<1>2. ASSUME NEW v \in Visits, ShowSuccess(v) PROVE RepeatAt(x)'
  BY <1>2, <1>0 DEF ShowSuccess
<1>3. ASSUME NEW v \in Visits, ShowRefusal(v) \/ ShowNoAnswer(v) PROVE RepeatAt(x)'
  BY <1>3, <1>0 DEF ShowRefusal, ShowNoAnswer, ShowError
<1>4. ASSUME NEW a \in Attempts, Limit(a) \/ Trap(a) \/ Invalid(a) PROVE RepeatAt(x)'
  BY <1>4, <1>0 DEF Limit, Trap, Invalid, Refuse
<1>5. ASSUME NEW a \in Attempts, Verify(a) \/ VerifyFails(a) PROVE RepeatAt(x)'
  <2>1. Kind(a) = "health" => pc'[a] # "creating"
    BY <1>5 DEF Verify, VerifyFails, Admit, Refuse
  <2> QED BY <1>5, <2>1, <1>0 DEF Verify, VerifyFails, Admit, Refuse
<1>6. ASSUME NEW a \in Attempts, Look(a) \/ Vanish(a) PROVE RepeatAt(x)'
  <2>1. CASE x = a /\ Look(a) /\ Claims(Visit(x), before[x]) # {}
    <3>1. Claims(Visit(x), rows) # {}
      BY <2>1, ClaimsGrow
    <3> QED BY <2>1, <3>1 DEF Look
  <2>2. CASE ~(x = a /\ Look(a) /\ Claims(Visit(x), before[x]) # {})
    BY <1>6, <2>2, <1>0 DEF Look, Vanish
  <2> QED BY <2>1, <2>2
<1>7. ASSUME NEW a \in Attempts, Create(a) \/ CreateFails(a) PROVE RepeatAt(x)'
  BY <1>7, <1>0 DEF Create, CreateFails, OrderAt
<1>8. ASSUME NEW a \in Attempts, Issue(a) \/ IssueFails(a) PROVE RepeatAt(x)'
  BY <1>8, <1>0 DEF Issue, IssueFails
<1>9. ASSUME NEW a \in Attempts, Mail(a) \/ MailFails(a) PROVE RepeatAt(x)'
  BY <1>9, <1>0 DEF Mail, MailFails, AfterMail
<1>10. ASSUME NEW a \in Attempts, Stamp(a) \/ StampFails(a) PROVE RepeatAt(x)'
  BY <1>10, <1>0 DEF Stamp, StampFails
<1>11. CASE Crash
  BY <1>11, <1>0 DEF Crash, Running
<1>12. CASE UNCHANGED vars
  BY <1>12, <1>0 DEF vars
<1> QED
  BY <1>1, <1>2, <1>3, <1>4, <1>5, <1>6, <1>7, <1>8, <1>9, <1>10, <1>11, <1>12
  DEF Next, PageStep, HandlerStep, HandlerFailure

LEMMA AnswerStays ==
  ASSUME IInv, [Next]_vars, NEW x \in Attempts, answer[x] = "ok"
  PROVE  answer'[x] = "ok"
<1> TypeOK /\ AnswerAt(x)
  BY DEF IInv, AttemptInv
<1> USE DEF AnswerAt
<1> USE DEF TypeOK, Goto, Reply, Fault, config, page, server, Kind
<1>1. ASSUME NEW v \in Visits, Submit(v) PROVE answer'[x] = "ok"
  BY <1>1 DEF Submit, Current
<1>2. ASSUME NEW v \in Visits, ShowSuccess(v) PROVE answer'[x] = "ok"
  BY <1>2 DEF ShowSuccess, Current
<1>3. ASSUME NEW v \in Visits, ShowRefusal(v) \/ ShowNoAnswer(v) PROVE answer'[x] = "ok"
  BY <1>3 DEF ShowRefusal, ShowNoAnswer, ShowError, Renews, Current
<1>4. ASSUME NEW a \in Attempts, Limit(a) \/ Trap(a) \/ Invalid(a) PROVE answer'[x] = "ok"
  BY <1>4 DEF Limit, Trap, Invalid, Refuse
<1>5. ASSUME NEW a \in Attempts, Verify(a) \/ VerifyFails(a) PROVE answer'[x] = "ok"
  BY <1>5 DEF Verify, VerifyFails, Admit, Refuse
<1>6. ASSUME NEW a \in Attempts, Look(a) \/ Vanish(a) PROVE answer'[x] = "ok"
  BY <1>6 DEF Look, Vanish
<1>7. ASSUME NEW a \in Attempts, Create(a) \/ CreateFails(a) PROVE answer'[x] = "ok"
  BY <1>7 DEF Create, CreateFails
<1>8. ASSUME NEW a \in Attempts, Issue(a) \/ IssueFails(a) PROVE answer'[x] = "ok"
  BY <1>8 DEF Issue, IssueFails
<1>9. ASSUME NEW a \in Attempts, Mail(a) \/ MailFails(a) PROVE answer'[x] = "ok"
  BY <1>9 DEF Mail, MailFails, AfterMail
<1>10. ASSUME NEW a \in Attempts, Stamp(a) \/ StampFails(a) PROVE answer'[x] = "ok"
  BY <1>10 DEF Stamp, StampFails
<1>11. CASE Crash
  BY <1>11 DEF Crash, Running
<1>12. CASE UNCHANGED vars
  BY <1>12 DEF vars
<1> QED
  BY <1>1, <1>2, <1>3, <1>4, <1>5, <1>6, <1>7, <1>8, <1>9, <1>10, <1>11, <1>12
  DEF Next, PageStep, HandlerStep, HandlerFailure

LEMMA FormStep ==
  ASSUME IInv, [Next]_vars, NEW w \in Visits
  PROVE  FormAt(w)'
<1> TypeOK /\ FormAt(w) /\ try[w] \in Nat /\ token[w] \in Nat
  BY BoundsAssumption DEF IInv, FormInv, TypeOK, Tokens
<1>0. try[w] > 0 /\ answer[<<w, try[w]>>] = "ok" => answer'[<<w, try[w]>>] = "ok"
  BY AnswerStays, CurrentIsAttempt
<1> USE DEF TypeOK, FormAt, Goto, Reply, Fault, config, page, server, Kind
<1>1. ASSUME NEW v \in Visits, Submit(v) PROVE FormAt(w)'
  BY <1>1 DEF Submit, Current
<1>2. ASSUME NEW v \in Visits, ShowSuccess(v) PROVE FormAt(w)'
  BY <1>2 DEF ShowSuccess, Current
<1>3. ASSUME NEW v \in Visits, ShowRefusal(v) \/ ShowNoAnswer(v) PROVE FormAt(w)'
  BY <1>3 DEF ShowRefusal, ShowNoAnswer, ShowError, Renews, Current
<1>4. ASSUME NEW a \in Attempts, Limit(a) \/ Trap(a) \/ Invalid(a) PROVE FormAt(w)'
  BY <1>0, <1>4 DEF Limit, Trap, Invalid
<1>5. ASSUME NEW a \in Attempts, Verify(a) \/ VerifyFails(a) PROVE FormAt(w)'
  BY <1>0, <1>5 DEF Verify, VerifyFails
<1>6. ASSUME NEW a \in Attempts, Look(a) \/ Vanish(a) PROVE FormAt(w)'
  BY <1>6 DEF Look, Vanish
<1>7. ASSUME NEW a \in Attempts, Create(a) \/ CreateFails(a) PROVE FormAt(w)'
  BY <1>0, <1>7 DEF Create, CreateFails
<1>8. ASSUME NEW a \in Attempts, Issue(a) \/ IssueFails(a) PROVE FormAt(w)'
  BY <1>0, <1>8 DEF Issue, IssueFails
<1>9. ASSUME NEW a \in Attempts, Mail(a) \/ MailFails(a) PROVE FormAt(w)'
  BY <1>0, <1>9 DEF Mail, MailFails
<1>10. ASSUME NEW a \in Attempts, Stamp(a) \/ StampFails(a) PROVE FormAt(w)'
  BY <1>10 DEF Stamp, StampFails
<1>11. CASE Crash
  BY <1>11 DEF Crash, Running
<1>12. CASE UNCHANGED vars
  BY <1>12 DEF vars
<1> QED
  BY <1>1, <1>2, <1>3, <1>4, <1>5, <1>6, <1>7, <1>8, <1>9, <1>10, <1>11, <1>12
  DEF Next, PageStep, HandlerStep, HandlerFailure

LEMMA SentType ==
  ASSUME TypeOK, NEW v \in Visits, NEW n \in 1..MaxTries
  PROVE  sent[<<v, n>>] \in Nat
BY BoundsAssumption DEF TypeOK, Attempts, Tokens

LEMMA TokenStep ==
  ASSUME IInv, [Next]_vars, NEW w \in Visits
  PROVE  TokenAt(w)'
<1> TypeOK /\ FormAt(w) /\ TokenAt(w)
  BY DEF IInv, FormInv
<1> USE BoundsAssumption
<1> USE DEF TypeOK, Tokens, TokenAt, Renewing, Goto, Reply, Fault, config, page, server, Kind
<1>1. ASSUME NEW v \in Visits, Submit(v) PROVE TokenAt(w)'
  BY <1>1 DEF Submit, Current
<1>2. ASSUME NEW v \in Visits, ShowSuccess(v) PROVE TokenAt(w)'
  BY <1>2 DEF ShowSuccess, Current
<1>3. ASSUME NEW v \in Visits, ShowRefusal(v) \/ ShowNoAnswer(v) PROVE TokenAt(w)'
  <2>1. /\ kind' = kind /\ sent' = sent /\ spent' = spent
        /\ form[v] = "submitting" /\ form' = [form EXCEPT ![v] = "error"]
        /\ faults' \in Nat /\ (faults' = 0 => faults = 0)
        /\ token' = token \/ token' = [token EXCEPT ![v] = @ + 1]
    <3>1. faults' = faults \/ faults' = faults + 1
      BY <1>3 DEF ShowRefusal, ShowNoAnswer
    <3>2. form[v] = "submitting" /\ \E heard \in BOOLEAN : ShowError(v, heard)
      BY <1>3 DEF ShowRefusal, ShowNoAnswer
    <3> QED BY <3>1, <3>2 DEF ShowError
  <2>2. Renewing(v)' => token' = [token EXCEPT ![v] = @ + 1]
    <3>1. CASE ShowRefusal(v)
      BY <3>1 DEF ShowRefusal, ShowError, Renews
    <3>2. CASE ShowNoAnswer(v)
      <4>1. faults' > 0
        <5>1. try[v] > 0
          BY <2>1 DEF IInv, FormInv, FormAt
        <5>2. pc[Current(v)] \in {"vanished", "crashed"} => faults > 0
          BY <5>1, CurrentIsAttempt DEF Current, IInv, AttemptInv, OrderAt
        <5> QED BY <3>2, <5>2 DEF ShowNoAnswer
      <4> QED BY <3>2, <4>1 DEF ShowNoAnswer, ShowError, Renews
    <3> QED BY <1>3, <3>1, <3>2
  <2>3. CASE w # v
    BY <2>1, <2>3
  <2>4. CASE w = v /\ token' = token
    BY <2>1, <2>2, <2>4
  <2>5. CASE w = v /\ token' = [token EXCEPT ![v] = @ + 1]
    <3>1. token'[w] = token[w] + 1 /\ token[w] \in Nat
      BY <2>5
    <3>2. ASSUME NEW n \in 1..MaxTries PROVE sent'[<<w, n>>] < token'[w]
      <4>1. sent[<<w, n>>] <= token[w] /\ sent[<<w, n>>] \in Nat
        BY SentType
      <4> QED BY <2>1, <3>1, <4>1
    <3>3. ASSUME NEW t \in Tokens, <<w, t>> \in spent' PROVE t < token'[w]
      BY <2>1, <3>1, <3>3
    <3>4. token'[w] \in Nat /\ \A n \in 1..MaxTries : sent'[<<w, n>>] \in Nat
      BY <2>1, <3>1, SentType
    <3> HIDE DEF TypeOK, Renewing, Tokens
    <3>5. \A n \in 1..MaxTries : sent'[<<w, n>>] <= token'[w]
      BY <3>2, <3>4
    <3>6. \A t \in Tokens : <<w, t>> \in spent' => t <= token'[w]
      BY <3>3, <3>4 DEF Tokens
    <3> QED BY <3>2, <3>3, <3>5, <3>6
  <2> QED BY <2>1, <2>3, <2>4, <2>5
<1>4. ASSUME NEW a \in Attempts, Limit(a) \/ Trap(a) \/ Invalid(a) PROVE TokenAt(w)'
  BY <1>4 DEF Limit, Trap, Invalid, Refuse
<1>5. ASSUME NEW a \in Attempts, Verify(a) \/ VerifyFails(a) PROVE TokenAt(w)'
  <2>1. /\ kind' = kind /\ sent' = sent /\ form' = form /\ token' = token
        /\ spent' \subseteq spent \cup {<<Visit(a), sent[a]>>}
        /\ faults' \in Nat /\ (faults' = 0 => faults = 0)
    BY <1>5 DEF Verify, VerifyFails
  <2>2. a = <<Visit(a), a[2]>> /\ a[2] \in 1..MaxTries
    BY AttemptParts
  <2>3. ASSUME NEW t \in Tokens, <<w, t>> \in spent'
        PROVE  <<w, t>> \in spent \/ \E n \in 1..MaxTries : t = sent[<<w, n>>]
    BY <2>1, <2>2, <2>3
  <2>4. \A t \in Tokens : <<w, t>> \in spent' => t <= token[w]
    BY <2>3
  <2>5. form[w] \in {"idle", "error"} /\ Renewing(w)'
          => \A t \in Tokens : <<w, t>> \in spent' => t < token[w]
    BY <2>1, <2>3
  <2> HIDE DEF Tokens
  <2> QED BY <2>1, <2>4, <2>5
<1>6. ASSUME NEW a \in Attempts, Look(a) \/ Vanish(a) PROVE TokenAt(w)'
  BY <1>6 DEF Look, Vanish
<1>7. ASSUME NEW a \in Attempts, Create(a) \/ CreateFails(a) PROVE TokenAt(w)'
  BY <1>7 DEF Create, CreateFails
<1>8. ASSUME NEW a \in Attempts, Issue(a) \/ IssueFails(a) PROVE TokenAt(w)'
  BY <1>8 DEF Issue, IssueFails
<1>9. ASSUME NEW a \in Attempts, Mail(a) \/ MailFails(a) PROVE TokenAt(w)'
  BY <1>9 DEF Mail, MailFails, AfterMail
<1>10. ASSUME NEW a \in Attempts, Stamp(a) \/ StampFails(a) PROVE TokenAt(w)'
  BY <1>10 DEF Stamp, StampFails
<1>11. CASE Crash
  BY <1>11 DEF Crash, Running
<1>12. CASE UNCHANGED vars
  BY <1>12 DEF vars
<1> QED
  BY <1>1, <1>2, <1>3, <1>4, <1>5, <1>6, <1>7, <1>8, <1>9, <1>10, <1>11, <1>12
  DEF Next, PageStep, HandlerStep, HandlerFailure

----------------------------------------------------------------------------
LEMMA Inductive == IInv /\ [Next]_vars => IInv'
<1> SUFFICES ASSUME IInv, [Next]_vars PROVE IInv'
  OBVIOUS
<1>1. TypeOK'
  BY TypeStep DEF IInv
<1>2. ASSUME NEW x \in Attempts
      PROVE  (OrderAt(x) /\ AnswerAt(x) /\ MailAt(x) /\ RepeatAt(x))'
  BY OrderStep, AnswerStep, MailStep, RepeatStep
<1>3. ASSUME NEW w \in Visits PROVE (FormAt(w) /\ TokenAt(w))'
  BY FormStep, TokenStep
<1> QED BY <1>1, <1>2, <1>3 DEF IInv, AttemptInv, FormInv

LEMMA Invariance == Spec => []IInv
BY InitIInv, Inductive, PTL DEF Spec

(* The pages, the attempts and the rows have their types in every          *)
(* reachable state.                                                        *)
THEOREM TypeCorrect == Spec => []TypeOK
<1>1. IInv => TypeOK
  BY DEF IInv
<1> QED BY <1>1, Invariance, PTL

(* Thanks mean that the enquiry is stored, and an error that nothing was,  *)
(* unless a call failed half way (oncall.routes.ts:52,                     *)
(* ContactForm.tsx:34-37).                                                 *)
THEOREM TrueAnswers == Spec => []AnswersAreTrue
<1>1. IInv => AnswersAreTrue
  <2> SUFFICES ASSUME IInv, NEW v \in Visits \ trapped
               PROVE  /\ form[v] = "success" =>
                           Current(v) \in rows /\ (kind[v] = "health" => Current(v) \in grants)
                      /\ \A n \in 1..MaxTries :
                           answer[<<v, n>>] = "error" /\ faults = 0 => <<v, n>> \notin rows
    BY DEF AnswersAreTrue
  <2>1. ASSUME form[v] = "success"
        PROVE  Current(v) \in rows /\ (kind[v] = "health" => Current(v) \in grants)
    <3>1. try[v] > 0 /\ answer[Current(v)] = "ok"
      BY <2>1 DEF IInv, FormInv, FormAt, Current
    <3>2. Current(v) \in Attempts /\ Visit(Current(v)) = v
      BY <3>1, CurrentIsAttempt DEF IInv, Current, Visit
    <3> QED BY <3>1, <3>2 DEF IInv, AttemptInv, AnswerAt, Kind
  <2>2. ASSUME NEW n \in 1..MaxTries, answer[<<v, n>>] = "error", faults = 0
        PROVE  <<v, n>> \notin rows
    <3>1. <<v, n>> \in Attempts
      BY DEF Attempts
    <3> QED BY <2>2, <3>1 DEF IInv, AttemptInv, AnswerAt, OrderAt
  <2> QED BY <2>1, <2>2
<1> QED BY <1>1, Invariance, PTL

(* A health check asked for when the customer has one is noted as a repeat,*)
(* for any number of colleagues at the same time                           *)
(* (healthcheck.routes.ts:144-157).                                        *)
THEOREM RepeatsAreNoted == Spec => []RepeatIsNoted
<1>1. IInv => RepeatIsNoted
  BY DEF IInv, TypeOK, AttemptInv, RepeatAt, RepeatIsNoted
<1> QED BY <1>1, Invariance, PTL

(* An enquiry whose handler came to its end was mailed to the team, unless *)
(* a call failed, and is dated only if it was (lead.routes.ts:72-76,       *)
(* oncall.routes.ts:122-132).                                              *)
THEOREM Silence == Spec => []SilenceIsExplained
<1>1. IInv => SilenceIsExplained
  BY DEF IInv, TypeOK, AttemptInv, MailAt, SilenceIsExplained
<1> QED BY <1>1, Invariance, PTL

(* A visitor who may try again has a token that was used up only on the    *)
(* contact form, or, on two others, when something failed                  *)
(* (Turnstile.tsx, OnCallSubscribe.tsx).                                   *)
THEOREM SpentTokens == Spec => []SpentTokenNeedsSilence
<1>1. IInv => SpentTokenNeedsSilence
  <2> SUFFICES ASSUME IInv, NEW v \in Visits, form[v] = "error", <<v, token[v]>> \in spent
               PROVE  \/ kind[v] = "contact"
                      \/ kind[v] \in {"plan", "health"} /\ faults > 0
    BY DEF SpentTokenNeedsSilence
  <2>1. token[v] \in Tokens /\ ~(token[v] < token[v])
    BY DEF IInv, TypeOK, Tokens
  <2>2. ~Renewing(v)
    BY <2>1 DEF IInv, FormInv, TokenAt
  <2> QED BY <2>2, BoundsAssumption DEF IInv, TypeOK, Renewing, Kinds
<1> QED BY <1>1, Invariance, PTL
=============================================================================
