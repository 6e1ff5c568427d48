------------------------------ MODULE Intake --------------------------------
(***************************************************************************)
(* The enquiry forms of the site and the handlers behind them: the contact *)
(* form and the plan cards (lead.routes.ts), the free health check         *)
(* (healthcheck.routes.ts) and on-call enrolment (oncall.routes.ts), with  *)
(* the captcha widget whose tokens are good for one submission             *)
(* (Turnstile.tsx, security.ts).                                           *)
(*                                                                         *)
(* A visit is one form on one page.  It may submit several times, and a    *)
(* submission whose answer is lost goes on at the server while the visitor *)
(* submits again, so that what runs at the server is an attempt, <<v, n>>. *)
(* All four forms are one state machine that differs in the order of its   *)
(* steps and in when the page asks for a new token.  Expired tokens are    *)
(* renewed by the widget: a form has its newest token, or none yet.        *)
(***************************************************************************)
EXTENDS Naturals

CONSTANTS
  Visits,       \* forms that somebody may open
  Domains,      \* the domains of their email addresses
  FreeDomains,  \* those of FREE_EMAIL_DOMAINS: no sign of an employer
  MaxTries,     \* bound on the submissions of a visit
  MaxFaults     \* bound on the failures of a behaviour

ASSUME DomainsAssumption == FreeDomains \subseteq Domains

ASSUME BoundsAssumption == MaxTries \in Nat /\ MaxFaults \in Nat

Kinds == {"contact", "plan", "health", "oncall"}

Attempts == Visits \X (1..MaxTries)

Visit(a) == a[1]

VARIABLES
  kind, domain, trapped,       \* the form, the address, its hidden field filled
  form, try, token, sent,      \* the page: its state, try, newest token; sent with
  spent,                       \* the tokens siteverify has accepted
  pc, answer,                  \* the handler of an attempt and what it said
  before, prior,               \* rows at submission; found an earlier claim
  rows, grants,                \* stored; download grants
  announced, stamped,          \* mailed to the team; its date written
  faults

config == <<kind, domain, trapped>>
page == <<form, try, token, sent, before>>
server == <<pc, answer, prior, rows, grants, announced, stamped, spent>>
vars == <<config, page, server, faults>>

Steps == {"idle", "arriving", "looking", "creating", "issuing", "mailing",
          "stamping", "done", "refused", "failed", "vanished", "crashed"}

Tokens == 0..(MaxTries + 1)

TypeOK ==
  /\ kind \in [Visits -> Kinds] /\ domain \in [Visits -> Domains] /\ trapped \subseteq Visits
  /\ form \in [Visits -> {"away", "idle", "submitting", "error", "success"}]
  /\ try \in [Visits -> 0..MaxTries]
  /\ token \in [Visits -> Tokens]
  /\ sent \in [Attempts -> Tokens]
  /\ spent \subseteq Visits \X Tokens
  /\ pc \in [Attempts -> Steps]
  /\ answer \in [Attempts -> {"none", "ok", "error"}]
  /\ before \in [Attempts -> SUBSET Attempts]
  /\ prior \subseteq Attempts /\ rows \subseteq Attempts
  /\ grants \subseteq Attempts /\ announced \subseteq Attempts /\ stamped \subseteq Attempts
  /\ faults \in 0..MaxFaults

Init ==
  /\ kind \in [Visits -> Kinds]
  /\ domain \in [Visits -> Domains]
  /\ trapped \in SUBSET Visits
  /\ form \in [Visits -> {"away", "idle"}]
  /\ try = [v \in Visits |-> 0]
  /\ token = [v \in Visits |-> 1]
  /\ sent = [a \in Attempts |-> 0]
  /\ spent = {}
  /\ pc = [a \in Attempts |-> "idle"]
  /\ answer = [a \in Attempts |-> "none"]
  /\ before = [a \in Attempts |-> {}]
  /\ prior = {} /\ rows = {} /\ grants = {} /\ announced = {} /\ stamped = {}
  /\ faults = 0

Fault == faults < MaxFaults /\ faults' = faults + 1

Kind(a) == kind[Visit(a)]

Goto(a, step) == pc' = [pc EXCEPT ![a] = step]

Reply(a, said) == answer' = [answer EXCEPT ![a] = said]

----------------------------------------------------------------------------
(* The page.                                                               *)

(* What is valid for the form's own schema is sent with the token it has,  *)
(* or with none while the widget has not answered.                         *)
Submit(v) ==
  /\ form[v] \in {"idle", "error"}
  /\ try[v] < MaxTries
  /\ LET a == <<v, try[v] + 1>>
     IN /\ \E t \in {0, token[v]} : sent' = [sent EXCEPT ![a] = t]
        /\ before' = [before EXCEPT ![a] = rows]
        /\ Goto(a, "arriving")
  /\ try' = [try EXCEPT ![v] = @ + 1]
  /\ form' = [form EXCEPT ![v] = "submitting"]
  /\ UNCHANGED <<config, token, answer, prior, rows, grants, announced, stamped, spent, faults>>

Current(v) == <<v, try[v]>>

ShowSuccess(v) ==
  /\ form[v] = "submitting"
  /\ answer[Current(v)] = "ok"
  /\ form' = [form EXCEPT ![v] = "success"]
  /\ UNCHANGED <<config, try, token, sent, before, server, faults>>

(* Slip: no page asks for a new token.                                     *)
RenewsNever(v, heard) == FALSE

(* setCaptchaNonce: the plan card and the health check ask for a new token *)
(* when the API refused, the enrolment also when there was no answer, and  *)
(* the contact form never does.                                            *)
Renews(v, heard) ==
  \/ heard /\ kind[v] \in {"plan", "health", "oncall"}
  \/ ~heard /\ kind[v] = "oncall"

ShowError(v, heard) ==
  /\ form' = [form EXCEPT ![v] = "error"]
  /\ token' = IF Renews(v, heard) THEN [token EXCEPT ![v] = @ + 1] ELSE token
  /\ UNCHANGED <<config, try, sent, before, server>>

ShowRefusal(v) ==
  /\ form[v] = "submitting"
  /\ answer[Current(v)] = "error"
  /\ ShowError(v, TRUE)
  /\ UNCHANGED faults

(* fetch rejects: the request, or its answer, was lost.                    *)
ShowNoAnswer(v) ==
  /\ form[v] = "submitting"
  /\ \/ pc[Current(v)] \in {"vanished", "crashed"} /\ answer[Current(v)] = "none" /\ UNCHANGED faults
     \/ Fault
  /\ ShowError(v, FALSE)

----------------------------------------------------------------------------
(* The handlers.                                                           *)

Refuse(a) == Goto(a, "refused") /\ Reply(a, "error")

(* The request never arrives.                                              *)
Vanish(a) ==
  /\ pc[a] = "arriving"
  /\ Fault
  /\ Goto(a, "vanished")
  /\ UNCHANGED <<config, page, answer, prior, rows, grants, announced, stamped, spent>>

(* leadLimiter: 429, before the captcha is looked at.                      *)
Limit(a) ==
  /\ pc[a] = "arriving"
  /\ Refuse(a)
  /\ UNCHANGED <<config, page, prior, rows, grants, announced, stamped, spent, faults>>

(* honeypot: the hidden field is filled, and the visitor is thanked.       *)
Trap(a) ==
  /\ pc[a] = "arriving"
  /\ Visit(a) \in trapped
  /\ Goto(a, "done") /\ Reply(a, "ok")
  /\ UNCHANGED <<config, page, prior, rows, grants, announced, stamped, spent, faults>>

Admit(a) == Goto(a, IF Kind(a) = "health" THEN "looking" ELSE "creating") /\ UNCHANGED answer

(* verifyCaptcha: siteverify accepts a token once.                         *)
Verify(a) ==
  /\ pc[a] = "arriving"
  /\ Visit(a) \notin trapped
  /\ LET used == <<Visit(a), sent[a]>>
     IN IF sent[a] = 0 \/ used \in spent
          THEN Refuse(a) /\ UNCHANGED spent
          ELSE Admit(a) /\ spent' = spent \cup {used}
  /\ UNCHANGED <<config, page, prior, rows, grants, announced, stamped, faults>>

(* siteverify does not answer: let the visitor through.                    *)
VerifyFails(a) ==
  /\ pc[a] = "arriving"
  /\ Visit(a) \notin trapped
  /\ sent[a] # 0
  /\ Fault
  /\ Admit(a)
  /\ \/ spent' = spent \cup {<<Visit(a), sent[a]>>}
     \/ UNCHANGED spent
  /\ UNCHANGED <<config, page, prior, rows, grants, announced, stamped>>

(* The health check's page does not check its fields: the schema refuses.  *)
Invalid(a) ==
  /\ pc[a] = "looking"
  /\ Refuse(a)
  /\ UNCHANGED <<config, page, prior, rows, grants, announced, stamped, spent, faults>>

(* claimMatchFor: the same address is the same customer, and the same      *)
(* domain unless it is a free provider's.                                  *)
SameCustomer(v, w) ==
  \/ v = w
  \/ domain[v] = domain[w] /\ domain[v] \notin FreeDomains

Claims(v, S) == {b \in S : Kind(b) = "health" /\ SameCustomer(v, Visit(b))}

(* Slip: the earlier claim is looked for by address alone.                 *)
LookByAddress(a) ==
  /\ pc[a] = "looking"
  /\ prior' = IF \E b \in rows : Visit(b) = Visit(a) THEN prior \cup {a} ELSE prior
  /\ Goto(a, "creating")
  /\ UNCHANGED <<config, page, answer, rows, grants, announced, stamped, spent, faults>>

Look(a) ==
  /\ pc[a] = "looking"
  /\ prior' = IF Claims(Visit(a), rows) # {} THEN prior \cup {a} ELSE prior
  /\ Goto(a, "creating")
  /\ UNCHANGED <<config, page, answer, rows, grants, announced, stamped, spent, faults>>

(* Slip: the visitor is thanked before the row is there.                   *)
AnswerThenCreate(a) ==
  /\ pc[a] = "creating"
  /\ Reply(a, "ok")
  /\ Goto(a, "mailing")
  /\ UNCHANGED <<config, page, prior, rows, grants, announced, stamped, spent, faults>>

(* Stored first, with the note of an earlier claim; all but the health     *)
(* check answer now.                                                       *)
Create(a) ==
  /\ pc[a] = "creating"
  /\ rows' = rows \cup {a}
  /\ IF Kind(a) = "health"
       THEN Goto(a, "issuing") /\ UNCHANGED answer
       ELSE Goto(a, "mailing") /\ Reply(a, "ok")
  /\ UNCHANGED <<config, page, prior, grants, announced, stamped, spent, faults>>

(* The insert throws, committed or not: 500.                               *)
CreateFails(a) ==
  /\ pc[a] = "creating"
  /\ Fault
  /\ \/ rows' = rows \cup {a}
     \/ UNCHANGED rows
  /\ Goto(a, "failed") /\ Reply(a, "error")
  /\ UNCHANGED <<config, page, prior, grants, announced, stamped, spent>>

(* issueCollectorToken.                                                    *)
Issue(a) ==
  /\ pc[a] = "issuing"
  /\ grants' = grants \cup {a}
  /\ Goto(a, "mailing")
  /\ UNCHANGED <<config, page, answer, prior, rows, announced, stamped, spent, faults>>

(* 500, with the lead stored and nobody told of it.                        *)
IssueFails(a) ==
  /\ pc[a] = "issuing"
  /\ Fault
  /\ \/ grants' = grants \cup {a}
     \/ UNCHANGED grants
  /\ Goto(a, "failed") /\ Reply(a, "error")
  /\ UNCHANGED <<config, page, prior, rows, announced, stamped, spent>>

(* The mails and the card, to the team and to the visitor.  The health     *)
(* check answers only now; the others go on to write the date, a lead only *)
(* if the mail to the team was sent.                                       *)
AfterMail(a, told) ==
  IF Kind(a) = "health"
    THEN Goto(a, "done") /\ Reply(a, "ok")
    ELSE Goto(a, IF told \/ Kind(a) = "oncall" THEN "stamping" ELSE "done") /\ UNCHANGED answer

Mail(a) ==
  /\ pc[a] = "mailing"
  /\ announced' = announced \cup {a}
  /\ AfterMail(a, TRUE)
  /\ UNCHANGED <<config, page, prior, rows, grants, stamped, spent, faults>>

(* sendEmail does not reject: it says that it did not send.                *)
MailFails(a) ==
  /\ pc[a] = "mailing"
  /\ Fault
  /\ AfterMail(a, FALSE)
  /\ UNCHANGED <<config, page, prior, rows, grants, announced, stamped, spent>>

(* Slip: the date is written without a look at what was sent.              *)
StampAnyway(a) ==
  /\ pc[a] = "stamping"
  /\ stamped' = stamped \cup {a}
  /\ Goto(a, "done")
  /\ UNCHANGED <<config, page, answer, prior, rows, grants, announced, spent, faults>>

(* An enrolment writes both its dates, the team's null if it was not told. *)
Stamp(a) ==
  /\ pc[a] = "stamping"
  /\ stamped' = IF a \in announced THEN stamped \cup {a} ELSE stamped
  /\ Goto(a, "done")
  /\ UNCHANGED <<config, page, answer, prior, rows, grants, announced, spent, faults>>

StampFails(a) ==
  /\ pc[a] = "stamping"
  /\ Fault
  /\ Goto(a, "done")
  /\ UNCHANGED <<config, page, answer, prior, rows, grants, announced, stamped, spent>>

Running == {"arriving", "looking", "creating", "issuing", "mailing", "stamping"}

Crash ==
  /\ Fault
  /\ pc' = [a \in Attempts |-> IF pc[a] \in Running THEN "crashed" ELSE pc[a]]
  /\ UNCHANGED <<config, page, answer, prior, rows, grants, announced, stamped, spent>>

----------------------------------------------------------------------------
PageStep(v) == Submit(v) \/ ShowSuccess(v) \/ ShowRefusal(v) \/ ShowNoAnswer(v)

HandlerStep(a) ==
  \/ Limit(a) \/ Trap(a) \/ Verify(a) \/ Invalid(a) \/ Look(a) \/ Create(a) \/ Issue(a)
  \/ Mail(a) \/ Stamp(a)

HandlerFailure(a) ==
  \/ Vanish(a) \/ VerifyFails(a) \/ CreateFails(a) \/ IssueFails(a) \/ MailFails(a) \/ StampFails(a)

Next ==
  \/ \E v \in Visits : PageStep(v)
  \/ \E a \in Attempts : HandlerStep(a) \/ HandlerFailure(a)
  \/ Crash

Spec == Init /\ [][Next]_vars

----------------------------------------------------------------------------
(***************************************************************************)
(* Properties                                                              *)
(***************************************************************************)

(* What a visitor is told is so: thanks mean that the enquiry is stored,   *)
(* with the download link if it is a health check's, whatever attempts of  *)
(* the visit overlap; an error means that nothing was stored, unless a     *)
(* call failed half way (oncall.routes.ts:52, ContactForm.tsx:34-37).      *)
AnswersAreTrue ==
  \A v \in Visits \ trapped :
    /\ form[v] = "success" =>
         Current(v) \in rows /\ (kind[v] = "health" => Current(v) \in grants)
    /\ \A n \in 1..MaxTries :
         answer[<<v, n>>] = "error" /\ faults = 0 => <<v, n>> \notin rows

(* A health check that is asked for when the customer has one already is   *)
(* noted as a repeat, whoever of the company asks and whatever runs at the *)
(* same time: only requests that overlap may miss each other               *)
(* (healthcheck.routes.ts:144-157).                                        *)
RepeatIsNoted ==
  \A a \in rows :
    Kind(a) = "health" /\ Claims(Visit(a), before[a]) # {} => a \in prior

(* An enquiry reaches a person: once its handler has come to its end, the  *)
(* team was mailed about it, unless a call failed on the way, and it is     *)
(* not dated as mailed when it was not (lead.routes.ts:72-76,              *)
(* oncall.routes.ts:122-132).                                              *)
SilenceIsExplained ==
  \A a \in rows :
    /\ pc[a] = "done" /\ a \notin announced => faults > 0
    /\ a \in stamped => a \in announced

(* A form whose visitor may try again holds a token that was used up only  *)
(* if it heard nothing from the API, or is the contact form.  The          *)
(* enrolment never does.                                                   *)
SpentTokenNeedsSilence ==
  \A v \in Visits :
    form[v] = "error" /\ <<v, token[v]>> \in spent =>
      \/ kind[v] = "contact"
      \/ kind[v] \in {"plan", "health"} /\ faults > 0
=============================================================================
