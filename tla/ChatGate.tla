----------------------------- MODULE ChatGate -------------------------------
(***************************************************************************)
(* The way into a conversation: a session is started, a code is mailed,    *)
(* and the code opens the chat (chat.routes.ts:37-207, ChatWidget.tsx).    *)
(*                                                                         *)
(* The handlers read the session's row and write it in a later statement,  *)
(* and a request whose answer is lost goes on while the visitor makes the  *)
(* next one.  Codes are numbered in the order they are issued; 0 is no     *)
(* code, and a wrong entry.  The clock is what the rules tell apart: a     *)
(* code is live until its ten minutes are over, and a row is cooling until *)
(* its minute is.                                                          *)
(***************************************************************************)
EXTENDS Naturals

CONSTANTS
  MaxSessions,       \* bound on the sessions that /start creates
  MaxReqs,           \* bound on the requests that are under way at once
  OTP_MAX_ATTEMPTS,  \* wrong entries before a code is burned
  MaxTurns           \* bound on the failures, wrong entries, codes that expire
                     \* and codes asked for without need, together

ASSUME BoundsAssumption ==
  /\ MaxSessions \in Nat /\ MaxReqs \in Nat /\ MaxTurns \in Nat
  /\ OTP_MAX_ATTEMPTS \in Nat \ {0}

Sessions == 1..MaxSessions

VARIABLES
  created,          \* sessions with a row
  otp, live,        \* the stored code; not expired
  attempts,
  cooling,          \* otpSentAt is less than a minute ago
  verified,
  greetings,        \* greetings in the log
  issued, inbox,    \* codes issued; the newest code in the visitor's inbox
  phase, session,   \* the widget: form, code or chat; its session
  told,             \* what the visitor saw last
  reqs,
  turns,
  adrift            \* requests that went on after the widget gave them up

sessionRow == <<created, otp, live, attempts, cooling, verified, greetings>>
mail == <<issued, inbox>>
page == <<phase, session, told>>
gateVars == <<sessionRow, mail, page, reqs, turns, adrift>>

Reqs == 1..MaxReqs

NoReq == [kind |-> "none", s |-> 0, step |-> "none", code |-> 0, waiting |-> FALSE, answer |-> "none"]

GateInit ==
  /\ created = {}
  /\ otp = [s \in Sessions |-> 0] /\ live = {}
  /\ attempts = [s \in Sessions |-> 0]
  /\ cooling = {} /\ verified = {}
  /\ greetings = [s \in Sessions |-> 0]
  /\ issued = 0 /\ inbox = 0
  /\ phase = "form" /\ session = 0 /\ told = "none"
  /\ reqs = [r \in Reqs |-> NoReq]
  /\ turns = 0 /\ adrift = 0

Spend == turns < MaxTurns /\ turns' = turns + 1

Turn == Spend /\ UNCHANGED adrift

Steady == UNCHANGED <<turns, adrift>>

----------------------------------------------------------------------------
(* The visitor.  One request at a time: sending, verifying.                *)

Busy == \E r \in Reqs : reqs[r].waiting

Ask(r, kind, s, code) ==
  /\ ~Busy
  /\ reqs[r].step = "none" /\ \A q \in 1..(r - 1) : reqs[q].step # "none"
  /\ reqs' = [reqs EXCEPT ![r] = [NoReq EXCEPT !.kind = kind, !.s = s, !.step = "arriving",
                                               !.code = code, !.waiting = TRUE]]
  /\ told' = "none"
  /\ UNCHANGED <<sessionRow, mail, phase, session>>

Fresh(s) == s \notin created /\ \A q \in Reqs : reqs[q].s # s

Start(r) ==
  /\ phase = "form"
  /\ \E s \in Sessions :
       /\ Fresh(s) /\ \A t \in 1..(s - 1) : ~Fresh(t)
       /\ Ask(r, "start", s, 0)
  /\ Steady

(* The code that was mailed last, unless it was just refused for good.     *)
Enter(r) ==
  /\ phase = "code" /\ inbox # 0
  /\ told # "expired"
  /\ Ask(r, "verify", session, inbox)
  /\ Steady

EnterWrong(r) ==
  /\ phase = "code"
  /\ Ask(r, "verify", session, 0)
  /\ Turn

(* The widget says that no code could be mailed also if the row is         *)
(* verified already, for that answer does not say that one was.            *)
Needy == told \in {"expired", "unsent", "already"} \/ inbox = 0

Resend(r) ==
  /\ phase = "code"
  /\ Ask(r, "resend", session, 0)
  /\ IF Needy THEN Steady ELSE Turn

----------------------------------------------------------------------------
(* The handlers.                                                           *)

Step(r, step) == reqs' = [reqs EXCEPT ![r].step = step]

Respond(r, answer) == reqs' = [reqs EXCEPT ![r].step = "answered", ![r].answer = answer]

At(r, kind, step) == reqs[r].kind = kind /\ reqs[r].step = step

(* POST /start: a row, and its first code.                                 *)
CreateSession(r) ==
  /\ At(r, "start", "arriving")
  /\ created' = created \cup {reqs[r].s}
  /\ Step(r, "issuing")
  /\ UNCHANGED <<otp, live, attempts, cooling, verified, greetings, mail, page>> /\ Steady

(* issueCode: the code is stored, then mailed.                             *)
IssueCode(r) ==
  LET s == reqs[r].s
  IN /\ reqs[r].step = "issuing"
     /\ issued' = issued + 1
     /\ otp' = [otp EXCEPT ![s] = issued + 1]
     /\ live' = live \cup {s} /\ cooling' = cooling \cup {s}
     /\ attempts' = [attempts EXCEPT ![s] = 0]
     /\ reqs' = [reqs EXCEPT ![r].step = "mailing", ![r].code = issued + 1]
     /\ UNCHANGED <<created, verified, greetings, inbox, page>> /\ Steady

MailCode(r) ==
  /\ reqs[r].step = "mailing"
  /\ inbox' = reqs[r].code
  /\ Respond(r, "sent")
  /\ UNCHANGED <<sessionRow, issued, page>> /\ Steady

MailFails(r) ==
  /\ reqs[r].step = "mailing"
  /\ Respond(r, "unsent")
  /\ Turn
  /\ UNCHANGED <<sessionRow, mail, page>>

(* Slip: the row is not asked whether it is verified already.              *)
CheckCodeOnly(r) ==
  LET s == reqs[r].s
  IN /\ At(r, "verify", "arriving")
     /\ \/ /\ otp[s] = 0 \/ s \notin live \/ attempts[s] >= OTP_MAX_ATTEMPTS
           /\ Respond(r, "expired")
        \/ /\ otp[s] # 0 /\ s \in live /\ attempts[s] < OTP_MAX_ATTEMPTS
           /\ Step(r, IF reqs[r].code = otp[s] THEN "opening" ELSE "counting")
     /\ UNCHANGED <<sessionRow, mail, page>> /\ Steady

(* Slip: only the code is compared, and it is kept.                        *)
CheckCodeKept(r) ==
  LET s == reqs[r].s
  IN /\ At(r, "verify", "arriving")
     /\ Step(r, IF reqs[r].code = otp[s] \/ s \in verified THEN "opening" ELSE "counting")
     /\ UNCHANGED <<sessionRow, mail, page>> /\ Steady

(* POST /verify, up to what it does with the row it read.                  *)
CheckCode(r) ==
  LET s == reqs[r].s
  IN /\ At(r, "verify", "arriving")
     /\ \/ s \in verified /\ Respond(r, "in")
        \/ /\ s \notin verified
           /\ otp[s] = 0 \/ s \notin live \/ attempts[s] >= OTP_MAX_ATTEMPTS
           /\ Respond(r, "expired")
        \/ /\ s \notin verified
           /\ otp[s] # 0 /\ s \in live /\ attempts[s] < OTP_MAX_ATTEMPTS
           /\ Step(r, IF reqs[r].code = otp[s] THEN "opening" ELSE "counting")
     /\ UNCHANGED <<sessionRow, mail, page>> /\ Steady

CountAttempt(r) ==
  /\ reqs[r].step = "counting"
  /\ attempts' = [attempts EXCEPT ![reqs[r].s] = @ + 1]
  /\ Respond(r, "wrong")
  /\ UNCHANGED <<created, otp, live, cooling, verified, greetings, mail, page>> /\ Steady

(* Cleared on success.                                                     *)
OpenChat(r) ==
  LET s == reqs[r].s
  IN /\ reqs[r].step = "opening"
     /\ verified' = verified \cup {s}
     /\ otp' = [otp EXCEPT ![s] = 0] /\ live' = live \ {s}
     /\ attempts' = [attempts EXCEPT ![s] = 0]
     /\ Step(r, "greeting")
     /\ UNCHANGED <<created, cooling, greetings, mail, page>> /\ Steady

Greet(r) ==
  /\ reqs[r].step = "greeting"
  /\ greetings' = [greetings EXCEPT ![reqs[r].s] = @ + 1]
  /\ Respond(r, "in")
  /\ UNCHANGED <<created, otp, live, attempts, cooling, verified, mail, page>> /\ Steady

(* Slip: the minute between two codes is not kept.                         *)
CheckResendAlways(r) ==
  /\ At(r, "resend", "arriving")
  /\ IF reqs[r].s \in verified THEN Respond(r, "already") ELSE Step(r, "issuing")
  /\ UNCHANGED <<sessionRow, mail, page>> /\ Steady

(* POST /resend-code, up to issueCode.                                     *)
CheckResend(r) ==
  LET s == reqs[r].s
  IN /\ At(r, "resend", "arriving")
     /\ IF s \in verified THEN Respond(r, "already")
        ELSE IF s \in cooling THEN Respond(r, "cooling")
        ELSE Step(r, "issuing")
     /\ UNCHANGED <<sessionRow, mail, page>> /\ Steady

----------------------------------------------------------------------------
(* The widget hears, or does not.                                          *)

Phase(r, answer) ==
  IF answer = "in" THEN "chat"
  ELSE IF reqs[r].kind = "start" THEN "code"
  ELSE phase

Hear(r) ==
  /\ reqs[r].step = "answered"
  /\ reqs' = [reqs EXCEPT ![r] = NoReq]
  /\ IF reqs[r].waiting
       THEN /\ told' = reqs[r].answer
            /\ phase' = Phase(r, reqs[r].answer)
            /\ session' = reqs[r].s
       ELSE UNCHANGED page
  /\ UNCHANGED <<sessionRow, mail>> /\ Steady

(* fetch rejects: the request goes on, or ends where it is.                *)
GiveUp(r) ==
  /\ reqs[r].waiting
  /\ Spend
  /\ told' = "no answer"
  /\ \/ /\ reqs[r].step # "answered"
        /\ reqs' = [reqs EXCEPT ![r].waiting = FALSE]
        /\ adrift' = adrift + 1
     \/ /\ reqs' = [reqs EXCEPT ![r] = NoReq]
        /\ UNCHANGED adrift
  /\ UNCHANGED <<sessionRow, mail, phase, session>>

(* Another page: the code's screen is not restored, and a new start is     *)
(* the only way on.                                                        *)
Leave ==
  /\ phase = "code" /\ ~Busy
  /\ phase' = "form" /\ session' = 0 /\ told' = "none"
  /\ Turn
  /\ UNCHANGED <<sessionRow, mail, reqs>>

(* A minute, ten minutes.                                                  *)
Cool(s) ==
  /\ s \in cooling
  /\ cooling' = cooling \ {s}
  /\ UNCHANGED <<created, otp, live, attempts, verified, greetings, mail, page, reqs>> /\ Steady

Expire(s) ==
  /\ s \in live \ cooling
  /\ live' = live \ {s}
  /\ Turn
  /\ UNCHANGED <<created, otp, attempts, cooling, verified, greetings, mail, page, reqs>>

----------------------------------------------------------------------------
Visitor(r) == Start(r) \/ Enter(r) \/ EnterWrong(r) \/ Resend(r) \/ Hear(r) \/ GiveUp(r)

Handler(r) ==
  \/ CreateSession(r) \/ IssueCode(r) \/ MailCode(r)
  \/ CheckCode(r) \/ CountAttempt(r) \/ OpenChat(r) \/ Greet(r) \/ CheckResend(r)

GateNext ==
  \/ \E r \in Reqs : Visitor(r) \/ Handler(r) \/ MailFails(r)
  \/ Leave
  \/ \E s \in Sessions : Cool(s) \/ Expire(s)

(* A request that arrived is answered, an answer is heard, time passes,    *)
(* and the visitor goes on: starts, enters the code of the last mail again *)
(* and again, and asks for another one when told that it is no good.       *)
GateFairness ==
  /\ \A r \in Reqs : WF_gateVars(Handler(r)) /\ WF_gateVars(Hear(r))
  /\ \A s \in Sessions : WF_gateVars(Cool(s))
  /\ WF_gateVars(\E r \in Reqs : Start(r))
  /\ SF_gateVars(\E r \in Reqs : Enter(r))
  /\ WF_gateVars(\E r \in Reqs : Needy /\ Resend(r))

GateSpec == GateInit /\ [][GateNext]_gateVars

GateFairSpec == GateSpec /\ GateFairness

----------------------------------------------------------------------------
(***************************************************************************)
(* Properties                                                              *)
(***************************************************************************)

(* A conversation has one greeting more at most for a request that went on *)
(* after it was given up; a lost answer, a code that is asked for again or *)
(* a repeated entry gives none (chat.routes.ts:67-73, 118-124, 153-160).   *)
GreetedOnce == \A s \in Sessions : greetings[s] <= 1 + adrift

(* A code is not replaced within its minute, while the visitor waits for   *)
(* its mail, unless a request went on after it was given up                *)
(* (chat.routes.ts:177, 194-204).                                          *)
NoCodeTooSoon ==
  [][\A s \in Sessions : s \in cooling /\ otp'[s] # otp[s] => s \in verified' \/ adrift > 0]_gateVars

(* Who goes on gets in, whatever expires, is mistyped or lost on the way.  *)
GetsIn == <>(phase = "chat")
=============================================================================
