------------------------------ MODULE SignIn -------------------------------
(***************************************************************************)
(* One administrator, in several browsers at once: the two steps of        *)
(* signing in, and the authenticator that is set up, turned on and turned  *)
(* off from the account page (auth.routes.ts, middleware/auth.ts, and the  *)
(* console's login and profile pages).                                     *)
(*                                                                         *)
(* Every handler reads the user's row and writes it in a later statement.  *)
(* A secret is a number in the order of making, 0 is none; a code is the   *)
(* secret it was made from.  A browser has at most one session, which is   *)
(* named after it.  The administrator knows the password throughout.       *)
(* Recovery codes are left out; no page asks for POST /logout, which ends  *)
(* a session as its expiry does.                                           *)
(***************************************************************************)
EXTENDS Naturals

CONSTANTS
  Browsers,
  CHALLENGE_MAX_ATTEMPTS,
  MaxSecrets,             \* bound on the secrets that are minted
  MaxTurns                \* bound on mails that fail, wrong codes, challenges
                          \* and sessions that end, passwords changed, in all

ASSUME SignInBoundsAssumption ==
  MaxSecrets \in Nat /\ MaxTurns \in Nat /\ CHALLENGE_MAX_ATTEMPTS \in Nat \ {0}

VARIABLES
  totpSecret, totpEnabled,  \* the user's row
  minted,                   \* secrets made so far
  sessions,                 \* admin_sessions
  challenge, attempts,      \* the challenge of each browser: none, live
  emailed, cooling,         \* challenges with a code in the mail; sent just now
  page,                     \* what each browser shows: the password, the code's
                            \* screen with the method of the login, or Account
  req, mail,                \* its request; its request for another mail
  phone,                    \* secrets that were scanned
  overtaken,                \* a handler wrote what another had changed
  turns

user == <<totpSecret, totpEnabled>>
challenges == <<challenge, attempts, emailed, cooling>>
signInVars == <<user, minted, sessions, challenges, page, req, mail, phone, overtaken, turns>>

NoReq == [kind |-> "none", step |-> "none", code |-> 0, secret |-> 0, enabled |-> FALSE]

SignInInit ==
  /\ totpSecret = 0 /\ totpEnabled = FALSE /\ minted = 0
  /\ sessions = {} /\ challenge = {}
  /\ attempts = [b \in Browsers |-> 0]
  /\ emailed = {} /\ cooling = {}
  /\ page = [b \in Browsers |-> "password"]
  /\ req = [b \in Browsers |-> NoReq] /\ mail = [b \in Browsers |-> "none"]
  /\ phone = {} /\ overtaken = FALSE /\ turns = 0

Turn == turns < MaxTurns /\ turns' = turns + 1

----------------------------------------------------------------------------
(* The pages.  Each has one request at a time, and one for a mail.         *)

CodePages == {"totp", "email"}

Account == {"off", "on", "setup"}

EmailCode == MaxSecrets + 1  \* the code of the mail

NoCode == MaxSecrets + 2     \* a typing error

Ask(b, kind, code) ==
  /\ req[b] = NoReq
  /\ req' = [req EXCEPT ![b] = [NoReq EXCEPT !.kind = kind, !.step = "arriving", !.code = code]]
  /\ UNCHANGED <<user, minted, sessions, challenges, page, mail, phone, overtaken>>

SubmitPassword(b) == page[b] = "password" /\ Ask(b, "login", 0) /\ UNCHANGED turns

(* The code of the last mail; one that an app shows, or a typing error.    *)
SubmitEmailed(b) ==
  /\ page[b] \in CodePages /\ b \in emailed
  /\ Ask(b, "verify", EmailCode) /\ UNCHANGED turns

SubmitShown(b) ==
  /\ page[b] \in CodePages
  /\ \E s \in phone \cup {NoCode} : Ask(b, "verify", s)
  /\ IF b \in challenge THEN Turn ELSE UNCHANGED turns

(* Email me a code instead: shown to who has an authenticator.             *)
EmailACode(b) ==
  /\ page[b] = "totp" /\ mail[b] = "none"
  /\ mail' = [mail EXCEPT ![b] = "arriving"]
  /\ UNCHANGED <<user, minted, sessions, challenges, page, req, phone, overtaken, turns>>

(* No code can come of the screen any more, or none has been mailed.       *)
Stuck(b) == b \notin challenge \/ (page[b] = "email" /\ b \notin emailed)

(* Start again: at any time, also while an answer is awaited.              *)
StartAgain(b) ==
  /\ page[b] \in CodePages
  /\ page' = [page EXCEPT ![b] = "password"]
  /\ IF Stuck(b) THEN UNCHANGED turns ELSE Turn
  /\ UNCHANGED <<user, minted, sessions, challenges, req, mail, phone, overtaken>>

(* The account page, as it was loaded: off, on, or showing a secret.       *)
StartSetup(b) == page[b] = "off" /\ minted < MaxSecrets /\ Ask(b, "setup", 0) /\ UNCHANGED turns

ConfirmSetup(b) ==
  /\ page[b] = "setup"
  /\ \E s \in phone : Ask(b, "enable", s)
  /\ UNCHANGED turns

DisableMfa(b) == page[b] = "on" /\ Ask(b, "disable", 0) /\ Turn

ChangePassword(b) == page[b] \in Account /\ Ask(b, "change", 0) /\ Turn

Reload(b) == page[b] \in Account /\ Ask(b, "load", 0) /\ UNCHANGED turns

----------------------------------------------------------------------------
(* The handlers.                                                           *)

At(b, kind, step) == req[b].kind = kind /\ req[b].step = step

Step(b, step) == req' = [req EXCEPT ![b].step = step]

Done(b, shown) ==
  /\ req' = [req EXCEPT ![b] = NoReq]
  /\ page' = [page EXCEPT ![b] = shown]

LoadNext(b) == req' = [req EXCEPT ![b] = [NoReq EXCEPT !.kind = "load", !.step = "arriving"]]

Enrolled == totpEnabled /\ totpSecret # 0

(* POST /login: the challenge; without an authenticator a code is mailed.  *)
(* A mail that is under way for the last one no longer matters.            *)
Login(b) ==
  /\ At(b, "login", "arriving")
  /\ challenge' = challenge \cup {b}
  /\ attempts' = [attempts EXCEPT ![b] = 0]
  /\ emailed' = emailed \ {b} /\ cooling' = cooling \ {b}
  /\ mail' = [mail EXCEPT ![b] = IF @ = "none" THEN @ ELSE "stray"]
  /\ IF Enrolled THEN Done(b, "totp") ELSE Step(b, "mailing") /\ UNCHANGED page
  /\ UNCHANGED <<user, minted, sessions, phone, overtaken, turns>>

(* sendChallengeEmail: the code is stored, then mailed.                    *)
SendChallengeEmail(b) ==
  /\ \/ b \in challenge
        /\ emailed' = emailed \cup {b} /\ UNCHANGED turns
        /\ cooling' = cooling \cup {b}
     \/ b \in challenge
        /\ emailed' = emailed \ {b} /\ Turn
        /\ cooling' = cooling \cup {b}
     \/ b \notin challenge /\ UNCHANGED <<emailed, cooling, turns>>
  /\ UNCHANGED <<user, minted, sessions, challenge, attempts, phone, overtaken>>

MailAtLogin(b) ==
  /\ req[b].step = "mailing"
  /\ SendChallengeEmail(b)
  /\ Done(b, "email") /\ UNCHANGED mail

MailEnds(b) == mail' = [mail EXCEPT ![b] = "none"] /\ UNCHANGED <<page, req>>

(* Slip: no mail for who has an authenticator.                             *)
SendEmailUnlessEnrolled(b) ==
  /\ mail[b] = "arriving"
  /\ mail' = [mail EXCEPT ![b] = IF b \notin challenge \/ b \in cooling \/ Enrolled
                                 THEN "none" ELSE "mailing"]
  /\ UNCHANGED <<user, minted, sessions, challenges, page, req, phone, overtaken, turns>>

(* POST /mfa/send-email, for a challenge that is live.                     *)
SendEmail(b) ==
  /\ mail[b] = "arriving"
  /\ mail' = [mail EXCEPT ![b] = IF b \notin challenge \/ b \in cooling THEN "none" ELSE "mailing"]
  /\ UNCHANGED <<user, minted, sessions, challenges, page, req, phone, overtaken, turns>>

MailAgain(b) == mail[b] = "mailing" /\ SendChallengeEmail(b) /\ MailEnds(b)

MailStray(b) ==
  /\ mail[b] = "stray"
  /\ MailEnds(b)
  /\ UNCHANGED <<user, minted, sessions, challenges, phone, overtaken, turns>>

(* A challenge ends, and with it what its row holds.                       *)
End(b) ==
  /\ challenge' = challenge \ {b} /\ attempts' = [attempts EXCEPT ![b] = 0]
  /\ emailed' = emailed \ {b} /\ cooling' = cooling \ {b}

Accepts(b) ==
  \/ Enrolled /\ req[b].code = totpSecret
  \/ b \in emailed /\ req[b].code = EmailCode

(* POST /mfa/verify, up to what follows from the row that was read.        *)
Verify(b) ==
  /\ At(b, "verify", "arriving")
  /\ \/ /\ b \notin challenge
        /\ Done(b, "password")
        /\ UNCHANGED challenges
     \/ /\ b \in challenge /\ attempts[b] >= CHALLENGE_MAX_ATTEMPTS
        /\ End(b)
        /\ Done(b, "password")
     \/ /\ b \in challenge /\ attempts[b] < CHALLENGE_MAX_ATTEMPTS
        /\ Step(b, IF Accepts(b) THEN "opening" ELSE "counting")
        /\ UNCHANGED <<challenges, page>>
  /\ UNCHANGED <<user, minted, sessions, mail, phone, overtaken, turns>>

CountAttempt(b) ==
  /\ req[b].step = "counting"
  /\ attempts' = [attempts EXCEPT ![b] = IF b \in challenge THEN @ + 1 ELSE @]
  /\ Done(b, page[b])
  /\ UNCHANGED <<user, minted, sessions, challenge, emailed, cooling, mail, phone, overtaken, turns>>

(* The session, and the console that opens.                                *)
IssueSession(b) ==
  /\ req[b].step = "opening"
  /\ End(b)
  /\ sessions' = sessions \cup {b}
  /\ LoadNext(b)
  /\ UNCHANGED <<user, minted, page, mail, phone, overtaken, turns>>

(* GET /me: a session that has ended leads to the login page.              *)
Load(b) ==
  /\ At(b, "load", "arriving")
  /\ Done(b, IF b \notin sessions THEN "password" ELSE IF totpEnabled THEN "on" ELSE "off")
  /\ UNCHANGED <<user, minted, sessions, challenges, mail, phone, overtaken, turns>>

(* requireAuth, for the account's requests: the page shows the refusal.    *)
RequireAuth(b) ==
  /\ req[b].kind \in {"setup", "enable", "disable", "change"} /\ req[b].step = "arriving"
  /\ IF b \in sessions THEN Step(b, "reading") /\ UNCHANGED page ELSE Done(b, page[b])
  /\ UNCHANGED <<user, minted, sessions, challenges, mail, phone, overtaken, turns>>

Read(b, step) ==
  req' = [req EXCEPT ![b].step = step, ![b].secret = totpSecret, ![b].enabled = totpEnabled]

Overtake(b) ==
  overtaken' = (overtaken \/ req[b].secret # totpSecret \/ req[b].enabled # totpEnabled)

(* Slip: an authenticator in use may be replaced.                          *)
ReadForSetupAlways(b) ==
  /\ At(b, "setup", "reading")
  /\ Read(b, "writing") /\ UNCHANGED page
  /\ UNCHANGED <<user, minted, sessions, challenges, mail, phone, overtaken, turns>>

ReadForSetup(b) ==
  /\ At(b, "setup", "reading")
  /\ IF totpEnabled THEN Done(b, page[b]) ELSE Read(b, "writing") /\ UNCHANGED page
  /\ UNCHANGED <<user, minted, sessions, challenges, mail, phone, overtaken, turns>>

Setup(b) ==
  /\ At(b, "setup", "writing")
  /\ minted < MaxSecrets
  /\ minted' = minted + 1 /\ totpSecret' = minted + 1
  /\ req' = [req EXCEPT ![b].step = "answered", ![b].code = minted + 1]
  /\ Overtake(b)
  /\ UNCHANGED <<totpEnabled, sessions, challenges, page, mail, phone, turns>>

(* The code on the account page is scanned, or is not.                     *)
ShowSetup(b) ==
  /\ At(b, "setup", "answered")
  /\ phone' \in {phone, phone \cup {req[b].code}}
  /\ Done(b, "setup")
  /\ UNCHANGED <<user, minted, sessions, challenges, mail, overtaken, turns>>

ReadForEnable(b) ==
  /\ At(b, "enable", "reading")
  /\ IF totpSecret # 0 /\ req[b].code = totpSecret
       THEN Read(b, "writing") /\ UNCHANGED page
       ELSE Done(b, page[b])
  /\ UNCHANGED <<user, minted, sessions, challenges, mail, phone, overtaken, turns>>

Enable(b) ==
  /\ At(b, "enable", "writing")
  /\ totpEnabled' = TRUE
  /\ LoadNext(b)
  /\ Overtake(b)
  /\ UNCHANGED <<totpSecret, minted, sessions, challenges, page, mail, phone, turns>>

ReadForDisable(b) ==
  /\ At(b, "disable", "reading")
  /\ Read(b, "writing")
  /\ UNCHANGED <<user, minted, sessions, challenges, page, mail, phone, overtaken, turns>>

Disable(b) ==
  /\ At(b, "disable", "writing")
  /\ totpSecret' = 0 /\ totpEnabled' = FALSE
  /\ LoadNext(b)
  /\ Overtake(b)
  /\ UNCHANGED <<minted, sessions, challenges, page, mail, phone, turns>>

(* The other sessions go with the old password.                            *)
Change(b) ==
  /\ At(b, "change", "reading")
  /\ sessions' = sessions \cap {b}
  /\ Done(b, page[b])
  /\ UNCHANGED <<user, minted, challenges, mail, phone, overtaken, turns>>

----------------------------------------------------------------------------
(* Time: a minute, five minutes, eight hours.                              *)
Cool(b) ==
  /\ b \in cooling
  /\ cooling' = cooling \ {b}
  /\ UNCHANGED <<user, minted, sessions, challenge, attempts, emailed, page, req, mail, phone, overtaken, turns>>

Expire(b) ==
  /\ b \in challenge
  /\ Turn
  /\ End(b)
  /\ UNCHANGED <<user, minted, sessions, page, req, mail, phone, overtaken>>

SessionEnds(b) ==
  /\ b \in sessions
  /\ Turn
  /\ sessions' = sessions \ {b}
  /\ UNCHANGED <<user, minted, challenges, page, req, mail, phone, overtaken>>

----------------------------------------------------------------------------
Handler(b) ==
  \/ Login(b) \/ MailAtLogin(b)
  \/ Verify(b) \/ CountAttempt(b) \/ IssueSession(b)
  \/ Load(b) \/ RequireAuth(b) \/ ReadForSetup(b) \/ Setup(b) \/ ShowSetup(b)
  \/ ReadForEnable(b) \/ Enable(b) \/ ReadForDisable(b) \/ Disable(b)
  \/ Change(b)

Mailer(b) == SendEmail(b) \/ MailAgain(b) \/ MailStray(b)

Form(b) ==
  \/ SubmitPassword(b) \/ SubmitEmailed(b) \/ SubmitShown(b) \/ EmailACode(b) \/ StartAgain(b)
  \/ StartSetup(b) \/ ConfirmSetup(b) \/ DisableMfa(b) \/ ChangePassword(b) \/ Reload(b)

SignInNext ==
  \E b \in Browsers :
    Form(b) \/ Handler(b) \/ Mailer(b) \/ Cool(b) \/ Expire(b) \/ SessionEnds(b)

SignInSpec == SignInInit /\ [][SignInNext]_signInVars

(* Requests are answered, time passes, and the administrator insists: the  *)
(* password again, another mail where it is offered, the code of the mail  *)
(* when there is one, and Start again when none was mailed or the attempt  *)
(* has expired.                                                            *)
SignInFairness ==
  \A b \in Browsers :
    /\ WF_signInVars(Handler(b)) /\ WF_signInVars(Mailer(b)) /\ WF_signInVars(Cool(b))
    /\ WF_signInVars(SubmitPassword(b))
    /\ SF_signInVars(b \notin emailed /\ b \notin cooling /\ EmailACode(b))
    /\ SF_signInVars(SubmitEmailed(b))
    /\ WF_signInVars(Stuck(b) /\ StartAgain(b))

SignInFairSpec == SignInSpec /\ SignInFairness

----------------------------------------------------------------------------
(***************************************************************************)
(* Properties                                                              *)
(***************************************************************************)

(* The authenticator in use is one that was scanned, unless two handlers   *)
(* overlapped: "an abandoned enrolment never becomes a factor nobody can   *)
(* satisfy" (schema.prisma:630-632) but when the setup of another window   *)
(* stores its secret between the check of a code and the statement that    *)
(* turns the authenticator on (auth.routes.ts:331, 349-362).               *)
FactorIsHeld == totpEnabled => totpSecret \in phone \/ overtaken

(* The administrator gets in, whatever expires, is mistyped or not mailed, *)
(* and without a code of the authenticator's app (auth.routes.ts:139,      *)
(* 170-173, 190-192; login/page.tsx:208-235).                              *)
GetsIn == \A b \in Browsers : <>(page[b] \in Account)
=============================================================================
