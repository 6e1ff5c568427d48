-------------------------------- MODULE Chat --------------------------------
(***************************************************************************)
(* One verified live chat conversation: apps/api/src/routes/chat.routes.ts *)
(* (/message, /escalate, /close, /:id/messages, /teams-reply, doEscalate,  *)
(* syncTeamsReplies), the admin console's reply (admin.routes.ts) and the  *)
(* delivery to Teams (services/teams.service.ts).  Conversations share no  *)
(* state, so one is enough.                                                *)
(*                                                                         *)
(* An asker is one run of /message or of /escalate.  Both may end in       *)
(* doEscalate, whose claim, UPDATE ... WHERE status = 'BOT', lets one of   *)
(* them raise the conversation with the team.  Every await that reads or   *)
(* writes what is modelled is a boundary between actions.  The message log *)
(* is left out, but for the copies of replies from Teams: handlers write   *)
(* to it and decide nothing by it, so that such a write belongs to the     *)
(* step before or after it.  A database call that commits and then loses   *)
(* its answer leaves what the failure of the next call leaves, and is not  *)
(* modelled apart.                                                         *)
(*                                                                         *)
(* A widget starts a poll every few seconds and does not wait for the one  *)
(* before (ChatWidget.tsx:154).  So a poller is not a widget: polls under  *)
(* way at once are in different places, whether they are of one widget or  *)
(* of several, and a place is used again when its poll has ended.          *)
(***************************************************************************)
EXTENDS Naturals, FiniteSets

CONSTANTS
  Messages,  \* runs of POST /message
  Buttons,   \* runs of POST /escalate
  Closes,    \* runs of POST /close
  Agents,    \* replies an agent sends by /teams-reply or the admin console
  Pollers,   \* places for runs of GET /:id/messages that are under way at once
  Replies,   \* replies people write in the Teams thread
  NoThread,  \* no thread id
  MaxFaults  \* failures of the database, of Teams, of mail, of the process

ASSUME FaultsAssumption == MaxFaults \in Nat
ASSUME FiniteAssumption == IsFiniteSet(Pollers)

Askers == Messages \cup Buttons

ASSUME NoThreadAssumption == NoThread \notin Askers

VARIABLES
  status,            \* the session's status
  teamsThreadId,     \* that column: the asker whose card began the thread, or NoThread
  incidentNotified,  \* whether incidentNotifiedAt is set
  copies,            \* AGENT messages copied from each reply of the thread
  pc,                \* where each asker's handler stands
  hasAnswer,         \* askers that escalate with an answer of the assistant
  outcome,           \* what escalateToTeams returned to each asker
  cards,             \* escalation cards in Teams: the asker and the transport
  incidentCards,     \* messages whose incident card reached Teams
  thread,            \* <<reply, asker>>: replies written under the asker's card
  cpc,               \* where each /close handler stands
  gpc,               \* where each agent's reply stands
  ppc,               \* where each poll stands
  fetched,           \* the replies the poll fetched
  known,             \* those of them it takes for copied
  faults             \* failures so far

row   == <<status, teamsThreadId, incidentNotified>>
ask   == <<pc, hasAnswer, outcome>>
teams == <<cards, incidentCards, thread>>
poll  == <<ppc, fetched, known>>
vars  == <<row, copies, ask, teams, cpc, gpc, poll, faults>>

----------------------------------------------------------------------------
ChatStatus == {"BOT", "WAITING_HUMAN", "HUMAN", "CLOSED"}

(* Between the claim and the end of doEscalate.                            *)
HolderSteps == {"recording", "posting", "telling", "threading", "releasing"}

AskerSteps ==
  {"idle", "flagging", "notifying", "answering", "escalating", "claiming", "done", "stranded"}
    \cup HolderSteps

Outcomes == {"none", "threaded", "delivered", "undelivered"}

TypeOK ==
  /\ status \in ChatStatus
  /\ teamsThreadId \in Askers \cup {NoThread}
  /\ incidentNotified \in BOOLEAN
  /\ copies \in [Replies -> Nat]
  /\ pc \in [Askers -> AskerSteps]
  /\ hasAnswer \subseteq Messages
  /\ outcome \in [Askers -> Outcomes]
  /\ cards \subseteq Askers \X {"graph", "webhook"}
  /\ incidentCards \subseteq Messages
  /\ thread \subseteq Replies \X Askers
  /\ cpc \in [Closes -> {"idle", "closing", "done"}]
  /\ gpc \in [Agents -> {"idle", "done"}]
  /\ ppc \in [Pollers -> {"idle", "fetching", "reading", "copying"}]
  /\ fetched \in [Pollers -> SUBSET Replies]
  /\ known \in [Pollers -> SUBSET Replies]
  /\ faults \in Nat

Init ==
  /\ status = "BOT"
  /\ teamsThreadId = NoThread
  /\ incidentNotified = FALSE
  /\ copies = [r \in Replies |-> 0]
  /\ pc = [a \in Askers |-> "idle"]
  /\ hasAnswer = {}
  /\ outcome = [a \in Askers |-> "none"]
  /\ cards = {}
  /\ incidentCards = {}
  /\ thread = {}
  /\ cpc = [c \in Closes |-> "idle"]
  /\ gpc = [g \in Agents |-> "idle"]
  /\ ppc = [p \in Pollers |-> "idle"]
  /\ fetched = [p \in Pollers |-> {}]
  /\ known = [p \in Pollers |-> {}]
  /\ faults = 0

----------------------------------------------------------------------------
Goto(a, step) == pc' = [pc EXCEPT ![a] = step]

CloseGoto(c, step) == cpc' = [cpc EXCEPT ![c] = step]

PollGoto(p, step) == ppc' = [ppc EXCEPT ![p] = step]

Fault ==
  /\ faults < MaxFaults
  /\ faults' = faults + 1

WithHuman(s) == s \in {"WAITING_HUMAN", "HUMAN"}

----------------------------------------------------------------------------
(* POST /message.                                                          *)

(* The visitor's message is recorded.  What follows rests on the status    *)
(* read before that: with a human, nothing; else the message is an         *)
(* incident, a wish for a human, or a question.                            *)
Receive(m) ==
  /\ pc[m] = "idle"
  /\ \/ status = "BOT" /\ \E step \in {"flagging", "escalating", "answering"} : Goto(m, step)
     \/ status # "BOT" /\ Goto(m, "done")
  /\ UNCHANGED <<row, copies, hasAnswer, outcome, teams, cpc, gpc, poll, faults>>

(* updateMany where incidentNotifiedAt is null; the first one notifies.    *)
FlagIncident(m) ==
  /\ pc[m] = "flagging"
  /\ incidentNotified' = TRUE
  /\ Goto(m, IF incidentNotified THEN "done" ELSE "notifying")
  /\ UNCHANGED <<status, teamsThreadId, copies, hasAnswer, outcome, teams, cpc, gpc,
                 poll, faults>>

NotifyIncident(m) ==
  /\ pc[m] = "notifying"
  /\ incidentCards' = incidentCards \cup {m}
  /\ Goto(m, "done")
  /\ UNCHANGED <<row, copies, hasAnswer, outcome, cards, thread, cpc, gpc, poll, faults>>

(* The failure is logged; the flag stays set.                              *)
NotifyIncidentFails(m) ==
  /\ pc[m] = "notifying"
  /\ Fault
  /\ Goto(m, "done")
  /\ UNCHANGED <<row, copies, hasAnswer, outcome, teams, cpc, gpc, poll>>

(* answerQuestion never throws: any failure of it asks for a human.        *)
Answer(m) ==
  /\ pc[m] = "answering"
  /\ \/ Goto(m, "done") /\ UNCHANGED hasAnswer
     \/ Goto(m, "escalating") /\ hasAnswer' = hasAnswer \cup {m}
  /\ UNCHANGED <<row, copies, outcome, teams, cpc, gpc, poll, faults>>

----------------------------------------------------------------------------
(* POST /escalate, without the name and email it may carry.                *)
Press(b) ==
  /\ pc[b] = "idle"
  /\ Goto(b, "escalating")
  /\ UNCHANGED <<row, copies, hasAnswer, outcome, teams, cpc, gpc, poll, faults>>

(* doEscalate.                                                             *)

EscalateRead(a) ==
  /\ pc[a] = "escalating"
  /\ Goto(a, IF status = "CLOSED" THEN "done" ELSE "claiming")
  /\ hasAnswer' = IF status = "CLOSED" THEN hasAnswer \ {a} ELSE hasAnswer
  /\ UNCHANGED <<row, copies, outcome, teams, cpc, gpc, poll, faults>>

(* updateMany where status is BOT; a count of 0 only tells the visitor.    *)
Claim(a) ==
  /\ pc[a] = "claiming"
  /\ IF status = "BOT"
       THEN /\ status' = "WAITING_HUMAN"
            /\ Goto(a, IF a \in hasAnswer THEN "recording" ELSE "posting")
       ELSE Goto(a, "done") /\ UNCHANGED status
  /\ hasAnswer' = hasAnswer \ {a}
  /\ UNCHANGED <<teamsThreadId, incidentNotified, copies, outcome, teams, cpc, gpc, poll,
                 faults>>

RecordAnswer(a) ==
  /\ pc[a] = "recording"
  /\ Goto(a, "posting")
  /\ UNCHANGED <<row, copies, hasAnswer, outcome, teams, cpc, gpc, poll, faults>>

(* Graph posts the card and names its thread, or, where application posts  *)
(* are refused or not set up, the webhook posts it.                        *)
Post(a) ==
  /\ pc[a] = "posting"
  /\ \/ /\ cards' = cards \cup {<<a, "graph">>}
        /\ outcome' = [outcome EXCEPT ![a] = "threaded"]
     \/ /\ cards' = cards \cup {<<a, "webhook">>}
        /\ outcome' = [outcome EXCEPT ![a] = "delivered"]
  /\ Goto(a, "telling")
  /\ UNCHANGED <<row, copies, hasAnswer, incidentCards, thread, cpc, gpc, poll, faults>>

(* A post fails, or succeeds and its answer is lost.  After a failure of   *)
(* Graph the webhook is tried.  Teams not being set up at all is the case  *)
(* in which every post fails.                                              *)
PostFails(a) ==
  /\ pc[a] = "posting"
  /\ Fault
  /\ \/ /\ cards' = cards \cup {<<a, "graph">>, <<a, "webhook">>}
        /\ outcome' = [outcome EXCEPT ![a] = "delivered"]
     \/ /\ \E lost \in SUBSET {<<a, "graph">>, <<a, "webhook">>} : cards' = cards \cup lost
        /\ outcome' = [outcome EXCEPT ![a] = "undelivered"]
  /\ Goto(a, "telling")
  /\ UNCHANGED <<row, copies, hasAnswer, incidentCards, thread, cpc, gpc, poll>>

(* Slip: whatever has no thread id is released.                            *)
TellThreadedOnly(a) ==
  /\ pc[a] = "telling"
  /\ Goto(a, IF outcome[a] = "threaded" THEN "threading" ELSE "releasing")
  /\ UNCHANGED <<row, copies, hasAnswer, outcome, teams, cpc, gpc, poll, faults>>

(* Slip: an escalation that reached nobody is left as it is.               *)
TellOnly(a) ==
  /\ pc[a] = "telling"
  /\ Goto(a, IF outcome[a] = "threaded" THEN "threading" ELSE "done")
  /\ UNCHANGED <<row, copies, hasAnswer, outcome, teams, cpc, gpc, poll, faults>>

(* The visitor is told what became of it.                                  *)
Tell(a) ==
  /\ pc[a] = "telling"
  /\ Goto(a, CASE outcome[a] = "threaded" -> "threading"
               [] outcome[a] = "delivered" -> "done"
               [] OTHER -> "releasing")
  /\ UNCHANGED <<row, copies, hasAnswer, outcome, teams, cpc, gpc, poll, faults>>

SetThread(a) ==
  /\ pc[a] = "threading"
  /\ teamsThreadId' = a
  /\ Goto(a, "done")
  /\ UNCHANGED <<status, incidentNotified, copies, hasAnswer, outcome, teams, cpc, gpc,
                 poll, faults>>

(* Nobody was reached: back to BOT, whatever the status is by now.         *)
Release(a) ==
  /\ pc[a] = "releasing"
  /\ status' = "BOT"
  /\ Goto(a, "done")
  /\ UNCHANGED <<teamsThreadId, incidentNotified, copies, hasAnswer, outcome, teams,
                 cpc, gpc, poll, faults>>

(* A database call of the handler rejects, perhaps the claim after it has  *)
(* committed, and with it the handler.  What it holds is let go by nobody. *)
AskerFails(a) ==
  /\ pc[a] \in {"flagging", "escalating", "claiming"} \cup HolderSteps
  /\ Fault
  /\ Goto(a, IF pc[a] \in HolderSteps THEN "stranded" ELSE "done")
  /\ hasAnswer' = hasAnswer \ {a}
  /\ UNCHANGED <<row, copies, outcome, teams, cpc, gpc, poll>>

----------------------------------------------------------------------------
(* POST /close.                                                            *)

CloseRead(c) ==
  /\ cpc[c] = "idle"
  /\ CloseGoto(c, IF status = "CLOSED" THEN "done" ELSE "closing")
  /\ UNCHANGED <<row, copies, ask, teams, gpc, poll, faults>>

(* Closed.  The mail with the transcript that follows leaves no trace in   *)
(* the row, and its failure does not fail the close.                       *)
CloseWrite(c) ==
  /\ cpc[c] = "closing"
  /\ status' = "CLOSED"
  /\ CloseGoto(c, "done")
  /\ UNCHANGED <<teamsThreadId, incidentNotified, copies, ask, teams, gpc, poll, faults>>

CloseFails(c) ==
  /\ cpc[c] = "closing"
  /\ Fault
  /\ CloseGoto(c, "done")
  /\ UNCHANGED <<row, copies, ask, teams, gpc, poll>>

----------------------------------------------------------------------------
(* An agent's reply, by /teams-reply or POST /admin/chat/:id/reply: HUMAN, *)
(* whatever the status is.                                                 *)
AgentReplies(g) ==
  /\ gpc[g] = "idle"
  /\ status' = "HUMAN"
  /\ gpc' = [gpc EXCEPT ![g] = "done"]
  /\ UNCHANGED <<teamsThreadId, incidentNotified, copies, ask, teams, cpc, poll, faults>>

(* Somebody writes in the thread of a card that Graph posted.              *)
WriteInThread(r) ==
  /\ \A a \in Askers : <<r, a>> \notin thread
  /\ \E a \in Askers :
       /\ <<a, "graph">> \in cards
       /\ thread' = thread \cup {<<r, a>>}
  /\ UNCHANGED <<row, copies, ask, cards, incidentCards, cpc, gpc, poll, faults>>

----------------------------------------------------------------------------
(* GET /:id/messages with syncTeamsReplies.                                *)

(* Slip: replies are pulled only until the first one came.                 *)
PollWhileWaiting(p) ==
  /\ ppc[p] = "idle"
  /\ teamsThreadId # NoThread /\ status = "WAITING_HUMAN"
  /\ PollGoto(p, "fetching")
  /\ UNCHANGED <<row, copies, ask, teams, cpc, gpc, fetched, known, faults>>

Poll(p) ==
  /\ ppc[p] = "idle"
  /\ teamsThreadId # NoThread /\ WithHuman(status)
  /\ PollGoto(p, "fetching")
  /\ UNCHANGED <<row, copies, ask, teams, cpc, gpc, fetched, known, faults>>

InThread == {r \in Replies : <<r, teamsThreadId>> \in thread}

(* A thread id, once set, is never replaced (ThreadIsKept), so the one the *)
(* poll read is the one in the row.                                        *)
Fetch(p) ==
  /\ ppc[p] = "fetching"
  /\ fetched' = [fetched EXCEPT ![p] = InThread]
  /\ PollGoto(p, IF InThread = {} THEN "idle" ELSE "reading")
  /\ UNCHANGED <<row, copies, ask, teams, cpc, gpc, known, faults>>

(* The AGENT messages that are there already.                              *)
ReadCopies(p) ==
  /\ ppc[p] = "reading"
  /\ known' = [known EXCEPT ![p] = {r \in Replies : copies[r] > 0}]
  /\ PollGoto(p, "copying")
  /\ UNCHANGED <<row, copies, ask, teams, cpc, gpc, fetched, faults>>

(* One message is created after the other.                                 *)
Copy(p) ==
  /\ ppc[p] = "copying"
  /\ \E r \in fetched[p] \ known[p] :
       /\ copies' = [copies EXCEPT ![r] = @ + 1]
       /\ known' = [known EXCEPT ![p] = @ \cup {r}]
  /\ UNCHANGED <<row, ask, teams, cpc, gpc, ppc, fetched, faults>>

(* At the end the session is HUMAN, whatever it was.                       *)
MarkHuman(p) ==
  /\ ppc[p] = "copying"
  /\ fetched[p] \subseteq known[p]
  /\ status' = "HUMAN"
  /\ PollGoto(p, "idle")
  /\ fetched' = [fetched EXCEPT ![p] = {}]
  /\ known' = [known EXCEPT ![p] = {}]
  /\ UNCHANGED <<teamsThreadId, incidentNotified, copies, ask, teams, cpc, gpc, faults>>

(* Caught and logged; the next poll starts over.                           *)
PollFails(p) ==
  /\ ppc[p] # "idle"
  /\ Fault
  /\ PollGoto(p, "idle")
  /\ fetched' = [fetched EXCEPT ![p] = {}]
  /\ known' = [known EXCEPT ![p] = {}]
  /\ UNCHANGED <<row, copies, ask, teams, cpc, gpc>>

----------------------------------------------------------------------------
Crash ==
  /\ Fault
  /\ pc' = [a \in Askers |-> CASE pc[a] = "idle" -> "idle"
                              [] pc[a] \in HolderSteps \cup {"stranded"} -> "stranded"
                              [] OTHER -> "done"]
  /\ hasAnswer' = {}
  /\ cpc' = [c \in Closes |-> IF cpc[c] = "closing" THEN "done" ELSE cpc[c]]
  /\ ppc' = [p \in Pollers |-> "idle"]
  /\ fetched' = [p \in Pollers |-> {}]
  /\ known' = [p \in Pollers |-> {}]
  /\ UNCHANGED <<row, copies, outcome, teams, gpc>>

MessageStep(m) == FlagIncident(m) \/ NotifyIncident(m) \/ Answer(m)

EscalateStep(a) ==
  \/ EscalateRead(a) \/ Claim(a) \/ RecordAnswer(a) \/ Post(a)
  \/ Tell(a) \/ SetThread(a) \/ Release(a)

(* A poll that has begun.                                                  *)
SyncStep(p) == Fetch(p) \/ ReadCopies(p) \/ Copy(p) \/ MarkHuman(p)

Next ==
  \/ \E m \in Messages : Receive(m) \/ MessageStep(m) \/ NotifyIncidentFails(m)
  \/ \E b \in Buttons : Press(b)
  \/ \E a \in Askers : EscalateStep(a) \/ PostFails(a) \/ AskerFails(a)
  \/ \E c \in Closes : CloseRead(c) \/ CloseWrite(c) \/ CloseFails(c)
  \/ \E g \in Agents : AgentReplies(g)
  \/ \E r \in Replies : WriteInThread(r)
  \/ \E p \in Pollers : Poll(p) \/ SyncStep(p) \/ PollFails(p)
  \/ Crash

(* Handlers and polls under way go on, and an open widget begins polls over*)
(* and over, in whichever place.                                           *)
Fairness ==
  /\ \A m \in Messages : WF_vars(MessageStep(m))
  /\ \A a \in Askers : WF_vars(EscalateStep(a))
  /\ \A p \in Pollers : WF_vars(SyncStep(p))
  /\ WF_vars(\E p \in Pollers : Poll(p))

Spec == Init /\ [][Next]_vars

FairSpec == Spec /\ Fairness

----------------------------------------------------------------------------
(***************************************************************************)
(* Properties                                                              *)
(***************************************************************************)

Holds(a) == pc[a] \in HolderSteps

(* At most one asker at a time is handing the conversation over, however   *)
(* double clicks, tabs, retries, replies of agents and closes interleave   *)
(* with its calls (chat.routes.ts:576).                                    *)
OneHandoffAtATime ==
  \A a, b \in Askers : Holds(a) /\ Holds(b) => a = b

(* Two askers have cards in Teams only when the first was told that its    *)
(* card was not delivered (chat.routes.ts:583).                            *)
SecondCardNeedsALostOne ==
  \A a, b \in Askers : \A s, t \in {"graph", "webhook"} :
    a # b /\ <<a, s>> \in cards /\ <<b, t>> \in cards =>
      "undelivered" \in {outcome[a], outcome[b]}

(* A conversation that waits for a human has a card in Teams, or a handler *)
(* at work on it, or one that died half way.                               *)
WaitingIsKnown ==
  status = "WAITING_HUMAN" =>
    \/ cards # {}
    \/ \E a \in Askers : Holds(a) \/ pc[a] = "stranded"

(* A conversation goes from a human, or from its end, back to the          *)
(* assistant only by the release of a failed handoff, and never back to    *)
(* waiting.                                                                *)
TakenBackByReleaseOnly ==
  [][(status \in {"HUMAN", "CLOSED"} /\ status' \in {"BOT", "WAITING_HUMAN"}) =>
       (status' = "BOT" /\ \E a \in Askers : pc[a] = "releasing" /\ pc'[a] = "done")]_vars

(* The thread the conversation was handed to is never replaced by another  *)
(* one, whose replies the widget would then show in its stead.             *)
ThreadIsKept ==
  [][teamsThreadId # NoThread => teamsThreadId' = teamsThreadId]_vars

(* One incident card for a conversation, however many messages say it is   *)
(* down (chat.routes.ts:274).                                              *)
OneIncidentCard == \A m, n \in incidentCards : m = n

(* A reply of the thread is copied at most as often as polls, of one widget*)
(* or of several, are ever under way at once: only polls that overlap may  *)
(* each copy it, which chat.routes.ts:649 ("idempotently") does not expect.*)
CopiesBounded == \A r \in Replies : copies[r] <= Cardinality(Pollers)

(* A reply in the thread of a conversation that is with a human reaches    *)
(* the message log while some widget polls, also after the first reply,    *)
(* unless the conversation leaves human hands.                             *)
ReplyReachesLog ==
  \A r \in Replies :
    (<<r, teamsThreadId>> \in thread /\ WithHuman(status)) ~>
      (copies[r] > 0 \/ status \in {"BOT", "CLOSED"})

----------------------------------------------------------------------------
(* Who has the conversation, of which all this keeps track.                *)
Party == CASE status = "BOT" -> "assistant"
           [] status = "CLOSED" -> "ended"
           [] OTHER -> "team"

Holders == {a \in Askers : Holds(a)}

Reached == \E a \in Askers : outcome[a] \in {"threaded", "delivered"} /\ ~Holds(a)

CustodyOf == INSTANCE Custody WITH party <- Party, holders <- Holders, reached <- Reached

(* Whatever overlaps, fails or dies, the conversation passes from hand to  *)
(* hand as Custody says: once the team was told, nobody claims it or gives *)
(* it back to the assistant (chat.routes.ts:576-585, 639-645).             *)
KeepsCustody == CustodyOf!Spec
=============================================================================
