---------------------------- MODULE ChatWidget ------------------------------
(***************************************************************************)
(* What the visitor sees of a conversation: the widget (ChatWidget.tsx,    *)
(* chatMessages.ts), which shows its own copies of what it sent and was    *)
(* answered, loads the log when it opens and, while a person is involved,  *)
(* polls for what is newer than the last message it was given.             *)
(*                                                                         *)
(* Requests and answers overtake one another.  Of the handlers this module *)
(* has what they store, when, and what they answer; how a handoff reaches  *)
(* the team, and what a reply in the thread goes through, is module Chat.  *)
(* Times are those of the log: every stored row and every reply typed in   *)
(* the thread takes the next one, and a reply keeps the time it was typed. *)
(* A row's time is also its id.  The order of the widget's list is left    *)
(* out: it is the rows shown, and how many copies of its own of a message. *)
(***************************************************************************)
EXTENDS Naturals, FiniteSets

CONSTANTS
  MaxPosts,      \* bound on the messages sent and buttons pressed
  MaxGets,       \* bound on the reads of the log that are under way at once
  MaxReplies,    \* bound on the agent's replies
  MaxUpsets,     \* bound on the times the widget is opened and on the messages
                 \* and presses that fail, together
  MaxTime,       \* bound on the rows and replies together
  Page           \* rows of one answer: take

ASSUME WidgetAssumption ==
  /\ MaxPosts \in Nat /\ MaxGets \in Nat /\ MaxReplies \in Nat
  /\ MaxUpsets \in Nat /\ MaxTime \in Nat /\ Page \in Nat \ {0}

VARIABLES
  chatStatus, log, clock,           \* the session and its rows
  carded, typed,                    \* the team has the card; replies in its thread
  seen, shown, own, last, opens,    \* the widget: status, list, lastPolledRef
  posts, gets,                      \* requests
  overtaken,                        \* merged a poll of the list before a reload
  stale,                            \* seen is of a read that was passed
  early,                            \* said by an answer that came after its row
  late,                             \* replies stored after a row of a later time
  upsets

server == <<chatStatus, log, carded, typed, clock>>
widget == <<seen, shown, own, last, opens>>
ghosts == <<overtaken, stale, early, late>>
widgetVars == <<server, widget, posts, gets, ghosts, upsets>>

With == {"WAITING_HUMAN", "HUMAN"}

Posts == 1..MaxPosts
Gets == 1..MaxGets

Says(role, text) == [role |-> role, text |-> text]

Row(at, says) == [at |-> at, says |-> says]

Hi == Says("VISITOR", "hi")
Reply == Says("ASSISTANT", "answer")
HandoffNote == Says("SYSTEM", "handoff")

(* What the widget lists before it has a row of it.  The answer with the   *)
(* notice of an incident does not say escalated, so that the copy is the   *)
(* assistant's and the row is not.                                         *)
Said == {Hi, Reply, HandoffNote, Says("ASSISTANT", "notice"), Says("SYSTEM", "note"),
         Says("SYSTEM", "already")}

NoPost == [step |-> "none", waiting |-> FALSE, reply |-> {}, row |-> {}, status |-> "none"]
NoGet == [step |-> "none", kind |-> "poll", since |-> 0, fetched |-> {}, rows |-> {},
          status |-> "none", passed |-> FALSE]

Loading(since, kind) == [NoGet EXCEPT !.step = "arriving", !.kind = kind, !.since = since]

WidgetInit ==
  /\ chatStatus = "BOT"
  /\ log = {Row(1, Says("ASSISTANT", "greeting"))}
  /\ carded = FALSE /\ typed = {}
  /\ clock = 1
  /\ seen = "BOT" /\ shown = {} /\ own = [m \in Said |-> 0] /\ last = 0 /\ opens = 0
  /\ posts = [p \in Posts |-> NoPost]
  /\ gets = [g \in Gets |-> NoGet]
  /\ overtaken = FALSE /\ stale = FALSE /\ early = {} /\ late = {}
  /\ upsets = 0

Upset == opens + upsets < MaxUpsets /\ upsets' = upsets + 1

----------------------------------------------------------------------------
(* Sending: one request at a time, until the browser gives one up.         *)

Sending == \E p \in Posts : posts[p].waiting

Free(g) == gets[g].step = "none" /\ \A h \in 1..(g - 1) : gets[h].step # "none"

(* Opened, or shut and opened again.                                       *)
Open(g) ==
  /\ opens + upsets < MaxUpsets
  /\ Free(g)
  /\ opens' = opens + 1
  /\ gets' = [gets EXCEPT ![g] = Loading(0, "history")]
  /\ UNCHANGED <<server, seen, shown, own, last, posts, ghosts, upsets>>

Begin(p, step) ==
  /\ opens > 0 /\ ~Sending
  /\ posts[p].step = "none" /\ \A q \in 1..(p - 1) : posts[q].step # "none"
  /\ posts' = [posts EXCEPT ![p] = [NoPost EXCEPT !.step = step, !.waiting = TRUE]]

Send(p) ==
  /\ Begin(p, "message")
  /\ own' = [own EXCEPT ![Hi] = @ + 1]
  /\ UNCHANGED <<server, seen, shown, last, opens, gets, ghosts, upsets>>

(* The button is there while the assistant answers.                        *)
RequestHuman(p) ==
  /\ seen = "BOT"
  /\ Begin(p, "escalate")
  /\ UNCHANGED <<server, widget, gets, ghosts, upsets>>

NextRow(says) == Row(clock + 1, says)

Store(says) ==
  /\ clock < MaxTime
  /\ log' = log \cup {NextRow(says)}
  /\ clock' = clock + 1

(* row is the one that was stored of the reply, if any.                    *)
Answered(p, reply, row, status) ==
  posts' = [posts EXCEPT ![p].step = "answered", ![p].reply = reply, ![p].row = row,
                         ![p].status = status]

PostGoto(p, step) == posts' = [posts EXCEPT ![p].step = step]

(* POST /message up to the branch on the status it read.                   *)
ReceiveMessage(p) ==
  /\ posts[p].step = "message"
  /\ Store(Hi)
  /\ IF chatStatus \in With
       THEN Answered(p, IF chatStatus = "HUMAN" THEN {} ELSE {Says("SYSTEM", "note")}, {}, chatStatus)
       ELSE PostGoto(p, "thinking")
  /\ UNCHANGED <<chatStatus, carded, typed, widget, gets, ghosts, upsets>>

AnswerQuestion(p) ==
  /\ posts[p].step = "thinking"
  /\ Store(Reply)
  /\ Answered(p, {Reply}, {NextRow(Reply)}, "BOT")
  /\ UNCHANGED <<chatStatus, carded, typed, widget, gets, ghosts, upsets>>

NoticeIncident(p) ==
  /\ posts[p].step = "thinking"
  /\ Store(Says("SYSTEM", "notice"))
  /\ Answered(p, {Says("ASSISTANT", "notice")}, {NextRow(Says("SYSTEM", "notice"))}, "BOT")
  /\ UNCHANGED <<chatStatus, carded, typed, widget, gets, ghosts, upsets>>

AlreadyWithTeam(p) ==
  /\ chatStatus # "BOT"
  /\ Answered(p, {Says("SYSTEM", "already")}, {}, chatStatus)
  /\ UNCHANGED <<chatStatus, log, clock>>

(* Slip: the answer carries the status that was read before the claim.     *)
EscalateSaysBefore(p) ==
  /\ posts[p].step \in {"thinking", "escalate"}
  /\ \/ AlreadyWithTeam(p)
     \/ /\ chatStatus = "BOT" /\ chatStatus' = "WAITING_HUMAN"
        /\ Store(HandoffNote)
        /\ Answered(p, {HandoffNote}, {NextRow(HandoffNote)}, "BOT")
  /\ UNCHANGED <<carded, typed, widget, gets, ghosts, upsets>>

(* doEscalate: the claim, with the assistant's answer if it gave one; who  *)
(* comes too late is told so, and that is not stored.                      *)
Escalate(p) ==
  /\ posts[p].step \in {"thinking", "escalate"}
  /\ \/ AlreadyWithTeam(p)
     \/ /\ chatStatus = "BOT" /\ chatStatus' = "WAITING_HUMAN"
        /\ \/ UNCHANGED <<log, clock>>
           \/ posts[p].step = "thinking" /\ Store(Reply)
        /\ PostGoto(p, "telling")
  /\ UNCHANGED <<carded, typed, widget, gets, ghosts, upsets>>

TellTeam(p) ==
  /\ posts[p].step = "telling"
  /\ Store(HandoffNote)
  /\ Answered(p, {HandoffNote}, {NextRow(HandoffNote)}, "WAITING_HUMAN")
  /\ carded' = TRUE
  /\ UNCHANGED <<chatStatus, typed, widget, gets, ghosts, upsets>>

(* The team cannot be told: the claim is given back.                       *)
TellTeamFails(p) ==
  /\ posts[p].step = "telling"
  /\ Store(HandoffNote)
  /\ chatStatus' = "BOT"
  /\ Answered(p, {HandoffNote}, {NextRow(HandoffNote)}, "BOT")
  /\ UNCHANGED <<carded, typed, widget, gets, ghosts, upsets>>

(* An answer is heard: the reads that still wait are passed by it.         *)
Passed(read) == IF read.step = "none" THEN read ELSE [read EXCEPT !.passed = TRUE]

Finish(g) == gets' = [h \in Gets |-> IF h = g THEN NoGet ELSE Passed(gets[h])]

Done(p) == posts' = [posts EXCEPT ![p] = [NoPost EXCEPT !.step = "done"]]

HearAnswer(p) ==
  /\ posts[p].step = "answered"
  /\ Done(p)
  /\ IF posts[p].waiting
       THEN /\ own' = [m \in Said |-> own[m] + (IF m \in posts[p].reply THEN 1 ELSE 0)]
            /\ seen' = posts[p].status
            /\ early' = IF posts[p].row \cap shown # {} THEN early \cup posts[p].reply ELSE early
            /\ gets' = [g \in Gets |-> Passed(gets[g])]
            /\ stale' = FALSE
       ELSE UNCHANGED <<own, seen, early, gets, stale>>
  /\ UNCHANGED <<server, shown, last, opens, overtaken, late, upsets>>

(* fetch rejects; the server goes on if the request got there.             *)
SendFails(p) ==
  /\ posts[p].waiting
  /\ Upset
  /\ \/ posts' = [posts EXCEPT ![p].waiting = FALSE]
     \/ posts[p].step \in {"message", "escalate"} /\ Done(p)
  /\ UNCHANGED <<server, widget, gets, ghosts>>

----------------------------------------------------------------------------
(* Reading the log.                                                        *)

PollLog(g) ==
  /\ seen \in With
  /\ Free(g)
  /\ gets' = [gets EXCEPT ![g] = Loading(last, "poll")]
  /\ UNCHANGED <<server, widget, posts, ghosts, upsets>>

(* The oldest rows that are newer, a page of them at most.                 *)
Newer(rows, since) ==
  {r \in rows : r.at > since /\ Cardinality({q \in rows : since < q.at /\ q.at < r.at}) < Page}

ReadLog(g, rows, status) ==
  gets' = [gets EXCEPT ![g].step = "answered", ![g].fetched = {},
                       ![g].rows = Newer(rows, gets[g].since), ![g].status = status]

(* GET /:sessionId/messages asks the thread first, if there is a handoff,  *)
(* and reads the log at once if nobody has replied there.                  *)
FetchThread(g) ==
  /\ gets[g].step = "arriving"
  /\ IF chatStatus \in With /\ typed # {}
       THEN gets' = [gets EXCEPT ![g].step = "copying", ![g].fetched = typed]
       ELSE ReadLog(g, log, chatStatus)
  /\ UNCHANGED <<server, widget, posts, ghosts, upsets>>

(* syncTeamsReplies: what is not in the log yet, at the time it was typed. *)
CopyReplies(g) ==
  LET new == gets[g].fetched \ log
  IN /\ gets[g].step = "copying"
     /\ log' = log \cup new
     /\ late' = late \cup {r \in new : \E q \in log : q.at > r.at}
     /\ ReadLog(g, log \cup new, "HUMAN")
     /\ chatStatus' = "HUMAN"
     /\ UNCHANGED <<carded, typed, clock, widget, posts, overtaken, stale, early, upsets>>

Newest(rows) == CHOOSE n \in {r.at : r \in rows} : \A r \in rows : r.at <= n

(* Slip: the time of the last poll survives a reload of the list.          *)
LastTimestampKept(rows) == IF rows = {} \/ Newest(rows) < last THEN last ELSE Newest(rows)

LastTimestamp(rows) == IF rows = {} THEN 0 ELSE Newest(rows)

(* Slip: nothing is retired.                                               *)
MergeAppends(rows) == shown' = shown \cup rows /\ own' = own

(* Each row that is not listed yet retires one of the widget's own copies  *)
(* of it.                                                                  *)
MergeMessages(rows) ==
  /\ shown' = shown \cup rows
  /\ own' = [m \in Said |->
               LET new == Cardinality({r \in rows \ shown : r.says = m})
               IN IF new < own[m] THEN own[m] - new ELSE 0]

(* loadHistory replaces the list.                                          *)
LoadHistory(g) ==
  /\ gets[g].step = "answered" /\ gets[g].kind = "history"
  /\ shown' = gets[g].rows /\ own' = [m \in Said |-> 0]
  /\ last' = LastTimestamp(gets[g].rows)
  /\ seen' = gets[g].status
  /\ overtaken' = FALSE /\ stale' = gets[g].passed
  /\ Finish(g)
  /\ UNCHANGED <<server, opens, posts, early, late, upsets>>

MergePoll(g) ==
  /\ gets[g].step = "answered" /\ gets[g].kind = "poll"
  /\ MergeMessages(gets[g].rows)
  /\ last' = IF gets[g].rows = {} THEN last ELSE LastTimestamp(gets[g].rows)
  /\ seen' = gets[g].status
  /\ overtaken' = (overtaken \/ gets[g].since > last) /\ stale' = gets[g].passed
  /\ Finish(g)
  /\ UNCHANGED <<server, opens, posts, early, late, upsets>>

(* A read that fails is not noticed.                                       *)
GetFails(g) ==
  /\ gets[g].step # "none"
  /\ gets' = [gets EXCEPT ![g] = NoGet]
  /\ UNCHANGED <<server, widget, posts, ghosts, upsets>>

----------------------------------------------------------------------------
(* The agent, in the thread or through the webhook.                        *)

Pushed == Says("AGENT", "pushed")

RepliesSoFar == Cardinality(typed) + Cardinality({r \in log : r.says = Pushed})

Type ==
  /\ carded /\ chatStatus \in With
  /\ RepliesSoFar < MaxReplies /\ clock < MaxTime
  /\ typed' = typed \cup {NextRow(Says("AGENT", "reply"))}
  /\ clock' = clock + 1
  /\ UNCHANGED <<chatStatus, log, carded, widget, posts, gets, ghosts, upsets>>

(* POST /teams-reply.                                                      *)
PushReply ==
  /\ carded /\ chatStatus \in With
  /\ RepliesSoFar < MaxReplies
  /\ Store(Pushed)
  /\ chatStatus' = "HUMAN"
  /\ UNCHANGED <<carded, typed, widget, posts, gets, ghosts, upsets>>

----------------------------------------------------------------------------
Sends(p) ==
  \/ Send(p) \/ RequestHuman(p)
  \/ ReceiveMessage(p) \/ AnswerQuestion(p) \/ NoticeIncident(p)
  \/ Escalate(p) \/ TellTeam(p) \/ TellTeamFails(p)
  \/ HearAnswer(p) \/ SendFails(p)

Reads(g) ==
  \/ Open(g) \/ PollLog(g)
  \/ FetchThread(g) \/ CopyReplies(g)
  \/ LoadHistory(g) \/ MergePoll(g) \/ GetFails(g)

WidgetNext ==
  \/ \E p \in Posts : Sends(p)
  \/ \E g \in Gets : Reads(g)
  \/ Type \/ PushReply

WidgetSpec == WidgetInit /\ [][WidgetNext]_widgetVars

----------------------------------------------------------------------------
(***************************************************************************)
(* Properties                                                              *)
(***************************************************************************)

(* What the polls will not ask for again is in the list: the widget misses *)
(* only replies that were stored late, unless the answer to loadHistory    *)
(* was overtaken by another read (ChatWidget.tsx:134-137, 163).            *)
MissedIsKnown == \A r \in log : r.at <= last => r \in shown \cup late \/ overtaken

(* Nothing is under way.                                                   *)
Quiet ==
  /\ \A p \in Posts : posts[p].step \in {"none", "done"}
  /\ \A g \in Gets : gets[g].step = "none"

(* While the team has the conversation the widget asks for its replies,    *)
(* unless an answer was lost or overtaken (ChatWidget.tsx:151-154).        *)
HandoffIsWatched ==
  Quiet /\ chatStatus \in With => seen \in With \/ upsets > 0 \/ stale

Rows(list, says) == Cardinality({r \in list : r.says = says})

(* A message is listed more often than it is in the log only if its row    *)
(* got to the list before the answer with its text, if a request was lost, *)
(* or if it is the notice of an incident (chatMessages.ts:12-22).          *)
TwiceIsKnown ==
  \A m \in {Hi, Reply, HandoffNote} :
    Quiet /\ own[m] + Rows(shown, m) > Rows(log, m) => m \in early \/ upsets > 0

----------------------------------------------------------------------------
(* The handlers of this module, too, keep track of who has it.             *)
Tellers == {p \in Posts : posts[p].step = "telling"}

WidgetParty == IF chatStatus = "BOT" THEN "assistant" ELSE "team"

WidgetCustody ==
  INSTANCE Custody WITH Askers <- Posts, party <- WidgetParty, holders <- Tellers, reached <- carded

(* What the widget talks to passes the conversation on as Custody says,    *)
(* which module Chat does as well (chat.routes.ts:576-585, 639-645).       *)
WidgetKeepsCustody == WidgetCustody!Spec
=============================================================================
