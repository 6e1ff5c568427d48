----------------------------- MODULE ChatProofs -----------------------------
(***************************************************************************)
(* Proofs about Chat for any number of messages, presses of the button,    *)
(* closes, agents, widgets, replies and failures.  The claim works because *)
(* an asker that holds the conversation, or has handed it over, keeps the  *)
(* status off BOT: HandoffInv and ReachedInv say so of every step between  *)
(* the claim and the release.  The same two make its steps those of        *)
(* Custody.                                                                *)
(*                                                                         *)
(* Below them those about ChatGate, for any number of sessions, requests   *)
(* and attempts.  A greeting is owed once by the conversation itself, and  *)
(* once more by each request that the widget gave up: GreetInv adds up     *)
(* what was greeted, what such a request may still greet and what is due.  *)
(*                                                                         *)
(* The last are about ChatWidget, for any number of messages, reads and    *)
(* replies and any page.  That nothing is missed rests on the answers,     *)
(* which have no gaps (ReadsInv); that a handoff is watched on there being *)
(* one request at a time (AskInv, WatchInv); and what is listed twice on   *)
(* counting, message by message, the rows and the copies that are listed   *)
(* against the rows that are stored (TwiceInv).  TeamInv makes what the    *)
(* widget talks to follow Custody as well.                                 *)
(***************************************************************************)
EXTENDS Chat, ChatGate, ChatWidget, FiniteSetTheorems, TLAPS

(* One asker holds the conversation, and none once there is a thread.      *)
HandoffInv ==
  /\ OneHandoffAtATime
  /\ \A a \in Askers : Holds(a) => status # "BOT"
  /\ teamsThreadId # NoThread => status # "BOT" /\ \A a \in Askers : ~Holds(a)

(* Where an asker stands tells what its post came to.                      *)
PostAt(a) ==
  /\ outcome[a] # "none" =>
       pc[a] \in {"telling", "threading", "releasing", "done", "stranded"}
  /\ pc[a] = "telling" => outcome[a] # "none"
  /\ pc[a] = "threading" => outcome[a] = "threaded"
  /\ pc[a] = "releasing" => outcome[a] = "undelivered"
  /\ \A s \in {"graph", "webhook"} : <<a, s>> \in cards => outcome[a] # "none"

PostInv == \A a \in Askers : PostAt(a)

(* After a post that reached the team nobody else holds the conversation.  *)
ReachedAt(a) ==
  outcome[a] \in {"threaded", "delivered"} =>
    /\ status # "BOT"
    /\ cards # {}
    /\ \A b \in Askers : Holds(b) => b = a

ReachedInv == \A a \in Askers : ReachedAt(a)

(* Whoever notifies, or has notified, has set the flag, and is alone.      *)
Notifies(m) == m \in incidentCards \/ pc[m] = "notifying"

IncidentInv ==
  /\ \A m \in Messages : Notifies(m) => incidentNotified
  /\ \A m, n \in Messages : Notifies(m) /\ Notifies(n) => m = n

(* A poll that does not know of a reply may still copy it.                 *)
Pending(r) == {p \in Pollers : ppc[p] = "copying" /\ r \notin known[p]}

CopyInv == \A r \in Replies : copies[r] + Cardinality(Pending(r)) <= Cardinality(Pollers)

IInv == TypeOK /\ HandoffInv /\ PostInv /\ ReachedInv

----------------------------------------------------------------------------
(* What the visitor, the agents and the widgets do to the state of the     *)
(* handoff: nothing but a HUMAN or CLOSED status.                          *)
LEMMA Bystanders ==
  ASSUME NEW x,
         \/ x \in Closes /\ (CloseRead(x) \/ CloseWrite(x) \/ CloseFails(x))
         \/ x \in Agents /\ AgentReplies(x)
         \/ x \in Replies /\ WriteInThread(x)
         \/ x \in Pollers /\ (Poll(x) \/ SyncStep(x) \/ PollFails(x))
  PROVE  /\ status' = status \/ status' \in {"HUMAN", "CLOSED"}
         /\ UNCHANGED <<teamsThreadId, incidentNotified, pc, hasAnswer, outcome, cards,
                        incidentCards>>
BY DEF CloseRead, CloseWrite, CloseFails, AgentReplies, WriteInThread, SyncStep, Poll,
       Fetch, ReadCopies, Copy, MarkHuman, PollFails, row, ask, teams

(* Every action keeps the types; a thread id is an asker's, copies count.  *)
LEMMA TypeStep == TypeOK /\ [Next]_vars => TypeOK'
<1>. SUFFICES ASSUME TypeOK, [Next]_vars PROVE TypeOK'
  OBVIOUS
<1>. USE DEF TypeOK, ChatStatus, AskerSteps, HolderSteps, Outcomes, Askers, Goto,
             CloseGoto, PollGoto, Fault, row, ask, teams, poll
<1>1. ASSUME NEW m \in Messages, Receive(m) \/ MessageStep(m) \/ NotifyIncidentFails(m)
      PROVE  TypeOK'
  <2>1. CASE Receive(m)
    BY <2>1 DEF Receive
  <2>2. CASE FlagIncident(m) \/ Answer(m)
    BY <2>2 DEF FlagIncident, Answer
  <2>3. CASE NotifyIncident(m) \/ NotifyIncidentFails(m)
    BY <2>3 DEF NotifyIncident, NotifyIncidentFails
  <2>. QED
    BY <1>1, <2>1, <2>2, <2>3 DEF MessageStep
<1>2. ASSUME NEW b \in Buttons, Press(b) PROVE TypeOK'
  BY <1>2 DEF Press
<1>3. ASSUME NEW a \in Askers, EscalateStep(a) PROVE TypeOK'
  <2>1. CASE EscalateRead(a) \/ Claim(a) \/ RecordAnswer(a)
    BY <2>1 DEF EscalateRead, Claim, RecordAnswer
  <2>2. CASE Post(a)
    BY <2>2 DEF Post
  <2>3. CASE Tell(a) \/ SetThread(a) \/ Release(a)
    BY <2>3 DEF Tell, SetThread, Release
  <2>. QED
    BY <1>3, <2>1, <2>2, <2>3 DEF EscalateStep
<1>4. ASSUME NEW a \in Askers, PostFails(a) \/ AskerFails(a) PROVE TypeOK'
  BY <1>4 DEF PostFails, AskerFails
<1>5. ASSUME NEW c \in Closes, CloseRead(c) \/ CloseWrite(c) \/ CloseFails(c)
      PROVE  TypeOK'
  BY <1>5 DEF CloseRead, CloseWrite, CloseFails
<1>6. ASSUME NEW g \in Agents, AgentReplies(g) PROVE TypeOK'
  BY <1>6 DEF AgentReplies
<1>7. ASSUME NEW r \in Replies, WriteInThread(r) PROVE TypeOK'
  BY <1>7 DEF WriteInThread
<1>8. ASSUME NEW p \in Pollers, Poll(p) \/ SyncStep(p) \/ PollFails(p) PROVE TypeOK'
  <2>1. CASE Poll(p) \/ Fetch(p)
    BY <2>1 DEF Poll, InThread, Fetch
  <2>2. CASE ReadCopies(p)
    BY <2>2 DEF ReadCopies
  <2>3. CASE Copy(p)
    BY <2>3 DEF Copy
  <2>4. CASE MarkHuman(p) \/ PollFails(p)
    BY <2>4 DEF MarkHuman, PollFails
  <2>. QED
    BY <1>8, <2>1, <2>2, <2>3, <2>4 DEF SyncStep
<1>9. CASE Crash
  BY <1>9 DEF Crash
<1>10. CASE UNCHANGED vars
  BY <1>10 DEF vars
<1>. QED
  BY <1>1, <1>2, <1>3, <1>4, <1>5, <1>6, <1>7, <1>8, <1>9, <1>10 DEF Next

(* The next-state relation by what it means to the handoff.                *)
LEMMA Handoff == IInv /\ [Next]_vars => HandoffInv'
<1>. SUFFICES ASSUME IInv, [Next]_vars PROVE HandoffInv'
  OBVIOUS
<1>. USE DEF IInv, TypeOK, HandoffInv, OneHandoffAtATime, Holds, HolderSteps, Goto, row, ask
<1>1. ASSUME NEW m \in Messages, Receive(m) \/ MessageStep(m) \/ NotifyIncidentFails(m)
      PROVE  HandoffInv'
  BY <1>1 DEF Receive, MessageStep, FlagIncident, NotifyIncident, Answer,
              NotifyIncidentFails, Askers
<1>2. ASSUME NEW b \in Buttons, Press(b) PROVE HandoffInv'
  BY <1>2 DEF Press, Askers
<1>3. ASSUME NEW a \in Askers, EscalateRead(a) \/ Claim(a) PROVE HandoffInv'
  BY <1>3 DEF EscalateRead, Claim
<1>4. ASSUME NEW a \in Askers, RecordAnswer(a) \/ Post(a) \/ PostFails(a) PROVE HandoffInv'
  BY <1>4 DEF RecordAnswer, Post, PostFails
<1>5. ASSUME NEW a \in Askers, Tell(a) \/ AskerFails(a) PROVE HandoffInv'
  BY <1>5 DEF Tell, AskerFails
<1>6. ASSUME NEW a \in Askers, SetThread(a) \/ Release(a) PROVE HandoffInv'
  BY <1>6 DEF SetThread, Release
<1>7. ASSUME NEW x,
             \/ x \in Closes /\ (CloseRead(x) \/ CloseWrite(x) \/ CloseFails(x))
             \/ x \in Agents /\ AgentReplies(x)
             \/ x \in Replies /\ WriteInThread(x)
             \/ x \in Pollers /\ (Poll(x) \/ SyncStep(x) \/ PollFails(x))
      PROVE  HandoffInv'
  BY <1>7, Bystanders
<1>8. CASE Crash
  BY <1>8 DEF Crash
<1>9. CASE UNCHANGED vars
  BY <1>9 DEF vars
<1>. QED
  BY <1>1, <1>2, <1>3, <1>4, <1>5, <1>6, <1>7, <1>8, <1>9 DEF Next, EscalateStep

(* A post happens once, and only a lost one is released.                   *)
LEMMA PostStep == TypeOK /\ PostInv /\ [Next]_vars => PostInv'
<1>. SUFFICES ASSUME TypeOK, PostInv, [Next]_vars, NEW x \in Askers, PostAt(x)
              PROVE  PostAt(x)'
  BY DEF PostInv
<1>. USE DEF TypeOK, PostAt, HolderSteps, Outcomes, Goto, row, ask, teams
<1>1. ASSUME NEW m \in Messages, Receive(m) \/ MessageStep(m) \/ NotifyIncidentFails(m)
      PROVE  PostAt(x)'
  BY <1>1 DEF Receive, MessageStep, FlagIncident, NotifyIncident, Answer,
              NotifyIncidentFails, Askers
<1>2. ASSUME NEW b \in Buttons, Press(b) PROVE PostAt(x)'
  BY <1>2 DEF Press, Askers
<1>3. ASSUME NEW a \in Askers, EscalateRead(a) \/ Claim(a) \/ RecordAnswer(a)
      PROVE  PostAt(x)'
  BY <1>3 DEF EscalateRead, Claim, RecordAnswer
<1>4. ASSUME NEW a \in Askers, Post(a) PROVE PostAt(x)'
  BY <1>4 DEF Post
<1>5. ASSUME NEW a \in Askers, PostFails(a) PROVE PostAt(x)'
  BY <1>5 DEF PostFails
<1>6. ASSUME NEW a \in Askers, Tell(a) \/ AskerFails(a) PROVE PostAt(x)'
  BY <1>6 DEF Tell, AskerFails
<1>7. ASSUME NEW a \in Askers, SetThread(a) \/ Release(a) PROVE PostAt(x)'
  BY <1>7 DEF SetThread, Release
<1>8. ASSUME NEW y,
             \/ y \in Closes /\ (CloseRead(y) \/ CloseWrite(y) \/ CloseFails(y))
             \/ y \in Agents /\ AgentReplies(y)
             \/ y \in Replies /\ WriteInThread(y)
             \/ y \in Pollers /\ (Poll(y) \/ SyncStep(y) \/ PollFails(y))
      PROVE  PostAt(x)'
  BY <1>8, Bystanders
<1>9. CASE Crash
  BY <1>9 DEF Crash
<1>10. CASE UNCHANGED vars
  BY <1>10 DEF vars
<1>. QED
  BY <1>1, <1>2, <1>3, <1>4, <1>5, <1>6, <1>7, <1>8, <1>9, <1>10 DEF Next, EscalateStep

(* Whoever reached the team did so as the holder, and nobody claims after. *)
LEMMA ReachedStep == IInv /\ [Next]_vars => ReachedInv'
<1>. SUFFICES ASSUME IInv, [Next]_vars, NEW x \in Askers, ReachedAt(x), PostAt(x)
              PROVE  ReachedAt(x)'
  BY DEF IInv, ReachedInv, PostInv
<1>. USE DEF IInv, TypeOK, HandoffInv, OneHandoffAtATime, PostInv, PostAt, ReachedAt, Holds,
             HolderSteps, Outcomes, Goto, row, ask, teams
<1>1. ASSUME NEW m \in Messages, Receive(m) \/ MessageStep(m) \/ NotifyIncidentFails(m)
      PROVE  ReachedAt(x)'
  BY <1>1 DEF Receive, MessageStep, FlagIncident, NotifyIncident, Answer,
              NotifyIncidentFails, Askers
<1>2. ASSUME NEW b \in Buttons, Press(b) PROVE ReachedAt(x)'
  BY <1>2 DEF Press, Askers
<1>3. ASSUME NEW a \in Askers, EscalateRead(a) \/ Claim(a) \/ RecordAnswer(a)
      PROVE  ReachedAt(x)'
  BY <1>3 DEF EscalateRead, Claim, RecordAnswer
<1>4. ASSUME NEW a \in Askers, Post(a) PROVE ReachedAt(x)'
  BY <1>4 DEF Post
<1>5. ASSUME NEW a \in Askers, PostFails(a) PROVE ReachedAt(x)'
  BY <1>5 DEF PostFails
<1>6. ASSUME NEW a \in Askers, Tell(a) \/ AskerFails(a) PROVE ReachedAt(x)'
  BY <1>6 DEF Tell, AskerFails
<1>7. ASSUME NEW a \in Askers, SetThread(a) \/ Release(a) PROVE ReachedAt(x)'
  BY <1>7 DEF SetThread, Release
<1>8. ASSUME NEW y,
             \/ y \in Closes /\ (CloseRead(y) \/ CloseWrite(y) \/ CloseFails(y))
             \/ y \in Agents /\ AgentReplies(y)
             \/ y \in Replies /\ WriteInThread(y)
             \/ y \in Pollers /\ (Poll(y) \/ SyncStep(y) \/ PollFails(y))
      PROVE  ReachedAt(x)'
  BY <1>8, Bystanders
<1>9. CASE Crash
  BY <1>9 DEF Crash
<1>10. CASE UNCHANGED vars
  BY <1>10 DEF vars
<1>. QED
  BY <1>1, <1>2, <1>3, <1>4, <1>5, <1>6, <1>7, <1>8, <1>9, <1>10 DEF Next, EscalateStep

(* A card after a delivered one would be posted by another holder.         *)
LEMMA CardsStep == IInv /\ SecondCardNeedsALostOne /\ [Next]_vars => SecondCardNeedsALostOne'
<1>. SUFFICES ASSUME IInv, SecondCardNeedsALostOne, [Next]_vars,
                     NEW x \in Askers, NEW z \in Askers, x # z,
                     NEW s \in {"graph", "webhook"}, NEW t \in {"graph", "webhook"},
                     (<<x, s>> \in cards /\ <<z, t>> \in cards)'
              PROVE  ("undelivered" \in {outcome[x], outcome[z]})'
  BY DEF SecondCardNeedsALostOne
<1>. DEFINE Lost == "undelivered" \in {outcome[x], outcome[z]}
<1>. USE DEF IInv, TypeOK, SecondCardNeedsALostOne, PostInv, PostAt, ReachedInv, ReachedAt,
             Holds, HolderSteps, Outcomes, Goto, row, ask, teams
<1>1. ASSUME NEW m \in Messages, Receive(m) \/ MessageStep(m) \/ NotifyIncidentFails(m)
      PROVE  Lost'
  BY <1>1 DEF Receive, MessageStep, FlagIncident, NotifyIncident, Answer,
              NotifyIncidentFails, Askers
<1>2. ASSUME NEW b \in Buttons, Press(b) PROVE Lost'
  BY <1>2 DEF Press, Askers
<1>3. ASSUME NEW a \in Askers, EscalateRead(a) \/ Claim(a) \/ RecordAnswer(a)
      PROVE  Lost'
  BY <1>3 DEF EscalateRead, Claim, RecordAnswer
<1>4. ASSUME NEW a \in Askers, Post(a) \/ PostFails(a)
      PROVE  Lost'
  <2>1. Holds(a) /\ outcome[a] = "none"
    BY <1>4 DEF Post, PostFails
  <2>2. ASSUME NEW b \in Askers, b # a, NEW u \in {"graph", "webhook"}, <<b, u>> \in cards'
        PROVE  <<b, u>> \in cards /\ outcome'[b] = outcome[b]
    BY <1>4, <2>2 DEF Post, PostFails
  <2>3. ASSUME NEW b \in Askers, b # a, NEW u \in {"graph", "webhook"}, <<b, u>> \in cards
        PROVE  outcome[b] = "undelivered"
    <3>1. PostAt(b) /\ ReachedAt(b)
      BY DEF IInv, PostInv, ReachedInv
    <3>2. outcome[b] \in Outcomes
      OBVIOUS
    <3>. QED
      BY <2>1, <2>3, <3>1, <3>2
  <2>4. CASE x # a
    BY <2>2, <2>3, <2>4
  <2>5. CASE z # a
    BY <2>2, <2>3, <2>5
  <2>. QED
    BY <2>4, <2>5
<1>5. ASSUME NEW a \in Askers, Tell(a) \/ AskerFails(a) PROVE Lost'
  BY <1>5 DEF Tell, AskerFails
<1>6. ASSUME NEW a \in Askers, SetThread(a) \/ Release(a) PROVE Lost'
  BY <1>6 DEF SetThread, Release
<1>7. ASSUME NEW y,
             \/ y \in Closes /\ (CloseRead(y) \/ CloseWrite(y) \/ CloseFails(y))
             \/ y \in Agents /\ AgentReplies(y)
             \/ y \in Replies /\ WriteInThread(y)
             \/ y \in Pollers /\ (Poll(y) \/ SyncStep(y) \/ PollFails(y))
      PROVE  Lost'
  BY <1>7, Bystanders
<1>8. CASE Crash
  BY <1>8 DEF Crash
<1>9. CASE UNCHANGED vars
  BY <1>9 DEF vars
<1>. QED
  BY <1>1, <1>2, <1>3, <1>4, <1>5, <1>6, <1>7, <1>8, <1>9 DEF Next, EscalateStep

(* The wait ends with the holder, by a card, a release or its failure.     *)
LEMMA WaitingStep == IInv /\ WaitingIsKnown /\ [Next]_vars => WaitingIsKnown'
<1>. SUFFICES ASSUME IInv, WaitingIsKnown, [Next]_vars PROVE WaitingIsKnown'
  OBVIOUS
<1>. USE DEF IInv, TypeOK, WaitingIsKnown, PostInv, PostAt, ReachedInv, ReachedAt,
             Holds, HolderSteps, Outcomes, Goto, row, ask, teams
<1>1. ASSUME NEW m \in Messages, Receive(m) \/ MessageStep(m) \/ NotifyIncidentFails(m)
      PROVE  WaitingIsKnown'
  BY <1>1 DEF Receive, MessageStep, FlagIncident, NotifyIncident, Answer,
              NotifyIncidentFails, Askers
<1>2. ASSUME NEW b \in Buttons, Press(b) PROVE WaitingIsKnown'
  BY <1>2 DEF Press, Askers
<1>3. ASSUME NEW a \in Askers, EscalateRead(a) \/ Claim(a) \/ RecordAnswer(a)
      PROVE  WaitingIsKnown'
  BY <1>3 DEF EscalateRead, Claim, RecordAnswer
<1>4. ASSUME NEW a \in Askers, Post(a) PROVE WaitingIsKnown'
  BY <1>4 DEF Post
<1>5. ASSUME NEW a \in Askers, PostFails(a) PROVE WaitingIsKnown'
  BY <1>5 DEF PostFails
<1>6. ASSUME NEW a \in Askers, Tell(a) \/ AskerFails(a) PROVE WaitingIsKnown'
  BY <1>6 DEF Tell, AskerFails
<1>7. ASSUME NEW a \in Askers, SetThread(a) \/ Release(a) PROVE WaitingIsKnown'
  BY <1>7 DEF SetThread, Release
<1>8. ASSUME NEW y,
             \/ y \in Closes /\ (CloseRead(y) \/ CloseWrite(y) \/ CloseFails(y))
             \/ y \in Agents /\ AgentReplies(y)
             \/ y \in Replies /\ WriteInThread(y)
             \/ y \in Pollers /\ (Poll(y) \/ SyncStep(y) \/ PollFails(y))
      PROVE  WaitingIsKnown'
  BY <1>8, Bystanders
<1>9. CASE Crash
  BY <1>9 DEF Crash
<1>10. CASE UNCHANGED vars
  BY <1>10 DEF vars
<1>. QED
  BY <1>1, <1>2, <1>3, <1>4, <1>5, <1>6, <1>7, <1>8, <1>9, <1>10 DEF Next, EscalateStep

(* The flag is taken once.                                                 *)
LEMMA IncidentStep == TypeOK /\ IncidentInv /\ [Next]_vars => IncidentInv'
<1>. SUFFICES ASSUME TypeOK, IncidentInv, [Next]_vars PROVE IncidentInv'
  OBVIOUS
<1>. USE DEF TypeOK, IncidentInv, Notifies, HolderSteps, Goto, Askers, row, ask, teams
<1>1. ASSUME NEW m \in Messages, Receive(m) \/ MessageStep(m) \/ NotifyIncidentFails(m)
      PROVE  IncidentInv'
  BY <1>1 DEF Receive, MessageStep, FlagIncident, NotifyIncident, Answer,
              NotifyIncidentFails, Askers
<1>2. ASSUME NEW b \in Buttons, Press(b) PROVE IncidentInv'
  BY <1>2 DEF Press, Askers
<1>3. ASSUME NEW a \in Askers, EscalateRead(a) \/ Claim(a) \/ RecordAnswer(a)
      PROVE  IncidentInv'
  BY <1>3 DEF EscalateRead, Claim, RecordAnswer
<1>4. ASSUME NEW a \in Askers, Post(a) PROVE IncidentInv'
  BY <1>4 DEF Post
<1>5. ASSUME NEW a \in Askers, PostFails(a) PROVE IncidentInv'
  BY <1>5 DEF PostFails
<1>6. ASSUME NEW a \in Askers, Tell(a) \/ AskerFails(a) PROVE IncidentInv'
  BY <1>6 DEF Tell, AskerFails
<1>7. ASSUME NEW a \in Askers, SetThread(a) \/ Release(a) PROVE IncidentInv'
  BY <1>7 DEF SetThread, Release
<1>8. ASSUME NEW y,
             \/ y \in Closes /\ (CloseRead(y) \/ CloseWrite(y) \/ CloseFails(y))
             \/ y \in Agents /\ AgentReplies(y)
             \/ y \in Replies /\ WriteInThread(y)
             \/ y \in Pollers /\ (Poll(y) \/ SyncStep(y) \/ PollFails(y))
      PROVE  IncidentInv'
  BY <1>8, Bystanders
<1>9. CASE Crash
  BY <1>9 DEF Crash
<1>10. CASE UNCHANGED vars
  BY <1>10 DEF vars
<1>. QED
  BY <1>1, <1>2, <1>3, <1>4, <1>5, <1>6, <1>7, <1>8, <1>9, <1>10 DEF Next, EscalateStep

(* A poll that reads after the first copy finds it, and whoever copies is  *)
(* pending no more.                                                        *)
LEMMA CopyStep == TypeOK /\ CopyInv /\ [Next]_vars => CopyInv'
<1>. SUFFICES ASSUME TypeOK, CopyInv, [Next]_vars, NEW r \in Replies
              PROVE  (copies[r] + Cardinality(Pending(r)) <= Cardinality(Pollers))'
  BY DEF CopyInv
<1>. DEFINE Goal == copies'[r] + Cardinality(Pending(r)') <= Cardinality(Pollers)
<1>a. /\ IsFiniteSet(Pollers) /\ IsFiniteSet(Pending(r)) /\ IsFiniteSet(Pending(r)')
      /\ Cardinality(Pollers) \in Nat
      /\ Cardinality(Pending(r)) \in Nat
      /\ Cardinality(Pending(r)') \in Nat
      /\ Cardinality(Pending(r)') <= Cardinality(Pollers)
  BY FiniteAssumption, FS_Subset, FS_CardinalityType DEF Pending
<1>b. copies[r] \in Nat /\ copies[r] + Cardinality(Pending(r)) <= Cardinality(Pollers)
  BY DEF TypeOK, CopyInv
<1>c. ASSUME copies' = copies, Pending(r)' \subseteq Pending(r) PROVE Goal
  <2>1. Cardinality(Pending(r)') <= Cardinality(Pending(r))
    BY <1>a, <1>c, FS_Subset
  <2>. QED
    BY <1>a, <1>b, <1>c, <2>1
<1>1. ASSUME UNCHANGED <<copies, poll>> PROVE Goal
  BY <1>1, <1>c DEF Pending, poll
<1>2. ASSUME NEW p \in Pollers, Poll(p) \/ Fetch(p) \/ MarkHuman(p) \/ PollFails(p) PROVE Goal
  <2>1. copies' = copies
    BY <1>2 DEF Poll, Fetch, MarkHuman, PollFails
  <2>2. Pending(r)' \subseteq Pending(r)
    BY <1>2 DEF Poll, Fetch, MarkHuman, PollFails, PollGoto, Pending, TypeOK
  <2>. QED
    BY <2>1, <2>2, <1>c
<1>3. ASSUME NEW p \in Pollers, ReadCopies(p) PROVE Goal
  <2>1. copies' = copies
    BY <1>3 DEF ReadCopies
  <2>2. CASE copies[r] = 0
    BY <1>a, <2>1, <2>2
  <2>3. CASE copies[r] > 0
    <3>1. Pending(r)' \subseteq Pending(r)
      BY <1>3, <2>3 DEF ReadCopies, PollGoto, Pending, TypeOK
    <3>. QED
      BY <2>1, <3>1, <1>c
  <2>. QED
    BY <1>b, <2>2, <2>3
<1>4. ASSUME NEW p \in Pollers, Copy(p) PROVE Goal
  <2>1. PICK q \in fetched[p] \ known[p] :
           /\ copies' = [copies EXCEPT ![q] = @ + 1]
           /\ known' = [known EXCEPT ![p] = @ \cup {q}]
    BY <1>4 DEF Copy
  <2>2. ppc[p] = "copying" /\ ppc' = ppc
    BY <1>4 DEF Copy
  <2>3. CASE q = r
    <3>1. p \in Pending(r) /\ Pending(r)' = Pending(r) \ {p}
      BY <2>1, <2>2, <2>3 DEF Pending, TypeOK
    <3>2. Cardinality(Pending(r)') = Cardinality(Pending(r)) - 1
      BY <1>a, <3>1, FS_RemoveElement
    <3>3. copies'[r] = copies[r] + 1
      BY <2>1, <2>3 DEF TypeOK
    <3>. QED
      BY <1>a, <1>b, <3>2, <3>3
  <2>4. CASE q # r
    <3>1. Pending(r)' = Pending(r)
      BY <2>1, <2>2, <2>4 DEF Pending, TypeOK
    <3>2. copies'[r] = copies[r]
      BY <2>1, <2>4 DEF TypeOK
    <3>. QED
      BY <1>b, <3>1, <3>2
  <2>. QED
    BY <2>3, <2>4
<1>5. ASSUME Crash PROVE Goal
  BY <1>5, <1>c DEF Crash, Pending
<1>6. ASSUME NEW m \in Messages, Receive(m) \/ MessageStep(m) \/ NotifyIncidentFails(m)
      PROVE  Goal
  BY <1>1, <1>6 DEF Receive, MessageStep, FlagIncident, NotifyIncident, Answer, NotifyIncidentFails
<1>7. ASSUME NEW a \in Askers, Press(a) \/ EscalateStep(a) \/ PostFails(a) \/ AskerFails(a)
      PROVE  Goal
  BY <1>1, <1>7 DEF Press, EscalateStep, EscalateRead, Claim, RecordAnswer, Post, Tell, SetThread,
              Release, PostFails, AskerFails
<1>8. ASSUME NEW y,
             \/ y \in Closes /\ (CloseRead(y) \/ CloseWrite(y) \/ CloseFails(y))
             \/ y \in Agents /\ AgentReplies(y)
             \/ y \in Replies /\ WriteInThread(y)
      PROVE  Goal
  BY <1>1, <1>8 DEF CloseRead, CloseWrite, CloseFails, AgentReplies, WriteInThread
<1>9. UNCHANGED vars => UNCHANGED <<copies, poll>>
  BY DEF vars
<1>. HIDE DEF Goal
<1>10. ASSUME NEW p \in Pollers, Poll(p) \/ SyncStep(p) \/ PollFails(p) PROVE Goal
  BY <1>10, <1>2, <1>3, <1>4 DEF SyncStep
<1>11. Next => Goal
  BY <1>5, <1>6, <1>7, <1>8, <1>10 DEF Next, Askers
<1>12. Goal
  BY <1>1, <1>9, <1>11
<1>. QED
  BY <1>12 DEF Goal

----------------------------------------------------------------------------

LEMMA InitIInv == Init => IInv
<1>. SUFFICES ASSUME Init PROVE IInv
  OBVIOUS
<1>1. TypeOK
  BY FaultsAssumption DEF Init, TypeOK, ChatStatus, AskerSteps, HolderSteps, Outcomes
<1>2. HandoffInv
  BY DEF Init, HandoffInv, OneHandoffAtATime, Holds, HolderSteps
<1>3. PostInv /\ ReachedInv
  BY DEF Init, PostInv, PostAt, ReachedInv, ReachedAt
<1>. QED
  BY <1>1, <1>2, <1>3 DEF IInv

LEMMA Inductive == Spec => []IInv
<1>1. IInv /\ [Next]_vars => IInv'
  BY TypeStep, Handoff, PostStep, ReachedStep DEF IInv
<1>. QED
  BY <1>1, InitIInv, PTL DEF Spec

(* Every variable keeps its type, whoever fails and however often.         *)
THEOREM TypeCorrect == Spec => []TypeOK
<1>1. IInv => TypeOK
  BY DEF IInv
<1>. QED
  BY <1>1, Inductive, PTL

(* The claim in doEscalate lets one asker at a time hand over.             *)
THEOREM OneHandoff == Spec => []OneHandoffAtATime
<1>1. IInv => OneHandoffAtATime
  BY DEF IInv, HandoffInv
<1>. QED
  BY <1>1, Inductive, PTL

(* Only a card that its asker was told was lost is followed by another.    *)
THEOREM SecondCard == Spec => []SecondCardNeedsALostOne
<1>1. Init => SecondCardNeedsALostOne
  BY DEF Init, SecondCardNeedsALostOne
<1>. QED
  BY <1>1, Inductive, CardsStep, PTL DEF Spec

(* A wait is for somebody, unless a handler died or failed half way.       *)
THEOREM Waiting == Spec => []WaitingIsKnown
<1>1. Init => WaitingIsKnown
  BY DEF Init, WaitingIsKnown
<1>. QED
  BY <1>1, Inductive, WaitingStep, PTL DEF Spec

(* The conversation is taken back by the holder's release only.            *)
THEOREM TakenBack == Spec => TakenBackByReleaseOnly
<1>1. ASSUME IInv, [Next]_vars, status \in {"HUMAN", "CLOSED"}, status' \in {"BOT", "WAITING_HUMAN"}
      PROVE  status' = "BOT" /\ \E a \in Askers : pc[a] = "releasing" /\ pc'[a] = "done"
  <2>. USE <1>1 DEF IInv, TypeOK, row, ask, teams, Goto
  <2>1. ASSUME NEW m \in Messages, Receive(m) \/ MessageStep(m) \/ NotifyIncidentFails(m)
        PROVE  FALSE
    BY <2>1 DEF Receive, MessageStep, FlagIncident, NotifyIncident, Answer, NotifyIncidentFails
  <2>2. ASSUME NEW a \in Askers, Press(a) \/ PostFails(a) \/ AskerFails(a) PROVE FALSE
    BY <2>2 DEF Press, PostFails, AskerFails
  <2>3. ASSUME NEW a \in Askers, EscalateStep(a) PROVE Release(a)
    BY <2>3 DEF EscalateStep, EscalateRead, Claim, RecordAnswer, Post, Tell, SetThread
  <2>4. ASSUME NEW y,
               \/ y \in Closes /\ (CloseRead(y) \/ CloseWrite(y) \/ CloseFails(y))
               \/ y \in Agents /\ AgentReplies(y)
               \/ y \in Replies /\ WriteInThread(y)
               \/ y \in Pollers /\ (Poll(y) \/ SyncStep(y) \/ PollFails(y))
        PROVE  FALSE
    BY <2>4, Bystanders
  <2>5. ~Crash /\ ~UNCHANGED vars
    BY DEF Crash, vars
  <2>6. PICK a \in Askers : Release(a)
    BY <2>1, <2>2, <2>3, <2>4, <2>5 DEF Next, Askers
  <2>. QED
    BY <2>6 DEF Release
<1>2. IInv /\ [Next]_vars =>
        [(status \in {"HUMAN", "CLOSED"} /\ status' \in {"BOT", "WAITING_HUMAN"}) =>
           (status' = "BOT" /\ \E a \in Askers : pc[a] = "releasing" /\ pc'[a] = "done")]_vars
  BY <1>1
<1>. QED
  BY <1>2, Inductive, PTL DEF Spec, TakenBackByReleaseOnly

(* The thread of a conversation is set once.                               *)
THEOREM ThreadKept == Spec => ThreadIsKept
<1>1. ASSUME IInv, [Next]_vars, teamsThreadId # NoThread PROVE teamsThreadId' = teamsThreadId
  <2>. USE <1>1 DEF IInv, HandoffInv, row, ask, teams
  <2>1. ASSUME NEW m \in Messages, Receive(m) \/ MessageStep(m) \/ NotifyIncidentFails(m)
        PROVE  teamsThreadId' = teamsThreadId
    BY <2>1 DEF Receive, MessageStep, FlagIncident, NotifyIncident, Answer, NotifyIncidentFails
  <2>2. ASSUME NEW a \in Askers, Press(a) \/ PostFails(a) \/ AskerFails(a)
        PROVE  teamsThreadId' = teamsThreadId
    BY <2>2 DEF Press, PostFails, AskerFails
  <2>3. ASSUME NEW a \in Askers, EscalateStep(a) PROVE teamsThreadId' = teamsThreadId
    <3>1. ~SetThread(a)
      BY DEF SetThread, Holds, HolderSteps
    <3>. QED
      BY <2>3, <3>1 DEF EscalateStep, EscalateRead, Claim, RecordAnswer, Post, Tell, Release
  <2>4. ASSUME NEW y,
               \/ y \in Closes /\ (CloseRead(y) \/ CloseWrite(y) \/ CloseFails(y))
               \/ y \in Agents /\ AgentReplies(y)
               \/ y \in Replies /\ WriteInThread(y)
               \/ y \in Pollers /\ (Poll(y) \/ SyncStep(y) \/ PollFails(y))
        PROVE  teamsThreadId' = teamsThreadId
    BY <2>4, Bystanders
  <2>5. Crash \/ UNCHANGED vars => teamsThreadId' = teamsThreadId
    BY DEF Crash, vars
  <2>. QED
    BY <2>1, <2>2, <2>3, <2>4, <2>5 DEF Next, Askers
<1>2. IInv /\ [Next]_vars => [teamsThreadId # NoThread => teamsThreadId' = teamsThreadId]_vars
  BY <1>1
<1>. QED
  BY <1>2, Inductive, PTL DEF Spec, ThreadIsKept

(* The claim of incidentNotifiedAt lets one message post the card.         *)
THEOREM OneCard == Spec => []OneIncidentCard
<1>1. Init => IncidentInv
  BY DEF Init, IncidentInv, Notifies, Askers
<1>2. IInv /\ IncidentInv => OneIncidentCard
  BY DEF IInv, TypeOK, IncidentInv, Notifies, OneIncidentCard, Askers
<1>3. IInv => TypeOK
  BY DEF IInv
<1>. QED
  BY <1>1, <1>2, <1>3, Inductive, IncidentStep, PTL DEF Spec

(* A reply is copied at most as often as polls are ever under way at once, *)
(* of one widget or of several (chat.routes.ts:628-680).                   *)
THEOREM FewCopies == Spec => []CopiesBounded
<1>1. Init => CopyInv
  <2>. SUFFICES ASSUME Init, NEW r \in Replies
                PROVE  copies[r] + Cardinality(Pending(r)) <= Cardinality(Pollers)
    BY DEF CopyInv
  <2>1. copies[r] = 0 /\ Pending(r) = {}
    BY DEF Init, Pending
  <2>2. Cardinality(Pollers) \in Nat
    BY FiniteAssumption, FS_CardinalityType
  <2>. QED
    BY <2>1, <2>2, FS_EmptySet
<1>2. IInv /\ CopyInv => CopiesBounded
  <2>. SUFFICES ASSUME IInv, CopyInv, NEW r \in Replies
                PROVE  copies[r] <= Cardinality(Pollers)
    BY DEF CopiesBounded
  <2>1. copies[r] \in Nat /\ Cardinality(Pollers) \in Nat /\ Cardinality(Pending(r)) \in Nat
    BY FiniteAssumption, FS_Subset, FS_CardinalityType DEF IInv, TypeOK, Pending
  <2>. QED
    BY <2>1 DEF CopyInv
<1>3. IInv => TypeOK
  BY DEF IInv
<1>. QED
  BY <1>1, <1>2, <1>3, Inductive, CopyStep, PTL DEF Spec

----------------------------------------------------------------------------
(* Refinement of Custody.                                                  *)
CustodyStep == [CustodyOf!Next]_<<Party, Holders, Reached>>

(* What the team has heard of is nobody's to hand over any more.           *)
LEMMA ReachedIsLetGo == ASSUME IInv, Reached PROVE Holders = {} /\ status # "BOT"
BY DEF IInv, ReachedInv, ReachedAt, Reached, Holders

LEMMA NobodyMoves ==
  ASSUME IInv, status' = status, \A a \in Askers : Holds(a)' <=> Holds(a),
         \A a \in Askers : Holds(a) \/ outcome'[a] = outcome[a]
  PROVE  CustodyStep
<1>1. Party' = Party
  BY DEF Party
<1>2. Holders' = Holders
  BY DEF Holders
<1>3. Reached' = Reached
  BY DEF Reached
<1>. QED
  BY <1>1, <1>2, <1>3 DEF CustodyStep

LEMMA SomebodyTakes ==
  ASSUME IInv, status' \in {"HUMAN", "CLOSED"}, UNCHANGED <<pc, outcome>>
  PROVE  CustodyStep
<1>1. Party' \in {"team", "ended"}
  BY DEF Party
<1>2. Holders' = Holders
  BY DEF Holders, Holds
<1>3. Reached' = Reached
  BY DEF Reached, Holds
<1>. QED
  BY <1>1, <1>2, <1>3 DEF CustodyStep, CustodyOf!Next, CustodyOf!Turn

(* The holder is done, or dies: the card it posted is what is left of it.  *)
LEMMA HolderLetsGo ==
  ASSUME IInv, UNCHANGED <<status, outcome>>, NEW a \in Askers, Holds(a),
         \A b \in Askers : ~Holds(b)'
  PROVE  CustodyStep
<1>1. Party' = Party /\ Holders # {} /\ Holders' = {}
  BY DEF Party, Holders
<1>2. ~Reached
  BY <1>1, ReachedIsLetGo
<1>3. Reached \in BOOLEAN /\ Reached' \in BOOLEAN
  BY DEF Reached
<1>4. CASE Reached'
  BY <1>1, <1>3, <1>4 DEF CustodyStep, CustodyOf!Next, CustodyOf!HandOver
<1>5. CASE ~Reached'
  BY <1>1, <1>2, <1>3, <1>5 DEF CustodyStep, CustodyOf!Next, CustodyOf!Abandon
<1>. QED
  BY <1>4, <1>5

LEMMA HolderGivesBack ==
  ASSUME IInv, NEW a \in Askers, Release(a)
  PROVE  CustodyStep
<1>. USE DEF HolderSteps
<1>1. Holds(a) /\ outcome[a] = "undelivered" /\ pc' = [pc EXCEPT ![a] = "done"] /\ outcome' = outcome
  BY DEF Release, Goto, Holds, IInv, PostInv, PostAt
<1>2. \A b \in Askers : outcome[b] \notin {"threaded", "delivered"}
  BY <1>1 DEF IInv, ReachedInv, ReachedAt
<1>3. \A b \in Askers : ~Holds(b)'
  BY <1>1 DEF Holds, IInv, TypeOK, HandoffInv, OneHandoffAtATime
<1>4. Holders # {} /\ Holders' = {}
  BY <1>1, <1>3 DEF Holders
<1>5. Reached = FALSE /\ Reached' = FALSE
  BY <1>1, <1>2 DEF Reached
<1>6. Party' = "assistant"
  BY DEF Release, Party
<1>. QED
  BY <1>4, <1>5, <1>6 DEF CustodyStep, CustodyOf!Next, CustodyOf!GiveBack

LEMMA AskerClaims ==
  ASSUME IInv, NEW a \in Askers, Claim(a), status = "BOT"
  PROVE  CustodyStep
<1>. USE DEF HolderSteps
<1>1. /\ status' = "WAITING_HUMAN" /\ outcome' = outcome
      /\ pc' = [pc EXCEPT ![a] = IF a \in hasAnswer THEN "recording" ELSE "posting"]
  BY DEF Claim, Goto
<1>2. \A b \in Askers : ~Holds(b) /\ outcome[b] \notin {"threaded", "delivered"}
  BY DEF IInv, HandoffInv, ReachedInv, ReachedAt
<1>3. \A b \in Askers : Holds(b)' <=> b = a
  BY <1>1, <1>2 DEF Holds, IInv, TypeOK
<1>4. Holders = {} /\ Holders' = {a}
  BY <1>2, <1>3 DEF Holders
<1>5. Reached = FALSE /\ Reached' = FALSE
  BY <1>1, <1>2 DEF Reached
<1>6. Party = "assistant" /\ Party' = "team"
  BY <1>1 DEF Party
<1>7. CustodyOf!Claim(a)
  BY <1>4, <1>5, <1>6 DEF CustodyOf!Claim
<1>. QED
  BY <1>7 DEF CustodyStep, CustodyOf!Next

(* What each handler does to the conversation.                             *)
LEMMA CustodySteps == IInv /\ [Next]_vars => CustodyStep
<1>. SUFFICES ASSUME IInv, [Next]_vars PROVE CustodyStep
  OBVIOUS
<1>. USE DEF HolderSteps, Goto, row, ask
<1>1. ASSUME NEW m \in Messages, Receive(m) \/ MessageStep(m) \/ NotifyIncidentFails(m)
      PROVE  CustodyStep
  <2>1. UNCHANGED <<status, outcome>> /\ \A a \in Askers : Holds(a)' <=> Holds(a)
    BY <1>1 DEF Receive, MessageStep, FlagIncident, NotifyIncident, Answer, NotifyIncidentFails,
                Askers, Holds, IInv, TypeOK
  <2>. QED
    BY <2>1, NobodyMoves
<1>2. ASSUME NEW b \in Buttons, Press(b) PROVE CustodyStep
  <2>1. UNCHANGED <<status, outcome>> /\ \A a \in Askers : Holds(a)' <=> Holds(a)
    BY <1>2 DEF Press, Askers, Holds, IInv, TypeOK
  <2>. QED
    BY <2>1, NobodyMoves
<1>3. ASSUME NEW a \in Askers, EscalateRead(a) \/ (Claim(a) /\ status # "BOT") \/ RecordAnswer(a)
      PROVE  CustodyStep
  <2>1. UNCHANGED <<status, outcome>> /\ \A b \in Askers : Holds(b)' <=> Holds(b)
    BY <1>3 DEF EscalateRead, Claim, RecordAnswer, Holds, IInv, TypeOK
  <2>. QED
    BY <2>1, NobodyMoves
<1>4. ASSUME NEW a \in Askers, Post(a) \/ PostFails(a) PROVE CustodyStep
  <2>1. /\ status' = status /\ Holds(a) /\ \A b \in Askers : Holds(b)' <=> Holds(b)
        /\ \A b \in Askers : b # a => outcome'[b] = outcome[b]
    BY <1>4 DEF Post, PostFails, Holds, IInv, TypeOK
  <2>. QED
    BY <2>1, NobodyMoves
<1>5. ASSUME NEW a \in Askers, Tell(a) \/ SetThread(a) \/ AskerFails(a) PROVE CustodyStep
  <2>1. UNCHANGED <<status, outcome>> /\ \A b \in Askers : b # a => pc'[b] = pc[b]
    BY <1>5 DEF Tell, SetThread, AskerFails, IInv, TypeOK
  <2>2. CASE Holds(a)' <=> Holds(a)
    BY <2>1, <2>2, NobodyMoves DEF Holds
  <2>3. CASE ~(Holds(a)' <=> Holds(a))
    <3>1. Holds(a) /\ ~Holds(a)'
      BY <1>5, <2>3 DEF Tell, SetThread, AskerFails, Holds, IInv, TypeOK
    <3>2. \A b \in Askers : ~Holds(b)'
      BY <2>1, <3>1 DEF Holds, IInv, HandoffInv, OneHandoffAtATime
    <3>. QED
      BY <2>1, <3>1, <3>2, HolderLetsGo
  <2>. QED
    BY <2>2, <2>3
<1>6. ASSUME NEW x,
             \/ x \in Closes /\ (CloseRead(x) \/ CloseWrite(x) \/ CloseFails(x))
             \/ x \in Agents /\ AgentReplies(x)
             \/ x \in Replies /\ WriteInThread(x)
             \/ x \in Pollers /\ (Poll(x) \/ SyncStep(x) \/ PollFails(x))
      PROVE  CustodyStep
  <2>1. (status' = status \/ status' \in {"HUMAN", "CLOSED"}) /\ UNCHANGED <<pc, outcome>>
    BY <1>6, Bystanders
  <2>2. \A a \in Askers : Holds(a)' <=> Holds(a)
    BY <2>1 DEF Holds
  <2>. QED
    BY <2>1, <2>2, NobodyMoves, SomebodyTakes
<1>7. CASE Crash
  <2>1. UNCHANGED <<status, outcome>> /\ \A a \in Askers : ~Holds(a)'
    BY <1>7 DEF Crash, Holds, IInv, TypeOK
  <2>2. CASE \E a \in Askers : Holds(a)
    BY <2>1, <2>2, HolderLetsGo
  <2>3. CASE ~\E a \in Askers : Holds(a)
    BY <2>1, <2>3, NobodyMoves
  <2>. QED
    BY <2>2, <2>3
<1>8. CASE UNCHANGED vars
  BY <1>8, NobodyMoves DEF vars, Holds
<1>. QED
  BY <1>1, <1>2, <1>3, <1>4, <1>5, <1>6, <1>7, <1>8, AskerClaims, HolderGivesBack
  DEF Next, EscalateStep

(* Whatever overlaps, fails or dies, a conversation that the team has been *)
(* told of never goes back to the assistant, and before that it does only  *)
(* by the asker that claimed it (chat.routes.ts:576-585, 639-645).         *)
THEOREM CustodyKept == Spec => KeepsCustody
<1>1. Init => CustodyOf!Init
  <2>. SUFFICES ASSUME Init PROVE CustodyOf!Init
    OBVIOUS
  <2>1. Party = "assistant"
    BY DEF Init, Party
  <2>2. Holders = {}
    BY DEF Init, Holders, Holds, HolderSteps
  <2>3. Reached = FALSE
    BY DEF Init, Reached
  <2>. QED
    BY <2>1, <2>2, <2>3 DEF CustodyOf!Init
<1>. QED
  BY <1>1, CustodySteps, Inductive, PTL DEF Spec, KeepsCustody, CustodyOf!Spec, CustodyStep

----------------------------------------------------------------------------
(* ChatGate *)

GateAnswers == {"none", "sent", "unsent", "in", "expired", "wrong", "already", "cooling"}

GateRequests ==
  [kind : {"none", "start", "verify", "resend"}, s : Nat,
   step : {"none", "arriving", "issuing", "mailing", "counting", "opening", "greeting", "answered"},
   code : Nat, waiting : BOOLEAN, answer : GateAnswers]

GateTypeOK ==
  /\ created \subseteq Sessions /\ live \subseteq Sessions
  /\ cooling \subseteq Sessions /\ verified \subseteq Sessions
  /\ otp \in [Sessions -> Nat] /\ attempts \in [Sessions -> Nat] /\ greetings \in [Sessions -> Nat]
  /\ issued \in Nat /\ inbox \in Nat
  /\ phase \in {"form", "code", "chat"} /\ session \in Nat
  /\ told \in GateAnswers \cup {"no answer"}
  /\ reqs \in [Reqs -> GateRequests]
  /\ turns \in Nat /\ adrift \in Nat

(* The widget waits for one request at most.  A session is started by one  *)
(* request, and the others are of rows that exist.                         *)
RequestInv ==
  /\ phase = "code" => session \in created
  /\ cooling \subseteq created
  /\ \A r \in Reqs :
       /\ reqs[r].waiting => reqs[r].step # "none"
       /\ At(r, "start", "arriving") => reqs[r].s \in Sessions \ created
       /\ reqs[r].step # "none" /\ ~At(r, "start", "arriving") => reqs[r].s \in created
       /\ reqs[r].step = "greeting" => reqs[r].s \in verified
  /\ \A r, q \in Reqs : r # q =>
       /\ ~(reqs[r].waiting /\ reqs[q].waiting)
       /\ At(r, "start", "arriving") => reqs[q].s # reqs[r].s

(* While no request went on by itself, one at most is with the server, and *)
(* it issues a code only when the minute of the last one is over.          *)
MinuteInv ==
  adrift = 0 => \A r \in Reqs :
    /\ reqs[r].step \notin {"none", "answered"} => reqs[r].waiting
    /\ reqs[r].step = "issuing" => reqs[r].s \notin cooling

LEMMA GateNumbers ==
  ASSUME GateTypeOK
  PROVE  /\ turns \in Nat /\ adrift \in Nat /\ issued \in Nat
         /\ turns + 1 \in Nat /\ adrift + 1 \in Nat /\ issued + 1 \in Nat
         /\ \A r \in Reqs : reqs[r] \in GateRequests
<1>1. turns \in Nat /\ adrift \in Nat /\ issued \in Nat
  BY DEF GateTypeOK
<1>2. turns + 1 \in Nat /\ adrift + 1 \in Nat /\ issued + 1 \in Nat
  BY <1>1
<1>3. \A r \in Reqs : reqs[r] \in GateRequests
  BY DEF GateTypeOK
<1> QED BY <1>1, <1>2, <1>3

LEMMA NoReqIsGateRequest == NoReq \in GateRequests /\ NoReq.step = "none" /\ ~NoReq.waiting /\ NoReq.kind = "none" /\ NoReq.s = 0
BY DEF NoReq, GateRequests, GateAnswers

Asked(what, s, code) ==
  [NoReq EXCEPT !.kind = what, !.s = s, !.step = "arriving", !.code = code, !.waiting = TRUE]

LEMMA AskedIs ==
  ASSUME NEW what \in {"start", "verify", "resend"}, NEW s \in Nat, NEW code \in Nat
  PROVE  /\ Asked(what, s, code) \in GateRequests
         /\ Asked(what, s, code).kind = what /\ Asked(what, s, code).s = s
         /\ Asked(what, s, code).step = "arriving" /\ Asked(what, s, code).waiting
BY NoReqIsGateRequest DEF Asked, GateRequests

LEMMA Stepped ==
  ASSUME GateTypeOK, NEW r \in Reqs,
         NEW step \in {"issuing", "opening", "counting", "greeting"}, Step(r, step)
  PROVE  /\ reqs' \in [Reqs -> GateRequests]
         /\ reqs'[r].kind = reqs[r].kind /\ reqs'[r].s = reqs[r].s /\ reqs'[r].step = step
         /\ reqs'[r].waiting = reqs[r].waiting
         /\ \A q \in Reqs : q # r => reqs'[q] = reqs[q]
BY DEF GateTypeOK, GateRequests, Step

LEMMA Responded ==
  ASSUME GateTypeOK, NEW r \in Reqs, NEW answer \in GateAnswers, Respond(r, answer)
  PROVE  /\ reqs' \in [Reqs -> GateRequests]
         /\ reqs'[r].kind = reqs[r].kind /\ reqs'[r].s = reqs[r].s /\ reqs'[r].step = "answered"
         /\ reqs'[r].waiting = reqs[r].waiting
         /\ \A q \in Reqs : q # r => reqs'[q] = reqs[q]
BY DEF GateTypeOK, GateRequests, Respond

(* What a request is before and after a step of its own; the others stay.  *)
Moves(r, steps) ==
  /\ reqs' \in [Reqs -> GateRequests]
  /\ reqs'[r].kind = reqs[r].kind /\ reqs'[r].s = reqs[r].s /\ reqs'[r].step \in steps
  /\ reqs'[r].waiting = reqs[r].waiting
  /\ \A q \in Reqs : q # r => reqs'[q] = reqs[q]

LEMMA HandlerMoves ==
  ASSUME GateTypeOK, NEW r \in Reqs
  PROVE  /\ CreateSession(r) => Moves(r, {"issuing"})
         /\ IssueCode(r) => Moves(r, {"mailing"})
         /\ MailCode(r) \/ MailFails(r) \/ CountAttempt(r) \/ Greet(r) => Moves(r, {"answered"})
         /\ CheckCode(r) => Moves(r, {"answered", "counting", "opening"})
         /\ OpenChat(r) => Moves(r, {"greeting"})
         /\ CheckResend(r) => Moves(r, {"answered", "issuing"})
<1> USE DEF Moves, GateAnswers
<1>1. CreateSession(r) => Moves(r, {"issuing"})
  BY Stepped DEF CreateSession
<1>2. IssueCode(r) => Moves(r, {"mailing"})
  <2> SUFFICES ASSUME IssueCode(r) PROVE Moves(r, {"mailing"})
    OBVIOUS
  <2> DEFINE n == [reqs[r] EXCEPT !.step = "mailing", !.code = issued + 1]
  <2>1. reqs' = [reqs EXCEPT ![r] = n]
    BY DEF IssueCode, GateTypeOK
  <2>3. reqs[r] \in GateRequests /\ issued + 1 \in Nat
    BY GateNumbers
  <2>2. /\ n \in GateRequests /\ n.step = "mailing"
        /\ n.kind = reqs[r].kind /\ n.s = reqs[r].s /\ n.waiting = reqs[r].waiting
    BY <2>3 DEF GateRequests
  <2> HIDE DEF n
  <2> QED BY <2>1, <2>2 DEF GateTypeOK
<1>3. MailCode(r) \/ MailFails(r) \/ CountAttempt(r) \/ Greet(r) => Moves(r, {"answered"})
  BY Responded DEF MailCode, MailFails, CountAttempt, Greet
<1>4. CheckCode(r) => Moves(r, {"answered", "counting", "opening"})
  BY Responded, Stepped DEF CheckCode
<1>5. OpenChat(r) => Moves(r, {"greeting"})
  BY Stepped DEF OpenChat
<1>6. CheckResend(r) => Moves(r, {"answered", "issuing"})
  BY Responded, Stepped DEF CheckResend
<1> QED BY <1>1, <1>2, <1>3, <1>4, <1>5, <1>6

(* What the visitor does, as far as the invariants tell it apart.          *)
LEMMA VisitorMoves ==
  ASSUME GateTypeOK, RequestInv, NEW r \in Reqs, Start(r) \/ Enter(r) \/ EnterWrong(r) \/ Resend(r)
  PROVE  /\ reqs[r].step = "none" /\ \A q \in Reqs : ~reqs[q].waiting
         /\ reqs' \in [Reqs -> GateRequests]
         /\ reqs'[r].step = "arriving" /\ reqs'[r].waiting
         /\ \A q \in Reqs : q # r => reqs'[q] = reqs[q]
         /\ \/ reqs'[r].kind # "start" /\ reqs'[r].s \in created
            \/ /\ reqs'[r].kind = "start" /\ reqs'[r].s \in Sessions \ created
               /\ \A q \in Reqs : reqs[q].s # reqs'[r].s
         /\ UNCHANGED <<sessionRow, mail, phase, session>>
         /\ told' = "none" /\ turns' \in Nat /\ adrift' = adrift
<1>1. PICK what \in {"start", "verify", "resend"}, s \in Nat, code \in Nat :
        /\ Ask(r, what, s, code)
        /\ \/ what # "start" /\ s \in created
           \/ what = "start" /\ s \in Sessions \ created /\ \A q \in Reqs : reqs[q].s # s
  <2>1. CASE Start(r)
    BY <2>1 DEF Start, Fresh, Sessions
  <2>2. CASE Enter(r) \/ EnterWrong(r) \/ Resend(r)
    BY <2>2 DEF Enter, EnterWrong, Resend, GateTypeOK, RequestInv
  <2> QED BY <2>1, <2>2
<1>3. /\ reqs' = [reqs EXCEPT ![r] = Asked(what, s, code)] /\ reqs[r].step = "none" /\ \A q \in Reqs : ~reqs[q].waiting
      /\ told' = "none" /\ UNCHANGED <<sessionRow, mail, phase, session>>
  BY <1>1 DEF Ask, Busy, Asked
<1>4. Steady \/ Turn
  BY DEF Start, Enter, EnterWrong, Resend
<1>5. turns' \in Nat /\ adrift' = adrift
  <2>1. turns \in Nat /\ turns + 1 \in Nat
    BY GateNumbers
  <2> QED BY <1>4, <2>1 DEF Steady, Turn, Spend
<1>6. /\ reqs' \in [Reqs -> GateRequests] /\ reqs'[r] = Asked(what, s, code)
      /\ \A q \in Reqs : q # r => reqs'[q] = reqs[q]
  <2>1. reqs \in [Reqs -> GateRequests]
    BY DEF GateTypeOK
  <2>2. reqs' = [reqs EXCEPT ![r] = Asked(what, s, code)]
    BY <1>3
  <2>3. Asked(what, s, code) \in GateRequests
    BY AskedIs
  <2> QED BY <2>1, <2>2, <2>3
<1>7. reqs'[r].kind = what /\ reqs'[r].s = s /\ reqs'[r].step = "arriving"
  BY <1>6, AskedIs
<1>8. reqs'[r].waiting
  BY <1>6, AskedIs
<1>9. \/ reqs'[r].kind # "start" /\ reqs'[r].s \in created
      \/ /\ reqs'[r].kind = "start" /\ reqs'[r].s \in Sessions \ created
         /\ \A q \in Reqs : reqs[q].s # reqs'[r].s
  BY <1>1, <1>7
<1> QED BY <1>3, <1>5, <1>6, <1>7, <1>8, <1>9

LEMMA HeardMoves ==
  ASSUME GateTypeOK, NEW r \in Reqs, Hear(r)
  PROVE  /\ reqs' \in [Reqs -> GateRequests] /\ reqs[r].step = "answered"
         /\ reqs'[r].step = "none" /\ ~reqs'[r].waiting /\ reqs'[r].s = 0 /\ reqs'[r].kind = "none"
         /\ \A q \in Reqs : q # r => reqs'[q] = reqs[q]
         /\ phase' \in {"form", "code", "chat"} /\ told' \in GateAnswers \cup {"no answer"}
         /\ session' = reqs[r].s \/ (phase' = phase /\ session' = session)
         /\ UNCHANGED <<sessionRow, mail, turns, adrift>>
<1>1. reqs' = [reqs EXCEPT ![r] = NoReq] /\ reqs[r].step = "answered" /\ reqs[r].answer \in GateAnswers
  BY DEF Hear, GateTypeOK, GateRequests
<1>2. /\ phase' \in {"form", "code", "chat"} /\ told' \in GateAnswers \cup {"no answer"}
      /\ session' = reqs[r].s \/ (phase' = phase /\ session' = session)
  <2>1. CASE reqs[r].waiting
    <3>1. /\ phase' = Phase(r, reqs[r].answer) /\ session' = reqs[r].s /\ told' = reqs[r].answer
      BY <2>1 DEF Hear
    <3>2. Phase(r, reqs[r].answer) \in {"form", "code", "chat"}
      BY DEF Phase, GateTypeOK
    <3>3. told' \in GateAnswers \cup {"no answer"}
      BY <1>1, <3>1
    <3> QED BY <3>1, <3>2, <3>3
  <2>2. CASE ~reqs[r].waiting
    BY <2>2 DEF Hear, GateTypeOK, page
  <2> QED BY <2>1, <2>2
<1>3. reqs \in [Reqs -> GateRequests]
  BY DEF GateTypeOK
<1>4. /\ reqs' \in [Reqs -> GateRequests] /\ reqs'[r] = NoReq
      /\ \A q \in Reqs : q # r => reqs'[q] = reqs[q]
  BY <1>1, <1>3, NoReqIsGateRequest
<1>5. UNCHANGED <<sessionRow, mail, turns, adrift>>
  BY DEF Hear, Steady
<1> QED BY <1>1, <1>2, <1>4, <1>5, NoReqIsGateRequest

LEMMA GivenUpMoves ==
  ASSUME GateTypeOK, NEW r \in Reqs, GiveUp(r)
  PROVE  /\ reqs' \in [Reqs -> GateRequests] /\ reqs[r].waiting /\ ~reqs'[r].waiting
         /\ \A q \in Reqs : q # r => reqs'[q] = reqs[q]
         /\ \/ /\ reqs'[r].step = reqs[r].step /\ reqs'[r].s = reqs[r].s /\ reqs'[r].kind = reqs[r].kind
               /\ adrift' = adrift + 1
            \/ /\ reqs'[r].step = "none" /\ reqs'[r].s = 0 /\ reqs'[r].kind = "none"
               /\ adrift' = adrift
         /\ UNCHANGED <<sessionRow, mail, phase, session>>
         /\ told' = "no answer" /\ turns' \in Nat /\ adrift' \in Nat
<1>1. reqs[r].waiting /\ told' = "no answer" /\ UNCHANGED <<sessionRow, mail, phase, session>>
  BY DEF GiveUp
<1>2. turns' \in Nat
  <2>1. turns \in Nat /\ turns + 1 \in Nat
    BY GateNumbers
  <2> QED BY <2>1 DEF GiveUp, Spend
<1>3. CASE reqs' = [reqs EXCEPT ![r].waiting = FALSE] /\ adrift' = adrift + 1
  <2> DEFINE n == [reqs[r] EXCEPT !.waiting = FALSE]
  <2>0. reqs[r] \in GateRequests /\ adrift + 1 \in Nat
    BY GateNumbers
  <2>1. reqs' = [reqs EXCEPT ![r] = n]
    BY <1>3
  <2>2. /\ n \in GateRequests /\ ~n.waiting
        /\ n.kind = reqs[r].kind /\ n.s = reqs[r].s /\ n.step = reqs[r].step
    BY <2>0 DEF GateRequests
  <2> HIDE DEF n
  <2> QED BY <1>1, <1>2, <1>3, <2>0, <2>1, <2>2 DEF GateTypeOK
<1>4. CASE reqs' = [reqs EXCEPT ![r] = NoReq] /\ adrift' = adrift
  BY <1>1, <1>2, <1>4, NoReqIsGateRequest DEF GateTypeOK
<1> QED BY <1>3, <1>4 DEF GiveUp

LEMMA HandlerTypes ==
  ASSUME GateTypeOK, RequestInv, NEW r \in Reqs, Handler(r) \/ MailFails(r)
  PROVE  GateTypeOK'
<1> USE DEF Steady, sessionRow, mail, page
<1>1. reqs' \in [Reqs -> GateRequests]
  BY HandlerMoves DEF Handler, Moves
<1>2. /\ reqs[r] \in GateRequests /\ turns + 1 \in Nat /\ issued + 1 \in Nat
      /\ reqs[r].code \in Nat
  BY GateNumbers DEF GateRequests
<1>3. reqs[r].step \notin {"none", "arriving"} => reqs[r].s \in Sessions
  BY DEF RequestInv, At, GateTypeOK
<1>4. CASE CreateSession(r)
  BY <1>1, <1>4 DEF CreateSession, RequestInv, GateTypeOK
<1>5. CASE IssueCode(r)
  <2>1. /\ otp' \in [Sessions -> Nat] /\ attempts' \in [Sessions -> Nat]
        /\ live' \subseteq Sessions /\ cooling' \subseteq Sessions
    BY <1>2, <1>3, <1>5 DEF IssueCode, GateTypeOK
  <2> QED BY <1>1, <1>2, <1>5, <2>1 DEF IssueCode, GateTypeOK
<1>6. CASE MailCode(r) \/ CheckCode(r) \/ CheckResend(r)
  BY <1>1, <1>2, <1>6 DEF MailCode, CheckCode, CheckResend, GateTypeOK
<1>7. CASE MailFails(r)
  <2>1. turns' \in Nat /\ adrift' = adrift
    BY <1>2, <1>7 DEF MailFails, Turn, Spend
  <2> QED BY <1>1, <1>7, <2>1 DEF MailFails, GateTypeOK
<1>8. CASE CountAttempt(r)
  <2>1. \A s \in Sessions : attempts[s] + 1 \in Nat
    <3>1. \A s \in Sessions : attempts[s] \in Nat
      BY DEF GateTypeOK
    <3> QED BY <3>1
  <2>2. attempts' \in [Sessions -> Nat]
    BY <1>8, <2>1 DEF CountAttempt, GateTypeOK
  <2> QED BY <1>1, <1>8, <2>2 DEF CountAttempt, GateTypeOK
<1>9. CASE OpenChat(r)
  <2>1. /\ otp' \in [Sessions -> Nat] /\ attempts' \in [Sessions -> Nat]
        /\ live' \subseteq Sessions /\ verified' \subseteq Sessions
    BY <1>3, <1>9 DEF OpenChat, GateTypeOK
  <2> QED BY <1>1, <1>9, <2>1 DEF OpenChat, GateTypeOK
<1>10. CASE Greet(r)
  <2>1. \A s \in Sessions : greetings[s] + 1 \in Nat
    <3>1. \A s \in Sessions : greetings[s] \in Nat
      BY DEF GateTypeOK
    <3> QED BY <3>1
  <2>2. greetings' \in [Sessions -> Nat]
    BY <1>10, <2>1 DEF Greet, GateTypeOK
  <2> QED BY <1>1, <1>10, <2>2 DEF Greet, GateTypeOK
<1> QED BY <1>4, <1>5, <1>6, <1>7, <1>8, <1>9, <1>10 DEF Handler

(* What a handler does to a request leaves the others theirs.              *)
LEMMA MovesKeep ==
  ASSUME GateTypeOK, RequestInv, NEW r \in Reqs, NEW steps, Moves(r, steps),
         steps \cap {"none", "arriving"} = {}, reqs[r].step # "none",
         \/ created' = created /\ ~At(r, "start", "arriving")
         \/ At(r, "start", "arriving") /\ created' = created \cup {reqs[r].s},
         verified \subseteq verified', "greeting" \in steps => reqs[r].s \in verified',
         cooling' \subseteq created', UNCHANGED <<phase, session>>
  PROVE  RequestInv'
<1>1. reqs[r].s \in created' /\ created \subseteq created'
  BY DEF RequestInv
<1>2. ASSUME NEW q \in Reqs, At(q, "start", "arriving")'
      PROVE  q # r /\ At(q, "start", "arriving") /\ reqs'[q].s \in Sessions \ created'
  BY <1>2 DEF Moves, At, RequestInv
<1>3. ASSUME NEW q \in Reqs
      PROVE  /\ reqs'[q].waiting => reqs'[q].step # "none"
             /\ reqs'[q].step # "none" /\ ~At(q, "start", "arriving")' => reqs'[q].s \in created'
             /\ reqs'[q].step = "greeting" => reqs'[q].s \in verified'
  <2>1. CASE q = r
    BY <1>1, <2>1 DEF Moves
  <2>2. CASE q # r
    BY <1>1, <2>2 DEF Moves, At, RequestInv
  <2> QED BY <2>1, <2>2
<1>4. ASSUME NEW x \in Reqs, NEW q \in Reqs, x # q
      PROVE  /\ ~(reqs'[x].waiting /\ reqs'[q].waiting)
             /\ At(x, "start", "arriving")' => reqs'[q].s # reqs'[x].s
  <2>1. (reqs'[x].waiting => reqs[x].waiting) /\ (reqs'[q].waiting => reqs[q].waiting)
        /\ reqs'[x].s = reqs[x].s /\ reqs'[q].s = reqs[q].s
    BY DEF Moves
  <2> QED BY <1>2, <1>4, <2>1 DEF RequestInv
<1>5. (phase' = "code" => session' \in created') /\ cooling' \subseteq created'
  BY <1>1 DEF RequestInv
<1> QED BY <1>2, <1>3, <1>4, <1>5 DEF RequestInv

LEMMA HandlerRequests ==
  ASSUME GateTypeOK, RequestInv, NEW r \in Reqs, Handler(r) \/ MailFails(r)
  PROVE  RequestInv'
<1> USE DEF sessionRow, mail, page
<1>1. reqs[r].step # "none" /\ cooling \subseteq created
  BY DEF Handler, MailFails, CreateSession, IssueCode, MailCode, CheckCode, CountAttempt, OpenChat,
         Greet, CheckResend, At, RequestInv
<1>2. CASE CreateSession(r)
  BY <1>1, <1>2, HandlerMoves, MovesKeep DEF CreateSession
<1>3. CASE IssueCode(r)
  <2>1. reqs[r].s \in created /\ ~At(r, "start", "arriving")
    BY <1>3 DEF IssueCode, At, RequestInv
  <2> QED BY <1>1, <1>3, <2>1, HandlerMoves, MovesKeep DEF IssueCode
<1>4. CASE MailCode(r) \/ MailFails(r) \/ CountAttempt(r) \/ Greet(r)
  BY <1>1, <1>4, HandlerMoves, MovesKeep DEF MailCode, MailFails, CountAttempt, Greet, At
<1>5. CASE CheckCode(r) \/ CheckResend(r)
  BY <1>1, <1>5, HandlerMoves, MovesKeep DEF CheckCode, CheckResend, At
<1>6. CASE OpenChat(r)
  BY <1>1, <1>6, HandlerMoves, MovesKeep DEF OpenChat, At
<1> QED BY <1>2, <1>3, <1>4, <1>5, <1>6 DEF Handler

LEMMA VisitorRequests ==
  ASSUME GateTypeOK, RequestInv, NEW r \in Reqs, Visitor(r)
  PROVE  GateTypeOK' /\ RequestInv'
<1> USE DEF sessionRow, mail
<1>1. CASE Start(r) \/ Enter(r) \/ EnterWrong(r) \/ Resend(r)
  <2>1. GateTypeOK'
    BY <1>1, VisitorMoves DEF GateTypeOK, GateAnswers
  <2>2. \A q \in Reqs : ~reqs[q].waiting /\ (q # r => reqs'[q] = reqs[q])
    BY <1>1, VisitorMoves
  <2>3. reqs'[r].step = "arriving" /\ UNCHANGED <<created, cooling, verified, phase, session>>
    BY <1>1, VisitorMoves
  <2>4. \/ reqs'[r].kind # "start" /\ reqs'[r].s \in created
        \/ /\ reqs'[r].kind = "start" /\ reqs'[r].s \in Sessions \ created
           /\ \A q \in Reqs : reqs[q].s # reqs'[r].s
    BY <1>1, VisitorMoves
  <2>5. ASSUME NEW q \in Reqs
        PROVE  /\ reqs'[q].waiting => reqs'[q].step # "none"
               /\ At(q, "start", "arriving")' => reqs'[q].s \in Sessions \ created'
               /\ reqs'[q].step # "none" /\ ~At(q, "start", "arriving")' => reqs'[q].s \in created'
               /\ reqs'[q].step = "greeting" => reqs'[q].s \in verified'
    BY <2>2, <2>3, <2>4 DEF At, RequestInv
  <2>6. ASSUME NEW x \in Reqs, NEW q \in Reqs, x # q
        PROVE  /\ ~(reqs'[x].waiting /\ reqs'[q].waiting)
               /\ At(x, "start", "arriving")' => reqs'[q].s # reqs'[x].s
    BY <2>2, <2>4, <2>6 DEF At, RequestInv
  <2> QED BY <2>1, <2>3, <2>5, <2>6 DEF RequestInv
<1>2. CASE Hear(r) \/ GiveUp(r)
  <2>1. GateTypeOK'
    <3>1. reqs[r].s \in Nat
      BY GateNumbers DEF GateRequests
    <3> QED BY <1>2, <3>1, HeardMoves, GivenUpMoves DEF GateTypeOK
  <2>2. /\ reqs[r].step # "none" /\ ~reqs'[r].waiting
        /\ \A q \in Reqs : q # r => reqs'[q] = reqs[q]
        /\ UNCHANGED <<created, cooling, verified>>
    BY <1>2, HeardMoves, GivenUpMoves DEF RequestInv
  <2>3. \/ reqs'[r].step = "none" /\ reqs'[r].s = 0 /\ reqs'[r].kind = "none"
        \/ reqs'[r].step = reqs[r].step /\ reqs'[r].s = reqs[r].s /\ reqs'[r].kind = reqs[r].kind
    BY <1>2, HeardMoves, GivenUpMoves
  <2>4. phase' = "code" => session' \in created'
    <3>1. /\ phase = "code" => session \in created
          /\ reqs[r].step = "answered" => reqs[r].s \in created
      BY DEF RequestInv, At
    <3>2. \/ reqs[r].step = "answered" /\ session' = reqs[r].s
          \/ phase' = phase /\ session' = session
      BY <1>2, HeardMoves, GivenUpMoves
    <3> QED BY <2>2, <3>1, <3>2
  <2>5. ASSUME NEW q \in Reqs
        PROVE  /\ reqs'[q].waiting => reqs'[q].step # "none"
               /\ At(q, "start", "arriving")' => reqs'[q].s \in Sessions \ created'
               /\ reqs'[q].step # "none" /\ ~At(q, "start", "arriving")' => reqs'[q].s \in created'
               /\ reqs'[q].step = "greeting" => reqs'[q].s \in verified'
    BY <2>2, <2>3 DEF At, RequestInv
  <2>6. 0 \notin Sessions
    BY BoundsAssumption DEF Sessions
  <2>7. ASSUME NEW x \in Reqs, NEW q \in Reqs, x # q
        PROVE  /\ ~(reqs'[x].waiting /\ reqs'[q].waiting)
               /\ At(x, "start", "arriving")' => reqs'[q].s # reqs'[x].s
    BY <2>2, <2>3, <2>6, <2>7 DEF At, RequestInv
  <2> QED BY <2>1, <2>2, <2>4, <2>5, <2>7 DEF RequestInv
<1> QED BY <1>1, <1>2 DEF Visitor

LEMMA RequestStep == GateTypeOK /\ RequestInv /\ [GateNext]_gateVars => GateTypeOK' /\ RequestInv'
<1> SUFFICES ASSUME GateTypeOK, RequestInv, [GateNext]_gateVars PROVE GateTypeOK' /\ RequestInv'
  OBVIOUS
<1> USE DEF sessionRow, mail, page
<1>1. ASSUME NEW r \in Reqs, Visitor(r) PROVE GateTypeOK' /\ RequestInv'
  BY <1>1, VisitorRequests
<1>2. ASSUME NEW r \in Reqs, Handler(r) \/ MailFails(r) PROVE GateTypeOK' /\ RequestInv'
  BY <1>2, HandlerTypes, HandlerRequests
<1>3. CASE Leave \/ \E s \in Sessions : Cool(s) \/ Expire(s)
  <2>1. turns' \in Nat /\ adrift' = adrift
    BY <1>3, GateNumbers DEF Leave, Cool, Expire, Steady, Turn, Spend
  <2>2. /\ phase' \in {"form", phase} /\ session' \in {0, session} /\ told' \in {"none", told}
        /\ phase' = "code" => session' = session /\ phase' = phase
        /\ cooling' \subseteq cooling /\ live' \subseteq live
        /\ UNCHANGED <<created, otp, attempts, verified, greetings, mail, reqs>>
    BY <1>3 DEF Leave, Cool, Expire
  <2>3. GateTypeOK'
    <3>0. phase \in {"form", "code", "chat"} /\ session \in Nat
      BY DEF GateTypeOK
    <3>1. phase' \in {"form", "code", "chat"} /\ session' \in Nat
      BY <2>2, <3>0
    <3>2. told' \in GateAnswers \cup {"no answer"}
      BY <2>2 DEF GateTypeOK, GateAnswers
    <3> QED BY <2>1, <2>2, <3>1, <3>2 DEF GateTypeOK
  <2>4. RequestInv'
    BY <2>2 DEF RequestInv, At
  <2> QED BY <2>3, <2>4
<1>4. CASE UNCHANGED gateVars
  BY <1>4 DEF gateVars, GateTypeOK, RequestInv, At
<1> QED BY <1>1, <1>2, <1>3, <1>4 DEF GateNext

LEMMA MinuteStep ==
  GateTypeOK /\ RequestInv /\ MinuteInv /\ [GateNext]_gateVars => MinuteInv'
<1> SUFFICES ASSUME GateTypeOK, RequestInv, MinuteInv, [GateNext]_gateVars, adrift' = 0
             PROVE  \A q \in Reqs : /\ reqs'[q].step \notin {"none", "answered"} => reqs'[q].waiting
                                    /\ reqs'[q].step = "issuing" => reqs'[q].s \notin cooling'
  BY DEF MinuteInv
<1> USE DEF sessionRow, mail, page
<1>1. ASSUME NEW r \in Reqs, Visitor(r), NEW q \in Reqs
      PROVE  /\ reqs'[q].step \notin {"none", "answered"} => reqs'[q].waiting
             /\ reqs'[q].step = "issuing" => reqs'[q].s \notin cooling'
  <2>0. adrift \in Nat /\ adrift + 1 # 0
    BY GateNumbers
  <2>1. CASE Start(r) \/ Enter(r) \/ EnterWrong(r) \/ Resend(r)
    BY <2>1, VisitorMoves DEF MinuteInv
  <2>2. CASE Hear(r)
    BY <2>2, HeardMoves DEF MinuteInv
  <2>3. CASE GiveUp(r)
    BY <2>0, <2>3, GivenUpMoves DEF MinuteInv
  <2> QED BY <1>1, <2>1, <2>2, <2>3 DEF Visitor
<1>2. ASSUME NEW r \in Reqs, Handler(r) \/ MailFails(r), NEW q \in Reqs
      PROVE  /\ reqs'[q].step \notin {"none", "answered"} => reqs'[q].waiting
             /\ reqs'[q].step = "issuing" => reqs'[q].s \notin cooling'
  <2>1. adrift = 0
    BY <1>2 DEF Handler, MailFails, CreateSession, IssueCode, MailCode, CheckCode, CountAttempt,
                OpenChat, Greet, CheckResend, Steady, Turn
  <2>2. reqs[r].step \notin {"none", "answered"}
    BY <1>2 DEF Handler, MailFails, CreateSession, IssueCode, MailCode, CheckCode, CountAttempt,
                OpenChat, Greet, CheckResend, At
  <2>3. reqs[r].waiting /\ \A x \in Reqs : x # r => reqs[x].step \in {"none", "answered"}
    BY <2>1, <2>2 DEF MinuteInv, RequestInv
  <2>4. /\ reqs'[r].s = reqs[r].s /\ reqs'[r].waiting = reqs[r].waiting
        /\ \A x \in Reqs : x # r => reqs'[x] = reqs[x]
    BY <1>2, HandlerMoves DEF Handler, Moves
  <2>5. CASE q # r
    BY <2>3, <2>4, <2>5
  <2>6. ASSUME q = r, reqs'[r].step = "issuing" PROVE reqs[r].s \notin cooling'
    <3>1. CreateSession(r) \/ CheckResend(r)
      BY <1>2, <2>6, HandlerMoves DEF Handler, Moves
    <3>2. CASE CreateSession(r)
      BY <3>2 DEF CreateSession, RequestInv
    <3>3. CASE CheckResend(r)
      <4>1. reqs[r].s \notin cooling
        BY <2>6, <3>3, Responded, NoReqIsGateRequest DEF CheckResend, GateAnswers
      <4> QED BY <3>3, <4>1 DEF CheckResend
    <3> QED BY <3>1, <3>2, <3>3
  <2> QED BY <2>3, <2>4, <2>5, <2>6
<1>3. CASE Leave \/ \E s \in Sessions : Cool(s) \/ Expire(s)
  <2>1. adrift = 0 /\ reqs' = reqs /\ cooling' \subseteq cooling
    BY <1>3 DEF Leave, Cool, Expire, Steady, Turn
  <2> QED BY <2>1 DEF MinuteInv
<1>4. CASE UNCHANGED gateVars
  BY <1>4 DEF gateVars, MinuteInv
<1> QED BY <1>1, <1>2, <1>3, <1>4 DEF GateNext

----------------------------------------------------------------------------
(* Requests that may still greet s though the widget gave them up.         *)
Greeter(r) == reqs[r].step \in {"opening", "greeting"} \/ At(r, "verify", "arriving")

Lost(s) == {r \in Reqs : reqs[r].s = s /\ ~reqs[r].waiting /\ Greeter(r)}

(* The conversation is not open, or the widget waits for its greeting.     *)
Due(s) ==
  \/ s \notin verified
  \/ \E r \in Reqs : reqs[r].s = s /\ reqs[r].waiting /\ reqs[r].step \in {"opening", "greeting"}

GreetInv ==
  \A s \in Sessions : greetings[s] + Cardinality(Lost(s)) + (IF Due(s) THEN 1 ELSE 0) <= 1 + adrift

LEMMA LostFinite ==
  ASSUME NEW s
  PROVE  IsFiniteSet(Lost(s)) /\ Cardinality(Lost(s)) \in Nat
<1>1. IsFiniteSet(Reqs)
  BY FS_Interval, BoundsAssumption DEF Reqs
<1>2. Lost(s) \subseteq Reqs
  BY DEF Lost
<1> QED BY <1>1, <1>2, FS_Subset, FS_CardinalityType

(* What becomes of the count when one request moves.                       *)
LEMMA LostMoves ==
  ASSUME NEW s, NEW r \in Reqs, \A q \in Reqs : q # r => reqs'[q] = reqs[q]
  PROVE  /\ r \notin Lost(s)' => Cardinality(Lost(s)') <= Cardinality(Lost(s))
         /\ r \in Lost(s) => Cardinality(Lost(s)') <= Cardinality(Lost(s))
         /\ r \in Lost(s) /\ r \notin Lost(s)' => Cardinality(Lost(s)') = Cardinality(Lost(s)) - 1
         /\ Cardinality(Lost(s)') <= Cardinality(Lost(s)) + 1
         /\ Cardinality(Lost(s)) \in Nat /\ Cardinality(Lost(s)') \in Nat
<1> DEFINE old == Lost(s)
           new == Lost(s)'
<1>1. IsFiniteSet(old) /\ Cardinality(old) \in Nat
  BY LostFinite
<1>2. IsFiniteSet(new) /\ Cardinality(new) \in Nat
  <2>1. IsFiniteSet(Reqs)
    BY FS_Interval, BoundsAssumption DEF Reqs
  <2>2. new \subseteq Reqs
    BY DEF Lost
  <2> HIDE DEF new
  <2> QED BY <2>1, <2>2, FS_Subset, FS_CardinalityType
<1>3. new \ {r} = old \ {r}
  BY DEF Lost, Greeter, At
<1> HIDE DEF old, new
<1>4. Cardinality(old \ {r}) = IF r \in old THEN Cardinality(old) - 1 ELSE Cardinality(old)
  BY <1>1, FS_RemoveElement
<1>5. Cardinality(new \ {r}) = IF r \in new THEN Cardinality(new) - 1 ELSE Cardinality(new)
  BY <1>2, FS_RemoveElement
<1>6. /\ r \notin new => Cardinality(new) <= Cardinality(old)
      /\ r \in old => Cardinality(new) <= Cardinality(old)
      /\ r \in old /\ r \notin new => Cardinality(new) = Cardinality(old) - 1
      /\ Cardinality(new) <= Cardinality(old) + 1
  BY <1>1, <1>2, <1>3, <1>4, <1>5
<1> QED BY <1>1, <1>2, <1>6 DEF old, new

GreetingsOf(s) == greetings[s] + Cardinality(Lost(s)) + (IF Due(s) THEN 1 ELSE 0) <= 1 + adrift

(* A request moves, and s is neither greeted nor owed more than before.    *)
LEMMA MovesUngreeted ==
  ASSUME GateTypeOK, NEW r \in Reqs, \A q \in Reqs : q # r => reqs'[q] = reqs[q],
         NEW s \in Sessions, GreetingsOf(s),
         verified \subseteq verified', greetings'[s] = greetings[s], adrift' = adrift,
         r \in Lost(s)' => r \in Lost(s),
         reqs'[r].s = s /\ reqs'[r].waiting /\ reqs'[r].step \in {"opening", "greeting"} => Due(s)
  PROVE  GreetingsOf(s)'
<1>1. Due(s)' => Due(s)
  BY DEF Due
<1>2. /\ Cardinality(Lost(s)') <= Cardinality(Lost(s))
      /\ Cardinality(Lost(s)) \in Nat /\ Cardinality(Lost(s)') \in Nat
  BY LostMoves
<1>3. greetings[s] \in Nat /\ adrift \in Nat
  BY DEF GateTypeOK
<1> QED BY <1>1, <1>2, <1>3 DEF GreetingsOf

LEMMA HandlerGreets ==
  ASSUME GateTypeOK, RequestInv, NEW r \in Reqs, Handler(r) \/ MailFails(r),
         NEW s \in Sessions, GreetingsOf(s)
  PROVE  GreetingsOf(s)'
<1> USE DEF sessionRow, mail, page, Steady
<1>1. adrift' = adrift
  BY DEF Handler, MailFails, CreateSession, IssueCode, MailCode, CheckCode, CountAttempt,
         OpenChat, Greet, CheckResend, Turn
<1>2. /\ reqs'[r].s = reqs[r].s /\ reqs'[r].waiting = reqs[r].waiting /\ reqs'[r].kind = reqs[r].kind
      /\ \A q \in Reqs : q # r => reqs'[q] = reqs[q]
  BY HandlerMoves DEF Handler, Moves
<1>3. CASE CreateSession(r) \/ IssueCode(r) \/ MailCode(r) \/ MailFails(r) \/ CountAttempt(r) \/ CheckResend(r)
  <2>1. verified' = verified /\ greetings' = greetings
    BY <1>3 DEF CreateSession, IssueCode, MailCode, MailFails, CountAttempt, CheckResend
  <2>2. reqs'[r].step \in {"issuing", "mailing", "answered"}
    BY <1>3, HandlerMoves DEF Moves
  <2>3. r \notin Lost(s)'
    BY <2>2 DEF Lost, Greeter, At
  <2> QED BY <1>1, <1>2, <2>1, <2>2, <2>3, MovesUngreeted
<1>4. CASE CheckCode(r)
  <2>1. verified' = verified /\ greetings' = greetings /\ At(r, "verify", "arriving")
    BY <1>4 DEF CheckCode
  <2>2. reqs'[r].step \in {"answered", "counting", "opening"}
    BY <1>4, HandlerMoves DEF Moves
  <2>3. r \in Lost(s)' => r \in Lost(s)
    BY <1>2, <2>1 DEF Lost, Greeter
  <2>4. reqs'[r].step = "opening" => reqs[r].s \notin verified
    BY <1>4, Responded DEF CheckCode, GateAnswers
  <2> QED BY <1>1, <1>2, <2>1, <2>3, <2>4, <2>2, MovesUngreeted DEF Due
<1>5. CASE OpenChat(r)
  <2>1. /\ verified \subseteq verified' /\ greetings' = greetings
        /\ reqs[r].step = "opening" /\ reqs'[r].step = "greeting"
    BY <1>5, HandlerMoves DEF OpenChat, Moves
  <2>2. r \in Lost(s)' => r \in Lost(s)
    BY <1>2, <2>1 DEF Lost, Greeter
  <2> QED BY <1>1, <1>2, <2>1, <2>2, MovesUngreeted DEF Due
<1>6. CASE Greet(r)
  <2>1. /\ verified' = verified /\ reqs[r].step = "greeting" /\ reqs'[r].step = "answered"
        /\ greetings' = [greetings EXCEPT ![reqs[r].s] = @ + 1]
    BY <1>6, HandlerMoves DEF Greet, Moves
  <2>2. r \notin Lost(s)'
    BY <2>1 DEF Lost, Greeter, At
  <2>3. CASE reqs[r].s # s
    <3>1. greetings'[s] = greetings[s]
      BY <2>1, <2>3 DEF GateTypeOK
    <3> QED BY <1>1, <1>2, <2>1, <2>2, <3>1, MovesUngreeted
  <2>4. CASE reqs[r].s = s
    <3>1. greetings'[s] = greetings[s] + 1
      BY <2>1, <2>4 DEF GateTypeOK
    <3>2. s \in verified
      BY <2>1, <2>4 DEF RequestInv
    <3>3. /\ Cardinality(Lost(s)') <= Cardinality(Lost(s))
          /\ r \in Lost(s) => Cardinality(Lost(s)') = Cardinality(Lost(s)) - 1
          /\ Cardinality(Lost(s)) \in Nat /\ Cardinality(Lost(s)') \in Nat
      BY <1>2, <2>2, LostMoves
    <3>4. greetings[s] \in Nat /\ adrift \in Nat
      BY DEF GateTypeOK
    <3>5. CASE reqs[r].waiting
      <4>1. Due(s)
        BY <2>1, <2>4, <3>5 DEF Due
      <4>2. ~Due(s)'
        BY <1>2, <2>1, <3>2, <3>5 DEF Due, RequestInv
      <4> QED BY <1>1, <3>1, <3>3, <3>4, <4>1, <4>2 DEF GreetingsOf
    <3>6. CASE ~reqs[r].waiting
      <4>1. r \in Lost(s)
        BY <2>1, <2>4, <3>6 DEF Lost, Greeter
      <4>2. Due(s)' => Due(s)
        BY <1>2, <2>1, <3>6 DEF Due
      <4> QED BY <1>1, <3>1, <3>3, <3>4, <4>1, <4>2 DEF GreetingsOf
    <3> QED BY <3>5, <3>6
  <2> QED BY <2>3, <2>4
<1> QED BY <1>3, <1>4, <1>5, <1>6 DEF Handler

LEMMA VisitorGreets ==
  ASSUME GateTypeOK, RequestInv, NEW r \in Reqs, Visitor(r), NEW s \in Sessions, GreetingsOf(s)
  PROVE  GreetingsOf(s)'
<1> USE DEF sessionRow
<1>1. CASE Start(r) \/ Enter(r) \/ EnterWrong(r) \/ Resend(r)
  <2>1. /\ reqs'[r].step = "arriving" /\ reqs'[r].waiting /\ adrift' = adrift
        /\ \A q \in Reqs : q # r => reqs'[q] = reqs[q]
        /\ UNCHANGED <<verified, greetings>>
    BY <1>1, VisitorMoves
  <2>2. r \notin Lost(s)'
    BY <2>1 DEF Lost
  <2> QED BY <2>1, <2>2, MovesUngreeted
<1>2. CASE Hear(r) \/ (GiveUp(r) /\ adrift' = adrift)
  <2>1. adrift \in Nat /\ adrift # adrift + 1
    BY GateNumbers
  <2>2. /\ reqs'[r].step = "none" /\ adrift' = adrift
        /\ \A q \in Reqs : q # r => reqs'[q] = reqs[q]
        /\ UNCHANGED <<verified, greetings>>
    BY <1>2, <2>1, HeardMoves, GivenUpMoves
  <2>3. r \notin Lost(s)'
    BY <2>2 DEF Lost, Greeter, At
  <2> QED BY <2>2, <2>3, MovesUngreeted
<1>3. CASE GiveUp(r) /\ adrift' # adrift
  <2>1. /\ ~reqs'[r].waiting /\ adrift' = adrift + 1
        /\ \A q \in Reqs : q # r => reqs'[q] = reqs[q]
        /\ UNCHANGED <<verified, greetings>>
    BY <1>3, GivenUpMoves
  <2>2. Due(s)' => Due(s)
    BY <2>1 DEF Due
  <2>3. /\ Cardinality(Lost(s)') <= Cardinality(Lost(s)) + 1
        /\ Cardinality(Lost(s)) \in Nat /\ Cardinality(Lost(s)') \in Nat
    BY <2>1, LostMoves
  <2>4. greetings[s] \in Nat /\ adrift \in Nat
    BY DEF GateTypeOK
  <2> QED BY <2>1, <2>2, <2>3, <2>4 DEF GreetingsOf
<1> QED BY <1>1, <1>2, <1>3 DEF Visitor

LEMMA GreetStep ==
  GateTypeOK /\ RequestInv /\ GreetInv /\ [GateNext]_gateVars => GreetInv'
<1> SUFFICES ASSUME GateTypeOK, RequestInv, GreetInv, [GateNext]_gateVars,
                    NEW s \in Sessions, GreetingsOf(s)
             PROVE  GreetingsOf(s)'
  BY DEF GreetInv, GreetingsOf
<1>1. ASSUME NEW r \in Reqs, Visitor(r) PROVE GreetingsOf(s)'
  BY <1>1, VisitorGreets
<1>2. ASSUME NEW r \in Reqs, Handler(r) \/ MailFails(r) PROVE GreetingsOf(s)'
  BY <1>2, HandlerGreets
<1>3. CASE (Leave \/ \E x \in Sessions : Cool(x) \/ Expire(x)) \/ UNCHANGED gateVars
  <2>1. UNCHANGED <<verified, greetings, reqs, adrift>>
    BY <1>3 DEF Leave, Cool, Expire, Steady, Turn, gateVars, sessionRow
  <2>2. Lost(s)' = Lost(s) /\ Due(s)' = Due(s)
    BY <2>1 DEF Lost, Greeter, At, Due
  <2> QED BY <2>1, <2>2 DEF GreetingsOf
<1> QED BY <1>1, <1>2, <1>3 DEF GateNext

LEMMA GateStarts == GateInit => GateTypeOK /\ RequestInv /\ MinuteInv /\ GreetInv
<1> SUFFICES ASSUME GateInit PROVE GateTypeOK /\ RequestInv /\ MinuteInv /\ GreetInv
  OBVIOUS
<1>1. \A r \in Reqs : reqs[r] = NoReq
  BY DEF GateInit
<1>2. GateTypeOK
  <2>1. reqs \in [Reqs -> GateRequests]
    BY NoReqIsGateRequest DEF GateInit
  <2> QED BY <2>1 DEF GateInit, GateTypeOK, GateAnswers
<1>3. RequestInv /\ MinuteInv
  BY <1>1, NoReqIsGateRequest DEF GateInit, RequestInv, MinuteInv, At
<1>4. ASSUME NEW s \in Sessions PROVE GreetingsOf(s)
  <2>1. Lost(s) = {}
    BY <1>1, NoReqIsGateRequest DEF Lost, Greeter, At
  <2>2. Cardinality(Lost(s)) = 0
    BY <2>1, FS_EmptySet
  <2> QED BY <2>2 DEF GreetingsOf, GateInit
<1> QED BY <1>2, <1>3, <1>4 DEF GreetInv, GreetingsOf

(* Rows, codes, requests and the widget's screen keep their types          *)
(* (chat.routes.ts:37-207).                                                *)
THEOREM GateTypeCorrect == GateSpec => []GateTypeOK
<1>1. GateTypeOK /\ RequestInv /\ [GateNext]_gateVars => GateTypeOK' /\ RequestInv'
  BY RequestStep
<1> QED BY <1>1, GateStarts, PTL DEF GateSpec

(* A conversation has one greeting, and one more at most for each request  *)
(* that went on after it was given up, however many codes are entered,     *)
(* lost or asked for again (chat.routes.ts:118-124, 153-160).              *)
THEOREM GreetedOnceEach == GateSpec => []GreetedOnce
<1>1. GateTypeOK /\ RequestInv /\ GreetInv => GreetedOnce
  <2> SUFFICES ASSUME GateTypeOK, GreetInv, NEW s \in Sessions PROVE greetings[s] <= 1 + adrift
    BY DEF GreetedOnce
  <2>1. greetings[s] \in Nat /\ adrift \in Nat
    BY DEF GateTypeOK
  <2>2. greetings[s] + Cardinality(Lost(s)) + (IF Due(s) THEN 1 ELSE 0) <= 1 + adrift
    BY DEF GreetInv
  <2> QED BY <2>1, <2>2, LostFinite
<1>2. GateTypeOK /\ RequestInv /\ GreetInv /\ [GateNext]_gateVars
        => GateTypeOK' /\ RequestInv' /\ GreetInv'
  BY RequestStep, GreetStep
<1> QED BY <1>1, <1>2, GateStarts, PTL DEF GateSpec

(* No step replaces a code within its minute, except the one that opens    *)
(* the conversation, as long as no request went on after it was given up   *)
(* (chat.routes.ts:177, 194-204).                                          *)
THEOREM MinuteKept == GateSpec => NoCodeTooSoon
<1> DEFINE KeepsCode == \A s \in Sessions : s \in cooling /\ otp'[s] # otp[s] => s \in verified' \/ adrift > 0
<1>1. GateTypeOK /\ RequestInv /\ MinuteInv /\ [GateNext]_gateVars => [KeepsCode]_gateVars
  <2> SUFFICES ASSUME GateTypeOK, RequestInv, MinuteInv, [GateNext]_gateVars,
                      NEW s \in Sessions, s \in cooling, otp'[s] # otp[s], ~(adrift > 0)
               PROVE  s \in verified'
    OBVIOUS
  <2> USE DEF sessionRow
  <2>1. adrift = 0
    BY GateNumbers
  <2>2. ASSUME NEW r \in Reqs, Visitor(r) PROVE FALSE
    BY <2>2, VisitorMoves, HeardMoves, GivenUpMoves DEF Visitor
  <2>3. ASSUME NEW r \in Reqs, Handler(r) \/ MailFails(r), ~OpenChat(r) PROVE FALSE
    <3>1. CASE IssueCode(r)
      <4>1. reqs[r].s \notin cooling
        BY <2>1, <3>1 DEF IssueCode, MinuteInv
      <4> QED BY <3>1, <4>1 DEF IssueCode, GateTypeOK
    <3>2. CASE ~IssueCode(r)
      BY <2>3, <3>2 DEF Handler, MailFails, CreateSession, MailCode, CheckCode, CountAttempt, Greet,
                        CheckResend
    <3> QED BY <3>1, <3>2
  <2>4. ASSUME NEW r \in Reqs, OpenChat(r) PROVE s \in verified'
    <3>1. s = reqs[r].s
      BY <2>4 DEF OpenChat, GateTypeOK
    <3> QED BY <2>4, <3>1 DEF OpenChat
  <2>5. CASE (Leave \/ \E x \in Sessions : Cool(x) \/ Expire(x)) \/ UNCHANGED gateVars
    BY <2>5 DEF Leave, Cool, Expire, gateVars
  <2> QED BY <2>2, <2>3, <2>4, <2>5 DEF GateNext
<1>2. GateTypeOK /\ RequestInv /\ MinuteInv /\ [GateNext]_gateVars
        => GateTypeOK' /\ RequestInv' /\ MinuteInv'
  BY RequestStep, MinuteStep
<1> QED BY <1>1, <1>2, GateStarts, PTL DEF GateSpec, NoCodeTooSoon

----------------------------------------------------------------------------
(* ChatWidget *)

(* Every row of the log has a time, and says something.                    *)
Sayings == [role : {"VISITOR", "ASSISTANT", "SYSTEM", "AGENT"},
            text : {"hi", "answer", "handoff", "notice", "note", "already", "greeting", "reply", "pushed"}]

LogRows == [at : Nat \ {0}, says : Sayings]

ChatStatuses == {"BOT"} \cup With

PostRequests ==
  [step : {"none", "message", "escalate", "thinking", "telling", "answered", "done"},
   waiting : BOOLEAN, reply : SUBSET Said, row : SUBSET LogRows, status : {"none"} \cup ChatStatuses]

GetRequests ==
  [step : {"none", "arriving", "copying", "answered"}, kind : {"poll", "history"}, since : Nat,
   fetched : SUBSET LogRows, rows : SUBSET LogRows, status : {"none"} \cup ChatStatuses, passed : BOOLEAN]

WidgetTypeOK ==
  /\ chatStatus \in ChatStatuses /\ carded \in BOOLEAN
  /\ log \subseteq LogRows /\ typed \subseteq LogRows /\ IsFiniteSet(log) /\ IsFiniteSet(typed)
  /\ clock \in Nat /\ last \in Nat /\ opens \in Nat /\ upsets \in Nat
  /\ seen \in ChatStatuses /\ shown \subseteq LogRows /\ own \in [Said -> Nat]
  /\ posts \in [Posts -> PostRequests] /\ gets \in [Gets -> GetRequests]
  /\ \A p \in Posts : posts[p].step = "answered" => posts[p].status \in ChatStatuses
  /\ \A g \in Gets : gets[g].step = "answered" => gets[g].status \in ChatStatuses
  /\ overtaken \in BOOLEAN /\ stale \in BOOLEAN /\ early \subseteq Said /\ late \subseteq LogRows

(* Under way, from the widget or in the API.                               *)
Active(p) == posts[p].step \notin {"none", "done"}

(* The team has the card, and there are replies to copy, only while it     *)
(* keeps the conversation; only one request is about to tell it.           *)
TeamInv ==
  /\ carded => chatStatus \in With /\ \A p \in Posts : posts[p].step # "telling"
  /\ typed # {} => carded
  /\ \A p \in Posts : posts[p].step = "telling" => chatStatus \in With
  /\ \A p, q \in Posts : posts[p].step = "telling" /\ posts[q].step = "telling" => p = q
  /\ \A g \in Gets : gets[g].step = "copying" => carded

(* One request at a time is waited for, and as long as none failed no      *)
(* other is under way: what it is told of the status is then still so.     *)
AskInv ==
  /\ \A p \in Posts : posts[p].waiting => Active(p)
  /\ \A p, q \in Posts : posts[p].waiting /\ posts[q].waiting => p = q
  /\ upsets = 0 => \A p \in Posts :
       /\ Active(p) => posts[p].waiting
       /\ posts[p].step = "thinking" => chatStatus = "BOT"
       /\ posts[p].step = "answered" /\ posts[p].status \notin With => chatStatus = "BOT"

(* The team has, or is about to get, a conversation of which the widget    *)
(* has not heard.                                                          *)
Unheard == \E p \in Posts :
  \/ posts[p].step = "telling"
  \/ posts[p].step = "answered" /\ posts[p].status \in With

WatchInv ==
  upsets = 0 /\ chatStatus \in With =>
    \/ Unheard
    \/ /\ seen \in With \/ stale
       /\ \A g \in Gets : gets[g].step = "answered" /\ gets[g].status \notin With => gets[g].passed

(* No two rows have the same time, whether they are stored or only typed.  *)
TimeInv ==
  /\ \A r \in log \cup typed : r.at <= clock
  /\ \A r \in typed, q \in log \cup typed : r.at = q.at => r = q
  /\ last = 0 \/ \E r \in log : r.at = last
  /\ \A g \in Gets : gets[g].fetched \subseteq typed

(* An answer has no gaps: of what is between the time it asked for and     *)
(* the newest of its rows it lacks only what was stored late.              *)
ReadsInv ==
  /\ shown \subseteq log
  /\ \A g \in Gets :
       /\ gets[g].rows \subseteq log
       /\ gets[g].kind = "history" => gets[g].since = 0
       /\ \A r \in log, q \in gets[g].rows :
            gets[g].since < r.at /\ r.at <= q.at => r \in gets[g].rows \cup late

Counted == {Hi, Reply, HandoffNote}

(* What an answer says beside the question is in the log: its row.         *)
RowInv ==
  \A p \in Posts :
    /\ posts[p].row \subseteq log
    /\ posts[p].reply \subseteq Said \ {Hi}
    /\ posts[p].step # "answered" => posts[p].reply = {}
    /\ \A m \in posts[p].reply \cap Counted : \E x \in posts[p].row : x.says = m

(* How often m is listed, and is in the log soon.                          *)
Listed(m) == own[m] + Rows(shown, m)

Coming(m) == IF m = Hi /\ \E p \in Posts : posts[p].step = "message" THEN 1 ELSE 0

(* No message is listed more often than stored; and if an answer with it   *)
(* is on its way, either its row is listed or there is room for the copy.  *)
TwiceInv ==
  upsets = 0 => \A m \in Counted \ early :
    /\ Listed(m) <= Rows(log, m) + Coming(m)
    /\ \A p \in Posts : m \in posts[p].reply =>
         posts[p].row \cap shown # {} \/ Listed(m) + 1 <= Rows(log, m)


LEMMA SaidAre ==
  /\ Said \subseteq Sayings /\ Counted \subseteq Said /\ Hi \in Counted
  /\ Pushed \in Sayings /\ Says("AGENT", "reply") \in Sayings /\ Says("SYSTEM", "notice") \in Sayings
  /\ Says("SYSTEM", "note") \in Said \ Counted /\ Says("SYSTEM", "already") \in Said \ Counted
  /\ Says("ASSISTANT", "notice") \in Said \ Counted
  /\ Reply \in Counted \ {Hi} /\ HandoffNote \in Counted \ {Hi}
  /\ Says("ASSISTANT", "greeting") \in Sayings
BY DEF Said, Sayings, Counted, Hi, Reply, HandoffNote, Pushed, Says

LEMMA NextRowIs ==
  ASSUME WidgetTypeOK, NEW says \in Sayings
  PROVE  NextRow(says) \in LogRows /\ NextRow(says).at = clock + 1 /\ NextRow(says).says = says
<1>1. clock + 1 \in Nat \ {0}
  <2>1. clock \in Nat
    BY DEF WidgetTypeOK
  <2> QED BY <2>1
<1> QED BY <1>1 DEF NextRow, Row, LogRows

LEMMA WidgetNumbers ==
  ASSUME WidgetTypeOK
  PROVE  /\ clock \in Nat /\ upsets \in Nat /\ opens \in Nat /\ last \in Nat
         /\ clock + 1 \in Nat /\ upsets + 1 \in Nat /\ opens + 1 \in Nat
         /\ \A p \in Posts : posts[p] \in PostRequests
         /\ \A g \in Gets : gets[g] \in GetRequests
<1>1. clock \in Nat /\ upsets \in Nat /\ opens \in Nat /\ last \in Nat
  BY DEF WidgetTypeOK
<1>2. (\A p \in Posts : posts[p] \in PostRequests) /\ (\A g \in Gets : gets[g] \in GetRequests)
  BY DEF WidgetTypeOK
<1> QED BY <1>1, <1>2

----------------------------------------------------------------------------
(* What becomes of a message or a press, and that the others stay.         *)
OthersStay(p) == posts' \in [Posts -> PostRequests] /\ \A q \in Posts : q # p => posts'[q] = posts[q]

LEMMA NoPostIs ==
  /\ NoPost \in PostRequests /\ NoPost.step = "none" /\ ~NoPost.waiting
  /\ NoPost.reply = {} /\ NoPost.row = {} /\ NoPost.status = "none"
BY DEF NoPost, PostRequests

LEMMA Went ==
  ASSUME WidgetTypeOK, NEW p \in Posts, NEW step \in {"thinking", "telling"}, PostGoto(p, step)
  PROVE  /\ OthersStay(p) /\ posts'[p].step = step /\ posts'[p].waiting = posts[p].waiting
         /\ posts'[p].reply = posts[p].reply /\ posts'[p].row = posts[p].row
BY DEF WidgetTypeOK, PostRequests, PostGoto, OthersStay

LEMMA AnsweredIs ==
  ASSUME WidgetTypeOK, NEW p \in Posts, NEW reply \in SUBSET Said, NEW put \in SUBSET LogRows,
         NEW heard \in ChatStatuses, Answered(p, reply, put, heard)
  PROVE  /\ OthersStay(p) /\ posts'[p].step = "answered" /\ posts'[p].waiting = posts[p].waiting
         /\ posts'[p].reply = reply /\ posts'[p].row = put /\ posts'[p].status = heard
BY DEF WidgetTypeOK, PostRequests, Answered, OthersStay

LEMMA Began ==
  ASSUME WidgetTypeOK, NEW p \in Posts, NEW step \in {"message", "escalate"}, Begin(p, step)
  PROVE  /\ OthersStay(p) /\ posts'[p].step = step /\ posts'[p].waiting
         /\ posts'[p].reply = {} /\ posts'[p].row = {}
         /\ posts[p].step = "none" /\ \A q \in Posts : ~posts[q].waiting
<1> DEFINE n == [NoPost EXCEPT !.step = step, !.waiting = TRUE]
<1>1. n \in PostRequests /\ n.step = step /\ n.waiting /\ n.reply = {} /\ n.row = {}
  BY NoPostIs DEF PostRequests
<1>2. posts' = [posts EXCEPT ![p] = n] /\ posts[p].step = "none" /\ \A q \in Posts : ~posts[q].waiting
  BY DEF Begin, Sending
<1> HIDE DEF n
<1> QED BY <1>1, <1>2 DEF WidgetTypeOK, OthersStay

LEMMA DoneIs ==
  ASSUME WidgetTypeOK, NEW p \in Posts, Done(p)
  PROVE  /\ OthersStay(p) /\ posts'[p].step = "done" /\ ~posts'[p].waiting
         /\ posts'[p].reply = {} /\ posts'[p].row = {}
<1> DEFINE n == [NoPost EXCEPT !.step = "done"]
<1>1. n \in PostRequests /\ n.step = "done" /\ ~n.waiting /\ n.reply = {} /\ n.row = {}
  BY NoPostIs DEF PostRequests
<1>2. posts' = [posts EXCEPT ![p] = n]
  BY DEF Done
<1> HIDE DEF n
<1> QED BY <1>1, <1>2 DEF WidgetTypeOK, OthersStay

LEMMA LeftAlone ==
  ASSUME WidgetTypeOK, NEW p \in Posts, posts' = [posts EXCEPT ![p].waiting = FALSE]
  PROVE  /\ OthersStay(p) /\ posts'[p].step = posts[p].step /\ ~posts'[p].waiting
         /\ posts'[p].reply = posts[p].reply /\ posts'[p].row = posts[p].row
         /\ posts'[p].status = posts[p].status
BY DEF WidgetTypeOK, PostRequests, OthersStay

----------------------------------------------------------------------------
(* The same of a read of the log.                                          *)
OtherReadsStay(g) == gets' \in [Gets -> GetRequests] /\ \A h \in Gets : h # g => gets'[h] = gets[h]

LEMMA NoGetIs ==
  /\ NoGet \in GetRequests /\ NoGet.step = "none" /\ NoGet.kind = "poll" /\ NoGet.fetched = {}
  /\ NoGet.rows = {} /\ NoGet.since = 0
BY DEF NoGet, GetRequests

LEMMA LoadingIs ==
  ASSUME WidgetTypeOK, NEW g \in Gets, NEW since \in Nat, NEW kind \in {"poll", "history"},
         gets' = [gets EXCEPT ![g] = Loading(since, kind)]
  PROVE  /\ OtherReadsStay(g) /\ gets'[g].step = "arriving" /\ gets'[g].kind = kind
         /\ gets'[g].since = since /\ gets'[g].fetched = {} /\ gets'[g].rows = {}
<1>1. /\ Loading(since, kind) \in GetRequests /\ Loading(since, kind).step = "arriving"
      /\ Loading(since, kind).kind = kind /\ Loading(since, kind).since = since
      /\ Loading(since, kind).fetched = {} /\ Loading(since, kind).rows = {}
  BY NoGetIs DEF Loading, GetRequests
<1> QED BY <1>1 DEF WidgetTypeOK, OtherReadsStay

LEMMA DroppedIs ==
  ASSUME WidgetTypeOK, NEW g \in Gets, gets' = [gets EXCEPT ![g] = NoGet]
  PROVE  OtherReadsStay(g) /\ gets'[g] = NoGet
BY NoGetIs DEF WidgetTypeOK, OtherReadsStay

LEMMA NewerIs ==
  ASSUME NEW rows \in SUBSET LogRows, IsFiniteSet(rows), NEW since \in Nat
  PROVE  /\ Newer(rows, since) \subseteq rows
         /\ \A r \in rows, q \in Newer(rows, since) :
              since < r.at /\ r.at <= q.at => r \in Newer(rows, since)
<1>1. Newer(rows, since) \subseteq rows
  BY DEF Newer
<1>2. ASSUME NEW r \in rows, NEW q \in Newer(rows, since), since < r.at, r.at <= q.at
      PROVE  r \in Newer(rows, since)
  <2> DEFINE Before(x) == {y \in rows : since < y.at /\ y.at < x.at}
  <2>1. q \in rows /\ Cardinality(Before(q)) < Page
    BY <1>2 DEF Newer
  <2>2. \A y \in rows : y.at \in Nat
    BY DEF LogRows
  <2>3. Before(r) \subseteq Before(q) /\ Before(q) \subseteq rows
    BY <1>2, <2>1, <2>2
  <2>4. /\ IsFiniteSet(Before(q)) /\ Cardinality(Before(r)) <= Cardinality(Before(q))
        /\ Cardinality(Before(r)) \in Nat /\ Cardinality(Before(q)) \in Nat
    <3> HIDE DEF Before
    <3>1. IsFiniteSet(Before(q)) /\ IsFiniteSet(Before(r))
      BY <2>3, FS_Subset
    <3> QED BY <2>3, <3>1, FS_Subset, FS_CardinalityType
  <2>5. Cardinality(Before(r)) < Page
    BY <2>1, <2>4, WidgetAssumption
  <2> QED BY <1>2, <2>5 DEF Newer
<1> QED BY <1>1, <1>2

LEMMA LogIsRead ==
  ASSUME WidgetTypeOK, NEW g \in Gets, NEW rows \in SUBSET LogRows, IsFiniteSet(rows),
         NEW heard \in ChatStatuses, ReadLog(g, rows, heard)
  PROVE  /\ OtherReadsStay(g) /\ gets'[g].step = "answered" /\ gets'[g].kind = gets[g].kind
         /\ gets'[g].since = gets[g].since /\ gets'[g].fetched = {} /\ gets'[g].status = heard
         /\ gets'[g].rows = Newer(rows, gets[g].since) /\ gets'[g].passed = gets[g].passed
<1>1. gets[g].since \in Nat
  BY WidgetNumbers DEF GetRequests
<1>2. Newer(rows, gets[g].since) \in SUBSET LogRows
  BY <1>1, NewerIs
<1>3. PICK new \in SUBSET LogRows : new = Newer(rows, gets[g].since)
  BY <1>2
<1>4. gets' = [gets EXCEPT ![g].step = "answered", ![g].fetched = {}, ![g].rows = new,
                           ![g].status = heard]
  BY <1>3 DEF ReadLog
<1> DEFINE n == [gets[g] EXCEPT !.step = "answered", !.fetched = {}, !.rows = new, !.status = heard]
<1>5. /\ n \in GetRequests /\ n.step = "answered" /\ n.kind = gets[g].kind
      /\ n.since = gets[g].since /\ n.fetched = {} /\ n.status = heard
      /\ n.rows = new /\ n.passed = gets[g].passed
  <2>1. gets[g] \in GetRequests
    BY WidgetNumbers
  <2> QED BY <2>1 DEF GetRequests
<1>6. gets' = [gets EXCEPT ![g] = n] /\ gets \in [Gets -> GetRequests]
  BY <1>4 DEF WidgetTypeOK
<1> HIDE DEF n
<1> QED BY <1>3, <1>5, <1>6 DEF OtherReadsStay

LEMMA FetchedIs ==
  ASSUME WidgetTypeOK, NEW g \in Gets,
         gets' = [gets EXCEPT ![g].step = "copying", ![g].fetched = typed]
  PROVE  /\ OtherReadsStay(g) /\ gets'[g].step = "copying" /\ gets'[g].kind = gets[g].kind
         /\ gets'[g].since = gets[g].since /\ gets'[g].fetched = typed /\ gets'[g].rows = gets[g].rows
BY DEF WidgetTypeOK, GetRequests, OtherReadsStay

LEMMA PassedIs ==
  ASSUME WidgetTypeOK, NEW g \in Gets
  PROVE  /\ Passed(gets[g]) \in GetRequests
         /\ Passed(gets[g]).step = gets[g].step /\ Passed(gets[g]).kind = gets[g].kind
         /\ Passed(gets[g]).since = gets[g].since /\ Passed(gets[g]).fetched = gets[g].fetched
         /\ Passed(gets[g]).rows = gets[g].rows /\ Passed(gets[g]).status = gets[g].status
         /\ gets[g].step # "none" => Passed(gets[g]).passed
BY WidgetNumbers DEF Passed, GetRequests

LEMMA FinishIs ==
  ASSUME WidgetTypeOK, NEW g \in Gets, Finish(g)
  PROVE  /\ gets' \in [Gets -> GetRequests] /\ gets'[g] = NoGet
         /\ \A h \in Gets : h # g => gets'[h] = Passed(gets[h])
BY NoGetIs, PassedIs DEF Finish

(* The newest of some rows of the log.                                     *)
LEMMA LeastNumber ==
  ASSUME NEW T \in SUBSET Nat, T # {}
  PROVE  \E x \in T : \A y \in T : x <= y
<1>1. PICK x \in T : \A y \in T : ~(<<y, x>> \in OpToRel(<, Nat))
  BY NatLessThanWellFounded, WFMin
<1>2. \A y \in T : ~(y < x)
  BY <1>1 DEF OpToRel
<1> QED BY <1>2

LEMMA NewestIs ==
  ASSUME NEW rows \in SUBSET LogRows, rows # {}, NEW bound \in Nat, \A r \in rows : r.at <= bound
  PROVE  /\ Newest(rows) \in Nat
         /\ \E q \in rows : q.at = Newest(rows)
         /\ \A r \in rows : r.at <= Newest(rows)
<1> DEFINE Above == {n \in Nat : \A r \in rows : r.at <= n}
<1>1. PICK n \in Above : \A k \in Above : n <= k
  <2>1. bound \in Above
    OBVIOUS
  <2> HIDE DEF Above
  <2>2. Above \in SUBSET Nat
    BY DEF Above
  <2> QED BY <2>1, <2>2, LeastNumber
<1>2. \A r \in rows : r.at \in Nat \ {0}
  BY DEF LogRows
<1>3. \E q \in rows : q.at = n
  <2> SUFFICES ASSUME \A q \in rows : q.at # n PROVE FALSE
    OBVIOUS
  <2>1. n \in Nat /\ n # 0 /\ \A r \in rows : r.at <= n - 1
    BY <1>1, <1>2
  <2>2. n - 1 \in Above
    BY <2>1
  <2> QED BY <1>1, <2>1, <2>2
<1>4. \E m \in {r.at : r \in rows} : \A r \in rows : r.at <= m
  BY <1>1, <1>3
<1>5. Newest(rows) \in {r.at : r \in rows} /\ \A r \in rows : r.at <= Newest(rows)
  <2> HIDE DEF Above
  <2> QED BY <1>4 DEF Newest
<1> QED BY <1>2, <1>5

----------------------------------------------------------------------------
(* The handlers: what each does to its own message or press.               *)
LogStays == log' = log /\ clock' = clock

LogGets(says) == log' = log \cup {NextRow(says)} /\ clock' = clock + 1

ByItself(p) ==
  /\ OthersStay(p) /\ posts'[p].waiting = posts[p].waiting
  /\ UNCHANGED <<typed, widget, gets, ghosts, upsets>>

(* p is answered, and a row is stored of it.                               *)
AnswersWith(p, says, put, heard) ==
  /\ LogGets(put)
  /\ posts'[p].step = "answered" /\ posts'[p].status = heard
  /\ posts'[p].reply = {says} /\ posts'[p].row = {NextRow(put)}

(* p is told what is not stored.                                           *)
Excuses(p) ==
  /\ chatStatus \in With /\ UNCHANGED <<chatStatus, carded>>
  /\ posts'[p].step = "answered" /\ posts'[p].status = chatStatus
  /\ posts'[p].reply \subseteq Said \ Counted /\ posts'[p].row = {}

GoesOn(p, step) ==
  posts'[p].step = step /\ posts'[p].reply = posts[p].reply /\ posts'[p].row = posts[p].row

Received(p) ==
  /\ posts[p].step = "message" /\ LogGets(Hi)
  /\ \/ Excuses(p)
     \/ chatStatus = "BOT" /\ UNCHANGED <<chatStatus, carded>> /\ GoesOn(p, "thinking")

Replied(p) ==
  /\ posts[p].step = "thinking" /\ UNCHANGED <<chatStatus, carded>>
  /\ \/ AnswersWith(p, Reply, Reply, "BOT")
     \/ AnswersWith(p, Says("ASSISTANT", "notice"), Says("SYSTEM", "notice"), "BOT")

Excused(p) == posts[p].step \in {"thinking", "escalate"} /\ LogStays /\ Excuses(p)

Claimed(p) ==
  /\ posts[p].step \in {"thinking", "escalate"}
  /\ chatStatus = "BOT" /\ chatStatus' = "WAITING_HUMAN" /\ carded' = carded
  /\ LogStays \/ LogGets(Reply)
  /\ GoesOn(p, "telling")

HandedOver(p) ==
  /\ posts[p].step = "telling" /\ AnswersWith(p, HandoffNote, HandoffNote, "WAITING_HUMAN")
  /\ chatStatus' = chatStatus /\ carded' = TRUE

GivenBack(p) ==
  /\ posts[p].step = "telling" /\ AnswersWith(p, HandoffNote, HandoffNote, "BOT")
  /\ chatStatus' = "BOT" /\ carded' = carded

Served(p) ==
  \/ ReceiveMessage(p) \/ AnswerQuestion(p) \/ NoticeIncident(p)
  \/ Escalate(p) \/ TellTeam(p) \/ TellTeamFails(p)

LEMMA StoredAnswer ==
  ASSUME WidgetTypeOK, NEW p \in Posts, NEW says \in Said, NEW put \in Sayings,
         NEW heard \in ChatStatuses, Store(put), Answered(p, {says}, {NextRow(put)}, heard)
  PROVE  AnswersWith(p, says, put, heard) /\ OthersStay(p) /\ posts'[p].waiting = posts[p].waiting
<1>1. {says} \in SUBSET Said /\ {NextRow(put)} \in SUBSET LogRows
  BY NextRowIs
<1>2. /\ OthersStay(p) /\ posts'[p].step = "answered" /\ posts'[p].waiting = posts[p].waiting
      /\ posts'[p].reply = {says} /\ posts'[p].row = {NextRow(put)} /\ posts'[p].status = heard
  BY <1>1, AnsweredIs
<1> QED BY <1>2 DEF AnswersWith, LogGets, Store

LEMMA Told ==
  ASSUME WidgetTypeOK, NEW p \in Posts, NEW reply \in SUBSET (Said \ Counted), chatStatus \in With,
         Answered(p, reply, {}, chatStatus), UNCHANGED <<chatStatus, carded>>
  PROVE  Excuses(p) /\ OthersStay(p) /\ posts'[p].waiting = posts[p].waiting
<1>1. chatStatus \in ChatStatuses /\ {} \in SUBSET LogRows /\ reply \in SUBSET Said
  BY DEF ChatStatuses
<1> QED BY <1>1, AnsweredIs DEF Excuses

LEMMA ServedIs ==
  ASSUME WidgetTypeOK, NEW p \in Posts, Served(p)
  PROVE  /\ ByItself(p)
         /\ \/ Received(p) \/ Replied(p) \/ Excused(p) \/ Claimed(p) \/ HandedOver(p) \/ GivenBack(p)
<1>1. /\ Reply \in Said /\ HandoffNote \in Said /\ Says("ASSISTANT", "notice") \in Said
      /\ Reply \in Sayings /\ HandoffNote \in Sayings /\ Says("SYSTEM", "notice") \in Sayings
      /\ {Says("SYSTEM", "note")} \in SUBSET (Said \ Counted)
      /\ {Says("SYSTEM", "already")} \in SUBSET (Said \ Counted)
  BY SaidAre
<1>2. /\ "BOT" \in ChatStatuses /\ "WAITING_HUMAN" \in ChatStatuses
      /\ chatStatus \in With <=> chatStatus # "BOT"
  BY DEF WidgetTypeOK, ChatStatuses, With
<1>3. UNCHANGED <<typed, widget, gets, ghosts, upsets>>
  BY DEF Served, ReceiveMessage, AnswerQuestion, NoticeIncident, Escalate, TellTeam, TellTeamFails
<1>4. CASE ReceiveMessage(p)
  <2>1. posts[p].step = "message" /\ LogGets(Hi) /\ UNCHANGED <<chatStatus, carded>>
    BY <1>4 DEF ReceiveMessage, Store, LogGets
  <2>2. CASE chatStatus \in With
    <3>1. PICK reply \in SUBSET (Said \ Counted) : Answered(p, reply, {}, chatStatus)
      BY <1>1, <1>4, <2>2 DEF ReceiveMessage
    <3>2. Excuses(p) /\ OthersStay(p) /\ posts'[p].waiting = posts[p].waiting
      BY <2>1, <2>2, <3>1, Told
    <3> QED BY <1>3, <2>1, <3>2 DEF ByItself, Received
  <2>3. CASE chatStatus \notin With
    <3>1. GoesOn(p, "thinking") /\ OthersStay(p) /\ posts'[p].waiting = posts[p].waiting
      BY <1>4, <2>3, Went DEF ReceiveMessage, GoesOn
    <3> QED BY <1>2, <1>3, <2>1, <2>3, <3>1 DEF ByItself, Received
  <2> QED BY <2>2, <2>3
<1>5. CASE AnswerQuestion(p)
  <2>1. AnswersWith(p, Reply, Reply, "BOT") /\ OthersStay(p) /\ posts'[p].waiting = posts[p].waiting
    BY <1>1, <1>2, <1>5, StoredAnswer DEF AnswerQuestion
  <2> QED BY <1>3, <1>5, <2>1 DEF AnswerQuestion, ByItself, Replied
<1>6. CASE NoticeIncident(p)
  <2>1. /\ AnswersWith(p, Says("ASSISTANT", "notice"), Says("SYSTEM", "notice"), "BOT")
        /\ OthersStay(p) /\ posts'[p].waiting = posts[p].waiting
    BY <1>1, <1>2, <1>6, StoredAnswer DEF NoticeIncident
  <2> QED BY <1>3, <1>6, <2>1 DEF NoticeIncident, ByItself, Replied
<1>7. CASE Escalate(p)
  <2>1. CASE AlreadyWithTeam(p)
    <3>1. LogStays /\ chatStatus \in With /\ UNCHANGED <<chatStatus, carded>>
      BY <1>2, <1>7, <2>1 DEF Escalate, AlreadyWithTeam, LogStays
    <3>2. Excuses(p) /\ OthersStay(p) /\ posts'[p].waiting = posts[p].waiting
      BY <1>1, <2>1, <3>1, Told DEF AlreadyWithTeam
    <3> QED BY <1>3, <1>7, <3>1, <3>2 DEF Escalate, ByItself, Excused
  <2>2. CASE ~AlreadyWithTeam(p)
    <3>1. /\ chatStatus = "BOT" /\ chatStatus' = "WAITING_HUMAN" /\ PostGoto(p, "telling")
          /\ LogStays \/ LogGets(Reply)
      BY <1>7, <2>2 DEF Escalate, LogStays, LogGets, Store
    <3>2. GoesOn(p, "telling") /\ OthersStay(p) /\ posts'[p].waiting = posts[p].waiting
      BY <3>1, Went DEF GoesOn
    <3> QED BY <1>3, <1>7, <3>1, <3>2 DEF Escalate, ByItself, Claimed
  <2> QED BY <2>1, <2>2
<1>8. CASE TellTeam(p)
  <2>1. /\ AnswersWith(p, HandoffNote, HandoffNote, "WAITING_HUMAN")
        /\ OthersStay(p) /\ posts'[p].waiting = posts[p].waiting
    BY <1>1, <1>2, <1>8, StoredAnswer DEF TellTeam
  <2> QED BY <1>3, <1>8, <2>1 DEF TellTeam, ByItself, HandedOver
<1>9. CASE TellTeamFails(p)
  <2>1. /\ AnswersWith(p, HandoffNote, HandoffNote, "BOT")
        /\ OthersStay(p) /\ posts'[p].waiting = posts[p].waiting
    BY <1>1, <1>2, <1>9, StoredAnswer DEF TellTeamFails
  <2> QED BY <1>3, <1>9, <2>1 DEF TellTeamFails, ByItself, GivenBack
<1> QED BY <1>4, <1>5, <1>6, <1>7, <1>8, <1>9 DEF Served

----------------------------------------------------------------------------
(* Types.                                                                  *)
LogGrows == LogStays \/ \E says \in Sayings : LogGets(says)

LEMMA ServedGrows ==
  ASSUME WidgetTypeOK, NEW p \in Posts, Served(p)
  PROVE  LogGrows
BY ServedIs, SaidAre DEF Received, Replied, Excused, Claimed, HandedOver, GivenBack, AnswersWith, LogGrows

LEMMA GrownLog ==
  ASSUME WidgetTypeOK, LogGrows
  PROVE  log' \subseteq LogRows /\ IsFiniteSet(log') /\ clock' \in Nat /\ clock <= clock' /\ log \subseteq log'
<1>1. log \subseteq LogRows /\ IsFiniteSet(log) /\ clock \in Nat
  BY DEF WidgetTypeOK
<1>2. CASE LogStays
  BY <1>1, <1>2 DEF LogStays
<1>3. ASSUME NEW says \in Sayings, LogGets(says)
      PROVE  log' \subseteq LogRows /\ IsFiniteSet(log') /\ clock' \in Nat /\ clock <= clock' /\ log \subseteq log'
  <2>1. NextRow(says) \in LogRows
    BY NextRowIs
  <2>2. IsFiniteSet(log \cup {NextRow(says)})
    BY <1>1, FS_AddElement
  <2> QED BY <1>1, <1>3, <2>1, <2>2 DEF LogGets
<1> QED BY <1>2, <1>3 DEF LogGrows

LEMMA ServedTypes ==
  ASSUME WidgetTypeOK, NEW p \in Posts, Served(p)
  PROVE  WidgetTypeOK'
<1>1. log' \subseteq LogRows /\ IsFiniteSet(log') /\ clock' \in Nat
  BY ServedGrows, GrownLog
<1>2. OthersStay(p) /\ UNCHANGED <<typed, widget, gets, ghosts, upsets>>
  BY ServedIs DEF ByItself
<1>3. /\ chatStatus' \in ChatStatuses /\ carded' \in BOOLEAN
      /\ posts'[p].step = "answered" => posts'[p].status \in ChatStatuses
  BY ServedIs DEF Received, Replied, Excused, Claimed, HandedOver, GivenBack, AnswersWith, Excuses, GoesOn,
                  WidgetTypeOK, ChatStatuses, With
<1>4. \A q \in Posts : posts'[q].step = "answered" => posts'[q].status \in ChatStatuses
  BY <1>2, <1>3 DEF OthersStay, WidgetTypeOK
<1>5. UNCHANGED <<typed, seen, shown, own, last, opens, gets, overtaken, stale, early, late, upsets>>
  BY <1>2 DEF widget, ghosts
<1> QED BY <1>1, <1>2, <1>3, <1>4, <1>5 DEF WidgetTypeOK, OthersStay

LEMMA SenderTypes ==
  ASSUME WidgetTypeOK, NEW p \in Posts, Send(p) \/ RequestHuman(p) \/ HearAnswer(p) \/ SendFails(p)
  PROVE  WidgetTypeOK'
<1> USE DEF server, widget, ghosts
<1>1. ASSUME NEW n \in Nat PROVE n + 1 \in Nat /\ n + 0 \in Nat
  BY <1>1
<1>2. \A m \in Said : own[m] \in Nat
  BY DEF WidgetTypeOK
<1>3. \A m \in Said : own[m] + 1 \in Nat /\ own[m] + 0 \in Nat
  BY <1>1, <1>2
<1>4. posts[p] \in PostRequests /\ upsets + 1 \in Nat
  BY WidgetNumbers
<1>5. CASE Send(p)
  <2>1. OthersStay(p) /\ posts'[p].step = "message"
    BY <1>5, Began DEF Send
  <2>2. own' \in [Said -> Nat]
    BY <1>3, <1>5 DEF Send, WidgetTypeOK
  <2> QED BY <1>5, <2>1, <2>2 DEF Send, OthersStay, WidgetTypeOK
<1>6. CASE RequestHuman(p)
  <2>1. OthersStay(p) /\ posts'[p].step = "escalate"
    BY <1>6, Began DEF RequestHuman
  <2> QED BY <1>6, <2>1 DEF RequestHuman, OthersStay, WidgetTypeOK
<1>7. CASE HearAnswer(p)
  <2>1. OthersStay(p) /\ posts'[p].step = "done"
    BY <1>7, DoneIs DEF HearAnswer
  <2>2. own' \in [Said -> Nat] /\ early' \subseteq Said
    BY <1>3, <1>4, <1>7 DEF HearAnswer, PostRequests, WidgetTypeOK
  <2>3. seen' \in ChatStatuses /\ stale' \in BOOLEAN
    BY <1>7 DEF HearAnswer, WidgetTypeOK
  <2>4. /\ gets' \in [Gets -> GetRequests]
        /\ \A g \in Gets : gets'[g].step = "answered" => gets'[g].status \in ChatStatuses
    <3>1. CASE posts[p].waiting
      <4>1. gets' = [g \in Gets |-> Passed(gets[g])]
        BY <1>7, <3>1 DEF HearAnswer
      <4> QED BY <4>1, PassedIs DEF WidgetTypeOK
    <3>2. CASE ~posts[p].waiting
      BY <1>7, <3>2 DEF HearAnswer, WidgetTypeOK
    <3> QED BY <3>1, <3>2
  <2> QED BY <1>7, <2>1, <2>2, <2>3, <2>4 DEF HearAnswer, OthersStay, WidgetTypeOK
<1>8. CASE SendFails(p)
  <2>1. /\ OthersStay(p)
        /\ posts'[p].step = "done" \/ (posts'[p].step = posts[p].step /\ posts'[p].status = posts[p].status)
    <3>1. CASE Done(p)
      BY <3>1, DoneIs
    <3>2. CASE posts' = [posts EXCEPT ![p].waiting = FALSE]
      BY <3>2, LeftAlone
    <3> QED BY <1>8, <3>1, <3>2 DEF SendFails
  <2>2. upsets' \in Nat
    BY <1>4, <1>8 DEF SendFails, Upset
  <2> QED BY <1>8, <2>1, <2>2 DEF SendFails, OthersStay, WidgetTypeOK
<1> QED BY <1>5, <1>6, <1>7, <1>8

LEMMA ReplyTypes == ASSUME WidgetTypeOK, Type \/ PushReply PROVE WidgetTypeOK'
<1> USE DEF widget, ghosts
<1>1. CASE Type
  <2>1. clock' \in Nat
    BY <1>1, WidgetNumbers DEF Type
  <2>2. NextRow(Says("AGENT", "reply")) \in LogRows
    BY NextRowIs, SaidAre
  <2>3. IsFiniteSet(typed \cup {NextRow(Says("AGENT", "reply"))})
    BY FS_AddElement DEF WidgetTypeOK
  <2> QED BY <1>1, <2>1, <2>2, <2>3 DEF Type, WidgetTypeOK
<1>2. CASE PushReply
  <2>1. LogGrows
    BY <1>2, SaidAre DEF PushReply, Store, LogGrows, LogGets
  <2>2. log' \subseteq LogRows /\ IsFiniteSet(log') /\ clock' \in Nat
    BY <2>1, GrownLog
  <2> QED BY <1>2, <2>2 DEF PushReply, WidgetTypeOK, ChatStatuses, With
<1> QED BY <1>1, <1>2

LEMMA NewestRead ==
  ASSUME WidgetTypeOK, TimeInv, ReadsInv, NEW g \in Gets, gets[g].rows # {}
  PROVE  /\ LastTimestamp(gets[g].rows) \in Nat
         /\ \E q \in gets[g].rows : q.at = LastTimestamp(gets[g].rows)
         /\ \A r \in gets[g].rows : r.at <= LastTimestamp(gets[g].rows)
<1>1. gets[g].rows \in SUBSET LogRows /\ clock \in Nat
  BY WidgetNumbers DEF GetRequests
<1>2. \A r \in gets[g].rows : r.at <= clock
  BY DEF TimeInv, ReadsInv
<1>3. LastTimestamp(gets[g].rows) = Newest(gets[g].rows)
  BY DEF LastTimestamp
<1> QED BY <1>1, <1>2, <1>3, NewestIs

LEMMA ReaderTypes ==
  ASSUME WidgetTypeOK, TimeInv, ReadsInv, NEW g \in Gets, Reads(g)
  PROVE  WidgetTypeOK'
<1> USE DEF server, widget, ghosts
<1>1. gets[g] \in GetRequests /\ opens + 1 \in Nat /\ last \in Nat /\ 0 \in Nat
  BY WidgetNumbers
<1>2. CASE Open(g) \/ PollLog(g)
  <2>1. OtherReadsStay(g) /\ gets'[g].step = "arriving"
    BY <1>1, <1>2, LoadingIs DEF Open, PollLog
  <2>2. opens' \in Nat
    BY <1>1, <1>2 DEF Open, PollLog, WidgetTypeOK
  <2> QED BY <1>2, <2>1, <2>2 DEF Open, PollLog, OtherReadsStay, WidgetTypeOK
<1>3. CASE FetchThread(g)
  <2>1. /\ OtherReadsStay(g)
        /\ gets'[g].step = "copying" \/ gets'[g].status \in ChatStatuses
    <3>1. log \in SUBSET LogRows /\ IsFiniteSet(log) /\ chatStatus \in ChatStatuses
      BY DEF WidgetTypeOK
    <3> QED BY <1>3, <3>1, FetchedIs, LogIsRead DEF FetchThread
  <2> QED BY <1>3, <2>1 DEF FetchThread, OtherReadsStay, WidgetTypeOK
<1>4. CASE CopyReplies(g)
  <2> DEFINE new == gets[g].fetched \ log
  <2>1. gets[g].fetched \subseteq LogRows /\ gets[g].fetched \subseteq typed
    BY <1>1 DEF GetRequests, TimeInv
  <2>2. IsFiniteSet(new)
    BY <2>1, FS_Subset DEF WidgetTypeOK
  <2>3. IsFiniteSet(log \cup new) /\ log \cup new \in SUBSET LogRows
    BY <2>1, <2>2, FS_Union DEF WidgetTypeOK
  <2>4. ReadLog(g, log \cup new, "HUMAN") /\ "HUMAN" \in ChatStatuses
    BY <1>4 DEF CopyReplies, ChatStatuses, With
  <2>5. OtherReadsStay(g) /\ gets'[g].status \in ChatStatuses
    <3> HIDE DEF new
    <3> QED BY <2>3, <2>4, LogIsRead
  <2>6. late' \subseteq LogRows /\ log' = log \cup new /\ chatStatus' = "HUMAN"
    BY <1>4, <2>1 DEF CopyReplies, WidgetTypeOK
  <2>7. UNCHANGED <<carded, typed, clock, seen, shown, own, last, opens, posts, overtaken, stale, early, upsets>>
    BY <1>4 DEF CopyReplies
  <2> HIDE DEF new
  <2> QED BY <2>3, <2>4, <2>5, <2>6, <2>7 DEF OtherReadsStay, WidgetTypeOK
<1>5. CASE LoadHistory(g) \/ MergePoll(g)
  <2>1. /\ gets' \in [Gets -> GetRequests]
        /\ \A h \in Gets : gets'[h].step = "answered" => gets'[h].status \in ChatStatuses
    <3>1. Finish(g)
      BY <1>5 DEF LoadHistory, MergePoll
    <3> QED BY <3>1, FinishIs, NoGetIs, PassedIs DEF WidgetTypeOK
  <2>2. last' \in Nat
    BY <1>1, <1>5, NewestRead DEF LoadHistory, MergePoll, LastTimestamp
  <2>3. shown' \subseteq LogRows
    BY <1>1, <1>5 DEF LoadHistory, MergePoll, MergeMessages, GetRequests, WidgetTypeOK
  <2>4. own' \in [Said -> Nat]
    <3>1. CASE LoadHistory(g)
      BY <3>1 DEF LoadHistory
    <3>2. CASE MergePoll(g)
      <4> DEFINE new(m) == Cardinality({r \in gets[g].rows \ shown : r.says = m})
      <4>1. ASSUME NEW m \in Said PROVE (IF new(m) < own[m] THEN own[m] - new(m) ELSE 0) \in Nat
        <5>1. {r \in gets[g].rows \ shown : r.says = m} \subseteq log
          BY DEF ReadsInv
        <5>2. new(m) \in Nat
          BY <5>1, FS_Subset, FS_CardinalityType DEF WidgetTypeOK
        <5>3. own[m] \in Nat
          BY DEF WidgetTypeOK
        <5> HIDE DEF new
        <5> QED BY <5>2, <5>3
      <4>2. own' = [m \in Said |-> IF new(m) < own[m] THEN own[m] - new(m) ELSE 0]
        BY <3>2 DEF MergePoll, MergeMessages
      <4> HIDE DEF new
      <4> QED BY <4>1, <4>2
    <3> QED BY <1>5, <3>1, <3>2
  <2>5. seen' \in ChatStatuses /\ overtaken' \in BOOLEAN /\ stale' \in BOOLEAN
    <3>1. gets[g].passed \in BOOLEAN
      BY <1>1 DEF GetRequests
    <3>2. seen' = gets[g].status /\ gets[g].step = "answered" /\ stale' = gets[g].passed
      BY <1>5 DEF LoadHistory, MergePoll
    <3>3. overtaken' \in BOOLEAN
      BY <1>5 DEF LoadHistory, MergePoll
    <3> QED BY <3>1, <3>2, <3>3 DEF WidgetTypeOK
  <2>6. UNCHANGED <<server, opens, posts, early, late, upsets>>
    BY <1>5 DEF LoadHistory, MergePoll
  <2> QED BY <2>1, <2>2, <2>3, <2>4, <2>5, <2>6 DEF WidgetTypeOK
<1>6. CASE GetFails(g)
  <2>1. OtherReadsStay(g) /\ gets'[g].step = "none"
    BY <1>6, DroppedIs, NoGetIs DEF GetFails
  <2> QED BY <1>6, <2>1 DEF GetFails, OtherReadsStay, WidgetTypeOK
<1> QED BY <1>2, <1>3, <1>4, <1>5, <1>6 DEF Reads

----------------------------------------------------------------------------
(* What is listed, read and copied, and when.                              *)

(* The read goes on with what it has, or starts anew.                      *)
KeptRead(g) ==
  /\ gets'[g].fetched \subseteq typed
  /\ gets'[g].kind = "history" => gets'[g].since = 0
  /\ \/ gets'[g].rows = {}
     \/ gets'[g].rows = gets[g].rows /\ gets'[g].since = gets[g].since

LEMMA LastIsPast ==
  ASSUME WidgetTypeOK, TimeInv
  PROVE  last <= clock
BY WidgetNumbers DEF TimeInv

(* While the list stays, the log may grow: by what is newer than all of it.*)
LEMMA LogStep ==
  ASSUME WidgetTypeOK, TimeInv, ReadsInv, MissedIsKnown, LogGrows, WidgetTypeOK',
         UNCHANGED <<shown, late, last, typed, overtaken>>, \A g \in Gets : KeptRead(g)
  PROVE  TimeInv' /\ ReadsInv' /\ MissedIsKnown'
<1>1. clock \in Nat /\ clock' \in Nat /\ clock <= clock' /\ log \subseteq log' /\ last \in Nat /\ last <= clock
  BY GrownLog, LastIsPast, WidgetNumbers
<1>2. \A r \in log \cup typed : r.at \in Nat
  BY DEF WidgetTypeOK, LogRows
<1>3. \A r \in log' \ log : r.at = clock + 1 /\ r.at <= clock'
  <2>1. ASSUME NEW says \in Sayings, LogGets(says) PROVE \A r \in log' \ log : r.at = clock + 1 /\ r.at <= clock'
    <3>1. NextRow(says).at = clock + 1 /\ clock' = clock + 1 /\ log' = log \cup {NextRow(says)}
      BY <2>1, NextRowIs DEF LogGets
    <3> QED BY <1>1, <3>1
  <2> QED BY <2>1 DEF LogGrows, LogStays
<1>4. TimeInv'
  <2>1. \A r \in log' \cup typed' : r.at <= clock'
    BY <1>1, <1>2, <1>3 DEF TimeInv
  <2>2. \A r \in typed', q \in log' \cup typed' : r.at = q.at => r = q
    BY <1>1, <1>2, <1>3 DEF TimeInv
  <2>3. last' = 0 \/ \E r \in log' : r.at = last'
    BY <1>1 DEF TimeInv
  <2>4. \A g \in Gets : gets'[g].fetched \subseteq typed'
    BY DEF KeptRead
  <2> QED BY <2>1, <2>2, <2>3, <2>4 DEF TimeInv
<1>5. ReadsInv'
  <2>1. shown' \subseteq log'
    BY <1>1 DEF ReadsInv
  <2>2. ASSUME NEW g \in Gets
        PROVE  gets'[g].rows \subseteq log' /\ (gets'[g].kind = "history" => gets'[g].since = 0)
    BY <1>1 DEF ReadsInv, KeptRead
  <2>3. ASSUME NEW g \in Gets, NEW r \in log', NEW q \in gets'[g].rows, gets'[g].since < r.at, r.at <= q.at
        PROVE  r \in gets'[g].rows \cup late'
    <3>1. gets'[g].rows = gets[g].rows /\ gets'[g].since = gets[g].since
      BY <2>3 DEF KeptRead
    <3>2. q \in log /\ q.at \in Nat /\ q.at <= clock
      BY <1>2, <2>3, <3>1 DEF ReadsInv, TimeInv
    <3>3. r \in log
      BY <1>1, <1>3, <2>3, <3>2
    <3> QED BY <2>3, <3>1, <3>3 DEF ReadsInv
  <2> QED BY <2>1, <2>2, <2>3 DEF ReadsInv
<1>6. MissedIsKnown'
  <2> SUFFICES ASSUME NEW r \in log', r.at <= last' PROVE r \in shown' \cup late' \/ overtaken'
    BY DEF MissedIsKnown
  <2>1. r \in log
    BY <1>1, <1>3
  <2> QED BY <2>1 DEF MissedIsKnown
<1> QED BY <1>4, <1>5, <1>6

MissedInv == TimeInv /\ ReadsInv /\ MissedIsKnown

LEMMA ReadsAreKept ==
  ASSUME WidgetTypeOK, MissedInv, NEW g \in Gets, gets'[g] \in {gets[g], Passed(gets[g]), NoGet}
  PROVE  KeptRead(g)
BY PassedIs, NoGetIs DEF KeptRead, MissedInv, TimeInv, ReadsInv

LEMMA MissedSends ==
  ASSUME WidgetTypeOK, MissedInv, NEW p \in Posts, Sends(p), WidgetTypeOK'
  PROVE  MissedInv'
<1> USE DEF server, widget, ghosts
<1>1. CASE Served(p)
  <2>1. UNCHANGED <<shown, late, last, typed, overtaken, gets>>
    BY <1>1, ServedIs DEF ByItself
  <2>2. \A g \in Gets : KeptRead(g)
    BY <2>1, ReadsAreKept
  <2> QED BY <1>1, <2>1, <2>2, ServedGrows, LogStep DEF MissedInv
<1>2. CASE Send(p) \/ RequestHuman(p) \/ SendFails(p)
  <2>1. UNCHANGED <<shown, late, last, typed, overtaken, gets, log, clock>>
    BY <1>2 DEF Send, RequestHuman, SendFails
  <2>2. \A g \in Gets : KeptRead(g)
    BY <2>1, ReadsAreKept
  <2> QED BY <2>1, <2>2, LogStep DEF MissedInv, LogGrows, LogStays
<1>3. CASE HearAnswer(p)
  <2>1. UNCHANGED <<shown, late, last, typed, overtaken, log, clock>>
    BY <1>3 DEF HearAnswer
  <2>2. \A g \in Gets : gets'[g] \in {gets[g], Passed(gets[g])}
    BY <1>3 DEF HearAnswer
  <2>3. \A g \in Gets : KeptRead(g)
    BY <2>2, ReadsAreKept
  <2> QED BY <2>1, <2>3, LogStep DEF MissedInv, LogGrows, LogStays
<1> QED BY <1>1, <1>2, <1>3 DEF Sends, Served

LEMMA MissedReplies ==
  ASSUME WidgetTypeOK, MissedInv, Type \/ PushReply, WidgetTypeOK'
  PROVE  MissedInv'
<1> USE DEF widget, ghosts
<1>1. CASE PushReply
  <2>1. UNCHANGED <<shown, late, last, typed, overtaken, gets>> /\ LogGrows
    BY <1>1, SaidAre DEF PushReply, Store, LogGrows, LogGets
  <2>2. \A g \in Gets : KeptRead(g)
    BY <2>1, ReadsAreKept
  <2> QED BY <2>1, <2>2, LogStep DEF MissedInv
<1>2. CASE Type
  <2> DEFINE new == NextRow(Says("AGENT", "reply"))
  <2>1. /\ UNCHANGED <<shown, late, last, overtaken, gets, log>>
        /\ typed' = typed \cup {new} /\ clock' = clock + 1
    BY <1>2 DEF Type
  <2>2. new.at = clock + 1 /\ clock \in Nat
    BY NextRowIs, SaidAre, WidgetNumbers
  <2>3. \A r \in log \cup typed : r.at \in Nat /\ r.at <= clock
    BY DEF WidgetTypeOK, LogRows, MissedInv, TimeInv
  <2>4. TimeInv'
    <3> HIDE DEF new
    <3>1. \A r \in log' \cup typed' : r.at <= clock'
      BY <2>1, <2>2, <2>3
    <3>2. \A r \in typed', q \in log' \cup typed' : r.at = q.at => r = q
      BY <2>1, <2>2, <2>3 DEF MissedInv, TimeInv
    <3> QED BY <2>1, <3>1, <3>2 DEF MissedInv, TimeInv
  <2> QED BY <2>1, <2>4 DEF MissedInv, ReadsInv, MissedIsKnown
<1> QED BY <1>1, <1>2

LEMMA MissedReads ==
  ASSUME WidgetTypeOK, MissedInv, NEW g \in Gets, Reads(g), WidgetTypeOK'
  PROVE  MissedInv'
<1> USE DEF server, widget, ghosts
<1>1. gets[g] \in GetRequests /\ last \in Nat /\ clock \in Nat /\ log \in SUBSET LogRows /\ IsFiniteSet(log)
  BY WidgetNumbers DEF WidgetTypeOK
<1>2. \A r \in log \cup typed : r.at \in Nat \ {0} /\ r.at <= clock
  BY DEF WidgetTypeOK, LogRows, MissedInv, TimeInv
<1>3. CASE Open(g) \/ PollLog(g) \/ GetFails(g)
  <2>1. UNCHANGED <<shown, late, last, typed, overtaken, log, clock>>
    BY <1>3 DEF Open, PollLog, GetFails
  <2>2. OtherReadsStay(g) /\ KeptRead(g)
    BY <1>1, <1>3, LoadingIs, DroppedIs, NoGetIs DEF Open, PollLog, GetFails, KeptRead
  <2>3. \A h \in Gets : KeptRead(h)
    BY <2>2, ReadsAreKept DEF OtherReadsStay
  <2> QED BY <2>1, <2>3, LogStep DEF MissedInv, LogGrows, LogStays
<1>4. CASE FetchThread(g)
  <2>1. UNCHANGED <<shown, late, last, typed, overtaken, log, clock>>
    BY <1>4 DEF FetchThread
  <2>2. CASE chatStatus \in With /\ typed # {}
    <3>1. OtherReadsStay(g) /\ KeptRead(g)
      BY <1>4, <2>2, FetchedIs DEF FetchThread, KeptRead, MissedInv, ReadsInv
    <3>2. \A h \in Gets : KeptRead(h)
      BY <3>1, ReadsAreKept DEF OtherReadsStay
    <3> QED BY <2>1, <3>2, LogStep DEF MissedInv, LogGrows, LogStays
  <2>3. CASE ~(chatStatus \in With /\ typed # {})
    <3>1. /\ OtherReadsStay(g) /\ gets'[g].kind = gets[g].kind /\ gets'[g].since = gets[g].since
          /\ gets'[g].fetched = {} /\ gets'[g].rows = Newer(log, gets[g].since)
      BY <1>1, <1>4, <2>3, LogIsRead DEF FetchThread, WidgetTypeOK
    <3>2. /\ Newer(log, gets[g].since) \subseteq log
          /\ \A r \in log, q \in Newer(log, gets[g].since) :
               gets[g].since < r.at /\ r.at <= q.at => r \in Newer(log, gets[g].since)
      BY <1>1, NewerIs DEF GetRequests
    <3>3. TimeInv'
      BY <2>1, <3>1 DEF MissedInv, TimeInv, OtherReadsStay
    <3>4. ReadsInv'
      BY <2>1, <3>1, <3>2 DEF MissedInv, ReadsInv, OtherReadsStay
    <3> QED BY <2>1, <3>3, <3>4 DEF MissedInv, MissedIsKnown
  <2> QED BY <2>2, <2>3
<1>5. CASE CopyReplies(g)
  <2> DEFINE new == gets[g].fetched \ log
  <2>1. /\ UNCHANGED <<shown, last, typed, overtaken, clock>> /\ log' = log \cup new
        /\ late' = late \cup {r \in new : \E q \in log : q.at > r.at}
        /\ ReadLog(g, log', "HUMAN")
    BY <1>5 DEF CopyReplies
  <2>2. new \subseteq typed /\ \A r \in new, q \in log : r.at # q.at
    BY DEF MissedInv, TimeInv
  <2>3. /\ OtherReadsStay(g) /\ gets'[g].kind = gets[g].kind /\ gets'[g].since = gets[g].since
        /\ gets'[g].fetched = {} /\ gets'[g].rows = Newer(log', gets[g].since)
    <3>1. log' \in SUBSET LogRows /\ IsFiniteSet(log') /\ "HUMAN" \in ChatStatuses
      BY DEF WidgetTypeOK, ChatStatuses, With
    <3> QED BY <2>1, <3>1, LogIsRead
  <2>4. /\ Newer(log', gets[g].since) \subseteq log'
        /\ \A r \in log', q \in Newer(log', gets[g].since) :
             gets[g].since < r.at /\ r.at <= q.at => r \in Newer(log', gets[g].since)
    <3>1. log' \in SUBSET LogRows /\ IsFiniteSet(log') /\ gets[g].since \in Nat
      BY <1>1 DEF WidgetTypeOK, GetRequests
    <3> QED BY <3>1, NewerIs
  <2> HIDE DEF new
  <2>5. TimeInv'
    <3>1. \A r \in log' \cup typed' : r.at <= clock'
      BY <1>2, <2>1, <2>2
    <3>2. \A r \in typed', q \in log' \cup typed' : r.at = q.at => r = q
      BY <2>1, <2>2 DEF MissedInv, TimeInv
    <3> QED BY <2>1, <2>3, <3>1, <3>2 DEF MissedInv, TimeInv, OtherReadsStay
  <2>6. ReadsInv'
    <3>1. shown' \subseteq log'
      BY <2>1 DEF MissedInv, ReadsInv
    <3>2. ASSUME NEW h \in Gets
          PROVE  /\ gets'[h].rows \subseteq log' /\ (gets'[h].kind = "history" => gets'[h].since = 0)
                 /\ \A r \in log', q \in gets'[h].rows :
                      gets'[h].since < r.at /\ r.at <= q.at => r \in gets'[h].rows \cup late'
      <4>1. CASE h = g
        BY <2>3, <2>4, <4>1 DEF MissedInv, ReadsInv
      <4>2. CASE h # g
        <5>1. gets'[h] = gets[h] /\ gets[h].rows \subseteq log
          BY <2>3, <4>2 DEF OtherReadsStay, MissedInv, ReadsInv
        <5>2. ASSUME NEW r \in new, NEW q \in gets[h].rows, r.at <= q.at
              PROVE  r \in late'
          <6>1. q \in log /\ r.at # q.at /\ q.at \in Nat /\ r.at \in Nat
            BY <1>2, <2>2, <5>1
          <6>2. q.at > r.at
            BY <5>2, <6>1
          <6> QED BY <2>1, <6>1, <6>2
        <5> QED BY <2>1, <5>1, <5>2 DEF MissedInv, ReadsInv
      <4> QED BY <4>1, <4>2
    <3> QED BY <3>1, <3>2 DEF ReadsInv
  <2>7. MissedIsKnown'
    <3>1. ASSUME NEW r \in new, r.at <= last PROVE r \in late'
      <4>1. r.at \in Nat \ {0}
        BY <1>2, <2>2
      <4>2. PICK q \in log : q.at = last
        BY <1>1, <3>1, <4>1 DEF MissedInv, TimeInv
      <4>3. q.at > r.at
        BY <1>1, <2>2, <3>1, <4>1, <4>2
      <4> QED BY <2>1, <4>3
    <3> QED BY <2>1, <3>1 DEF MissedInv, MissedIsKnown
  <2> QED BY <2>5, <2>6, <2>7 DEF MissedInv
<1>6. CASE LoadHistory(g) \/ MergePoll(g)
  <2> DEFINE rows == gets[g].rows
  <2>1. UNCHANGED <<log, clock, typed, late>> /\ Finish(g)
    BY <1>6 DEF LoadHistory, MergePoll
  <2>2. /\ \A h \in Gets : KeptRead(h)
        /\ gets'[g].rows = {} /\ gets'[g].fetched = {} /\ gets'[g].kind = "poll"
    BY <2>1, FinishIs, ReadsAreKept, NoGetIs
  <2>3. /\ rows \subseteq log
        /\ \A r \in log, q \in rows : gets[g].since < r.at /\ r.at <= q.at => r \in rows \cup late
    BY DEF MissedInv, ReadsInv
  <2>4. rows # {} => /\ LastTimestamp(rows) \in Nat
                     /\ \E q \in rows : q.at = LastTimestamp(rows)
    BY NewestRead DEF MissedInv
  <2>5. last' = 0 \/ \E r \in log : r.at = last'
    <3>1. last' \in {0, last} \/ (rows # {} /\ last' = LastTimestamp(rows))
      BY <1>6 DEF LoadHistory, MergePoll, LastTimestamp
    <3> QED BY <2>3, <2>4, <3>1 DEF MissedInv, TimeInv
  <2>6. shown' = rows \/ shown' = shown \cup rows
    BY <1>6 DEF LoadHistory, MergePoll, MergeMessages
  <2>7. TimeInv'
    BY <2>1, <2>2, <2>5 DEF MissedInv, TimeInv, KeptRead
  <2>8. ReadsInv'
    <3>1. shown' \subseteq log'
      BY <2>1, <2>3, <2>6 DEF MissedInv, ReadsInv
    <3>2. ASSUME NEW h \in Gets
          PROVE  /\ gets'[h].rows \subseteq log' /\ (gets'[h].kind = "history" => gets'[h].since = 0)
                 /\ \A r \in log', q \in gets'[h].rows :
                      gets'[h].since < r.at /\ r.at <= q.at => r \in gets'[h].rows \cup late'
      BY <2>1, <2>2 DEF KeptRead, MissedInv, ReadsInv
    <3> QED BY <3>1, <3>2 DEF ReadsInv
  <2>9. MissedIsKnown'
    <3> SUFFICES ASSUME NEW r \in log, r.at <= last', ~overtaken' PROVE r \in shown' \cup late
      BY <2>1 DEF MissedIsKnown
    <3>1. r.at \in Nat \ {0} /\ gets[g].since \in Nat
      BY <1>1, <1>2 DEF GetRequests
    <3>2. CASE rows # {} /\ last' = LastTimestamp(rows) /\ gets[g].since < r.at
      <4>1. PICK q \in rows : q.at = LastTimestamp(rows)
        BY <2>4, <3>2
      <4> QED BY <2>3, <2>6, <3>2, <4>1
    <3>3. CASE LoadHistory(g)
      <4>1. gets[g].since = 0 /\ gets[g].since < r.at
        BY <3>1, <3>3 DEF LoadHistory, MissedInv, ReadsInv
      <4>2. rows # {} /\ last' = LastTimestamp(rows)
        BY <3>1, <3>3 DEF LoadHistory, LastTimestamp
      <4> QED BY <3>2, <4>1, <4>2
    <3>4. CASE MergePoll(g) /\ ~(rows # {} /\ last' = LastTimestamp(rows) /\ gets[g].since < r.at)
      <4>1. gets[g].since <= last /\ shown' = shown \cup rows /\ ~overtaken
        <5>1. shown' = shown \cup rows
          BY <3>4 DEF MergePoll, MergeMessages
        <5>2. overtaken' = (overtaken \/ gets[g].since > last)
          BY <3>4 DEF MergePoll
        <5>3. ~overtaken /\ ~(gets[g].since > last)
          BY <5>2
        <5> QED BY <1>1, <3>1, <5>1, <5>3
      <4>2. r.at <= last
        BY <1>1, <3>1, <3>4, <4>1 DEF MergePoll
      <4> QED BY <4>1, <4>2 DEF MissedInv, MissedIsKnown
    <3> QED BY <1>6, <3>2, <3>3, <3>4
  <2> QED BY <2>7, <2>8, <2>9 DEF MissedInv
<1> QED BY <1>3, <1>4, <1>5, <1>6 DEF Reads

----------------------------------------------------------------------------
(* Who asks, and who watches.                                              *)
WatchedInv == TeamInv /\ AskInv /\ WatchInv

(* Nothing that the widget sent changes, and no read of the log does.      *)
LEMMA StatusOrBot ==
  ASSUME WidgetTypeOK
  PROVE  chatStatus \in With <=> chatStatus # "BOT"
BY DEF WidgetTypeOK, ChatStatuses, With

LEMMA WatchedServed ==
  ASSUME WidgetTypeOK, WatchedInv, NEW p \in Posts, Served(p)
  PROVE  WatchedInv'
<1>1. /\ OthersStay(p) /\ posts'[p].waiting = posts[p].waiting
      /\ UNCHANGED <<typed, seen, gets, stale, upsets>>
  BY ServedIs DEF ByItself, widget, ghosts
<1>2. \/ Received(p) \/ Replied(p) \/ Excused(p) \/ Claimed(p) \/ HandedOver(p) \/ GivenBack(p)
  BY ServedIs
<1>3. "BOT" \notin With /\ "WAITING_HUMAN" \in With /\ (chatStatus \in With <=> chatStatus # "BOT")
  BY StatusOrBot DEF With
<1>4. Active(p) /\ Active(p)' /\ posts'[p].step \notin {"message", "escalate"}
  BY <1>2 DEF Received, Replied, Excused, Claimed, HandedOver, GivenBack, Excuses, GoesOn, AnswersWith, Active
<1>5. \A q \in Posts : q # p => posts'[q] = posts[q]
  BY <1>1 DEF OthersStay
<1>6. upsets = 0 => \A q \in Posts : q # p => ~Active(q)
  BY <1>4 DEF WatchedInv, AskInv
<1>7. TeamInv'
  <2>1. CASE Received(p) \/ Replied(p) \/ Excused(p)
    <3>1. UNCHANGED <<chatStatus, carded>> /\ posts'[p].step # "telling"
      BY <2>1 DEF Received, Replied, Excused, Excuses, GoesOn, AnswersWith
    <3> QED BY <1>1, <1>5, <3>1 DEF WatchedInv, TeamInv
  <2>2. CASE Claimed(p)
    BY <1>1, <1>3, <1>5, <2>2 DEF Claimed, WatchedInv, TeamInv
  <2>3. CASE HandedOver(p)
    BY <1>1, <1>5, <2>3 DEF HandedOver, AnswersWith, WatchedInv, TeamInv
  <2>4. CASE GivenBack(p)
    BY <1>1, <1>5, <2>4 DEF GivenBack, AnswersWith, WatchedInv, TeamInv
  <2> QED BY <1>2, <2>1, <2>2, <2>3, <2>4
<1>8. AskInv'
  <2>1. \A q \in Posts : posts'[q].waiting => Active(q)'
    BY <1>4, <1>5 DEF WatchedInv, AskInv, Active
  <2>2. \A q, x \in Posts : posts'[q].waiting /\ posts'[x].waiting => q = x
    BY <1>1, <1>5 DEF WatchedInv, AskInv
  <2>3. upsets = 0 => \A q \in Posts :
          /\ Active(q)' => posts'[q].waiting
          /\ posts'[q].step = "thinking" => chatStatus' = "BOT"
          /\ posts'[q].step = "answered" /\ posts'[q].status \notin With => chatStatus' = "BOT"
    <3> SUFFICES ASSUME upsets = 0, NEW q \in Posts
                 PROVE  /\ Active(q)' => posts'[q].waiting
                        /\ posts'[q].step = "thinking" => chatStatus' = "BOT"
                        /\ posts'[q].step = "answered" /\ posts'[q].status \notin With => chatStatus' = "BOT"
      OBVIOUS
    <3>1. CASE q # p
      BY <1>5, <1>6, <3>1 DEF Active
    <3>2. posts'[p].waiting
      BY <1>1, <1>4 DEF WatchedInv, AskInv
    <3>3. /\ posts'[p].step = "thinking" => chatStatus' = "BOT"
          /\ posts'[p].step = "answered" /\ posts'[p].status \notin With => chatStatus' = "BOT"
      BY <1>2, <1>3 DEF WatchedInv, AskInv, Received, Replied, Excused, Claimed, HandedOver, GivenBack,
                        Excuses, GoesOn, AnswersWith
    <3> QED BY <3>1, <3>2, <3>3
  <2> QED BY <1>1, <2>1, <2>2, <2>3 DEF AskInv
<1>9. WatchInv'
  <2> SUFFICES ASSUME upsets = 0, chatStatus' \in With PROVE Unheard'
    BY <1>1 DEF WatchInv
  <2>1. CASE Received(p) \/ Excused(p)
    <3>1. CASE GoesOn(p, "thinking") /\ chatStatus = "BOT" /\ chatStatus' = chatStatus
      BY <1>3, <3>1
    <3>2. CASE Excuses(p)
      BY <3>2 DEF Excuses, Unheard
    <3> QED BY <2>1, <3>1, <3>2 DEF Received, Excused
  <2>2. CASE Replied(p)
    BY <1>3, <2>2 DEF Replied, WatchedInv, AskInv
  <2>3. CASE Claimed(p)
    BY <2>3 DEF Claimed, GoesOn, Unheard
  <2>4. CASE HandedOver(p)
    BY <1>3, <2>4 DEF HandedOver, AnswersWith, Unheard
  <2>5. CASE GivenBack(p)
    BY <1>3, <2>5 DEF GivenBack
  <2> QED BY <1>2, <2>1, <2>2, <2>3, <2>4, <2>5
<1> QED BY <1>7, <1>8, <1>9 DEF WatchedInv

LEMMA WatchedSends ==
  ASSUME WidgetTypeOK, WatchedInv, NEW p \in Posts, Sends(p)
  PROVE  WatchedInv'
<1> USE DEF server, widget, ghosts
<1>1. CASE Served(p)
  BY <1>1, WatchedServed
<1>2. CASE Send(p) \/ RequestHuman(p)
  <2>1. /\ OthersStay(p) /\ posts'[p].step \in {"message", "escalate"} /\ posts'[p].waiting
        /\ posts[p].step = "none" /\ \A q \in Posts : ~posts[q].waiting
    BY <1>2, Began DEF Send, RequestHuman
  <2>2. UNCHANGED <<chatStatus, carded, typed, seen, gets, stale, upsets>>
    BY <1>2 DEF Send, RequestHuman
  <2>3. \A q \in Posts : q # p => posts'[q] = posts[q]
    BY <2>1 DEF OthersStay
  <2>4. TeamInv'
    BY <2>1, <2>2, <2>3 DEF WatchedInv, TeamInv
  <2>5. AskInv'
    BY <2>1, <2>2, <2>3 DEF WatchedInv, AskInv, Active
  <2>6. WatchInv'
    <3>1. Unheard => Unheard'
      BY <2>1, <2>3 DEF Unheard
    <3> QED BY <2>2, <3>1 DEF WatchedInv, WatchInv
  <2> QED BY <2>4, <2>5, <2>6 DEF WatchedInv
<1>3. CASE HearAnswer(p)
  <2>1. /\ OthersStay(p) /\ posts'[p].step = "done" /\ ~posts'[p].waiting /\ posts[p].step = "answered"
    BY <1>3, DoneIs DEF HearAnswer
  <2>2. UNCHANGED <<chatStatus, carded, typed, upsets>>
    BY <1>3 DEF HearAnswer
  <2>3. \A q \in Posts : q # p => posts'[q] = posts[q]
    BY <2>1 DEF OthersStay
  <2>4. \A g \in Gets : gets'[g] \in {gets[g], Passed(gets[g])} /\ gets'[g].step = gets[g].step
    BY <1>3, PassedIs DEF HearAnswer
  <2>5. TeamInv'
    BY <2>1, <2>2, <2>3, <2>4 DEF WatchedInv, TeamInv
  <2>6. AskInv'
    BY <2>1, <2>2, <2>3 DEF WatchedInv, AskInv, Active
  <2>7. WatchInv'
    <3> SUFFICES ASSUME upsets = 0, chatStatus \in With
                 PROVE  /\ seen' \in With \/ stale'
                        /\ \A g \in Gets : gets'[g].step = "answered" /\ gets'[g].status \notin With => gets'[g].passed
      BY <2>2 DEF WatchInv
    <3>1. posts[p].waiting /\ posts[p].status \in With
      BY <2>1, StatusOrBot DEF WatchedInv, AskInv, Active
    <3>2. seen' = posts[p].status /\ \A g \in Gets : gets'[g] = Passed(gets[g])
      BY <1>3, <3>1 DEF HearAnswer
    <3> QED BY <3>1, <3>2, PassedIs
  <2> QED BY <2>5, <2>6, <2>7 DEF WatchedInv
<1>4. CASE SendFails(p)
  <2>1. /\ OthersStay(p) /\ ~posts'[p].waiting /\ posts[p].waiting
        /\ posts'[p].step \in {"done", posts[p].step}
    <3>1. CASE Done(p)
      BY <1>4, <3>1, DoneIs DEF SendFails
    <3>2. CASE posts' = [posts EXCEPT ![p].waiting = FALSE]
      BY <1>4, <3>2, LeftAlone DEF SendFails
    <3> QED BY <1>4, <3>1, <3>2 DEF SendFails
  <2>2. UNCHANGED <<chatStatus, carded, typed, gets>> /\ upsets' # 0
    <3>1. upsets \in Nat
      BY WidgetNumbers
    <3>2. upsets + 1 # 0
      BY <3>1
    <3> QED BY <1>4, <3>2 DEF SendFails, Upset
  <2>3. \A q \in Posts : q # p => posts'[q] = posts[q]
    BY <2>1 DEF OthersStay
  <2>4. TeamInv'
    BY <2>1, <2>2, <2>3 DEF WatchedInv, TeamInv
  <2>5. AskInv'
    BY <2>1, <2>2, <2>3 DEF WatchedInv, AskInv, Active
  <2> QED BY <2>2, <2>4, <2>5 DEF WatchedInv, WatchInv
<1> QED BY <1>1, <1>2, <1>3, <1>4 DEF Sends, Served

LEMMA WatchedReads ==
  ASSUME WidgetTypeOK, MissedInv, WatchedInv, NEW g \in Gets, Reads(g)
  PROVE  WatchedInv'
<1> USE DEF server, widget, ghosts
<1>1. posts' = posts /\ UNCHANGED <<carded, typed, upsets>>
  BY DEF Reads, Open, PollLog, FetchThread, CopyReplies, LoadHistory, MergePoll, GetFails
<1>2. (chatStatus \in With <=> chatStatus # "BOT") /\ "HUMAN" \in With /\ "HUMAN" # "BOT"
  BY StatusOrBot DEF With
<1>3. CopyReplies(g) => chatStatus \in With /\ chatStatus' = "HUMAN"
  BY DEF CopyReplies, WatchedInv, TeamInv
<1>4. chatStatus' = chatStatus \/ (chatStatus \in With /\ chatStatus' = "HUMAN")
  BY <1>3 DEF Reads, Open, PollLog, FetchThread, CopyReplies, LoadHistory, MergePoll, GetFails
<1>5. AskInv'
  BY <1>1, <1>2, <1>4 DEF WatchedInv, AskInv, Active
<1>6. Unheard => Unheard'
  BY <1>1 DEF Unheard
<1>7. CASE Open(g) \/ PollLog(g) \/ GetFails(g)
  <2>1. OtherReadsStay(g) /\ gets'[g].step \in {"arriving", "none"} /\ UNCHANGED <<seen, stale, chatStatus>>
    BY <1>7, LoadingIs, DroppedIs, NoGetIs, WidgetNumbers DEF Open, PollLog, GetFails
  <2>2. TeamInv'
    BY <1>1, <2>1 DEF WatchedInv, TeamInv, OtherReadsStay
  <2>3. WatchInv'
    BY <1>1, <1>6, <2>1 DEF WatchedInv, WatchInv, OtherReadsStay
  <2> QED BY <1>5, <2>2, <2>3 DEF WatchedInv
<1>8. CASE FetchThread(g)
  <2>1. UNCHANGED <<seen, stale, chatStatus>>
    BY <1>8 DEF FetchThread
  <2>2. /\ OtherReadsStay(g)
        /\ \/ gets'[g].step = "copying" /\ typed # {}
           \/ gets'[g].step = "answered" /\ gets'[g].status = chatStatus
    <3>1. log \in SUBSET LogRows /\ IsFiniteSet(log) /\ chatStatus \in ChatStatuses
      BY DEF WidgetTypeOK
    <3> QED BY <1>8, <3>1, FetchedIs, LogIsRead DEF FetchThread
  <2>3. TeamInv'
    BY <1>1, <2>1, <2>2 DEF WatchedInv, TeamInv, OtherReadsStay
  <2>4. WatchInv'
    BY <1>1, <1>6, <2>1, <2>2 DEF WatchedInv, WatchInv, OtherReadsStay
  <2> QED BY <1>5, <2>3, <2>4 DEF WatchedInv
<1>9. CASE CopyReplies(g)
  <2>1. UNCHANGED <<seen, stale>> /\ gets[g].step = "copying"
    BY <1>9 DEF CopyReplies
  <2>2. OtherReadsStay(g) /\ gets'[g].step = "answered" /\ gets'[g].status = "HUMAN"
    <3> DEFINE new == gets[g].fetched \ log
    <3>1. gets[g].fetched \subseteq LogRows /\ gets[g].fetched \subseteq typed
      BY DEF MissedInv, TimeInv, WidgetTypeOK
    <3>2. IsFiniteSet(new)
      BY <3>1, FS_Subset DEF WidgetTypeOK
    <3>3. IsFiniteSet(log \cup new) /\ log \cup new \in SUBSET LogRows
      BY <3>1, <3>2, FS_Union DEF WidgetTypeOK
    <3>4. ReadLog(g, log \cup new, "HUMAN") /\ "HUMAN" \in ChatStatuses
      BY <1>9 DEF CopyReplies, ChatStatuses, With
    <3> HIDE DEF new
    <3> QED BY <3>3, <3>4, LogIsRead
  <2>3. TeamInv'
    BY <1>1, <1>2, <1>3, <1>9, <2>1, <2>2 DEF WatchedInv, TeamInv, OtherReadsStay
  <2>4. WatchInv'
    BY <1>1, <1>2, <1>3, <1>6, <1>9, <2>1, <2>2 DEF WatchedInv, WatchInv, OtherReadsStay
  <2> QED BY <1>5, <2>3, <2>4 DEF WatchedInv
<1>10. CASE LoadHistory(g) \/ MergePoll(g)
  <2>1. /\ gets[g].step = "answered" /\ Finish(g) /\ chatStatus' = chatStatus
        /\ seen' = gets[g].status /\ stale' = gets[g].passed
    BY <1>10 DEF LoadHistory, MergePoll
  <2>2. \A h \in Gets : \/ gets'[h].step = "none"
                        \/ /\ gets'[h].step = gets[h].step /\ gets'[h].status = gets[h].status
                           /\ gets[h].step # "none" => gets'[h].passed
    BY <2>1, FinishIs, NoGetIs, PassedIs
  <2>3. TeamInv'
    BY <1>1, <2>1, <2>2 DEF WatchedInv, TeamInv
  <2>4. WatchInv'
    BY <1>1, <1>6, <2>1, <2>2 DEF WatchedInv, WatchInv
  <2> QED BY <1>5, <2>3, <2>4 DEF WatchedInv
<1> QED BY <1>7, <1>8, <1>9, <1>10 DEF Reads

LEMMA WatchedReplies ==
  ASSUME WidgetTypeOK, WatchedInv, Type \/ PushReply
  PROVE  WatchedInv'
<1> USE DEF widget, ghosts
<1>1. /\ UNCHANGED <<posts, gets, carded, seen, stale, upsets>> /\ carded
      /\ chatStatus \in With /\ chatStatus' \in {chatStatus, "HUMAN"}
  BY DEF Type, PushReply
<1>2. (chatStatus \in With <=> chatStatus # "BOT") /\ "HUMAN" \in With /\ "HUMAN" # "BOT"
  BY StatusOrBot DEF With
<1>3. TeamInv'
  BY <1>1, <1>2 DEF WatchedInv, TeamInv
<1>4. AskInv'
  BY <1>1, <1>2 DEF WatchedInv, AskInv, Active
<1>5. WatchInv'
  BY <1>1, <1>2 DEF WatchedInv, WatchInv, Unheard
<1> QED BY <1>3, <1>4, <1>5 DEF WatchedInv

----------------------------------------------------------------------------
(* How often a message is listed.                                          *)
LEMMA RowsGrow ==
  ASSUME NEW b, IsFiniteSet(b), NEW a \in SUBSET b, NEW m
  PROVE  /\ Rows(a, m) \in Nat /\ Rows(b, m) \in Nat /\ Rows(a, m) <= Rows(b, m)
         /\ \A x \in b \ a : x.says = m => Rows(a, m) + 1 <= Rows(b, m)
<1> DEFINE In(s) == {r \in s : r.says = m}
<1>1. In(a) \in SUBSET In(b) /\ In(b) \in SUBSET b
  OBVIOUS
<1>2. \A s : Rows(s, m) = Cardinality(In(s))
  BY DEF Rows
<1>3. \A x \in b \ a : x.says = m => x \in In(b) /\ x \notin In(a)
  OBVIOUS
<1> HIDE DEF In
<1>4. IsFiniteSet(In(b)) /\ IsFiniteSet(In(a))
  BY <1>1, FS_Subset
<1>5. /\ Cardinality(In(a)) \in Nat /\ Cardinality(In(b)) \in Nat
      /\ Cardinality(In(a)) <= Cardinality(In(b))
      /\ Cardinality(In(a)) = Cardinality(In(b)) => In(a) = In(b)
  BY <1>1, <1>4, FS_Subset, FS_CardinalityType
<1>6. ASSUME NEW x \in b \ a, x.says = m PROVE Rows(a, m) + 1 <= Rows(b, m)
  <2>1. In(a) # In(b)
    BY <1>3, <1>6
  <2> QED BY <1>2, <1>5, <2>1
<1> QED BY <1>2, <1>5, <1>6

LEMMA RowsOfBoth ==
  ASSUME NEW a, NEW b, IsFiniteSet(a), IsFiniteSet(b), NEW m
  PROVE  /\ Rows(a \cup b, m) = Rows(a, m) + Rows(b \ a, m)
         /\ Rows(a, m) \in Nat /\ Rows(b \ a, m) \in Nat
<1> DEFINE A == {r \in a : r.says = m}
           B == {r \in b \ a : r.says = m}
<1>1. A \in SUBSET a /\ B \in SUBSET b /\ A \cap B = {}
  OBVIOUS
<1>2. Rows(a, m) = Cardinality(A) /\ Rows(b \ a, m) = Cardinality(B)
  BY DEF Rows
<1>3. Rows(a \cup b, m) = Cardinality(A \cup B)
  <2>1. {r \in a \cup b : r.says = m} = A \cup B
    OBVIOUS
  <2> QED BY <2>1 DEF Rows
<1> HIDE DEF A, B
<1>4. IsFiniteSet(A) /\ IsFiniteSet(B)
  BY <1>1, FS_Subset
<1>5. Cardinality(A \cup B) = Cardinality(A) + Cardinality(B) - Cardinality({})
  BY <1>1, <1>4, FS_Union
<1>6. Cardinality(A) \in Nat /\ Cardinality(B) \in Nat /\ Cardinality({}) = 0
  BY <1>4, FS_CardinalityType, FS_EmptySet
<1> QED BY <1>2, <1>3, <1>5, <1>6

ListedInv == RowInv /\ TwiceInv

LEMMA ListedNumbers ==
  ASSUME WidgetTypeOK, ReadsInv, NEW m \in Counted
  PROVE  /\ own[m] \in Nat /\ Rows(shown, m) \in Nat /\ Rows(log, m) \in Nat /\ Listed(m) \in Nat
         /\ Coming(m) \in {0, 1} /\ Rows(shown, m) <= Rows(log, m)
         /\ \A x \in log \ shown : x.says = m => Rows(shown, m) + 1 <= Rows(log, m)
<1>1. own[m] \in Nat
  BY SaidAre DEF WidgetTypeOK
<1>2. IsFiniteSet(log) /\ shown \in SUBSET log
  BY DEF WidgetTypeOK, ReadsInv
<1>3. /\ Rows(shown, m) \in Nat /\ Rows(log, m) \in Nat /\ Rows(shown, m) <= Rows(log, m)
      /\ \A x \in log \ shown : x.says = m => Rows(shown, m) + 1 <= Rows(log, m)
  BY <1>2, RowsGrow
<1>4. Listed(m) \in Nat
  BY <1>1, <1>3 DEF Listed
<1> QED BY <1>1, <1>3, <1>4 DEF Coming

(* The widget's list stays, and no answer comes: the log may grow.         *)
LEMMA ListStays ==
  ASSUME WidgetTypeOK, ReadsInv, ListedInv, log \subseteq log', IsFiniteSet(log'),
         UNCHANGED <<posts, own, shown, early, upsets>>
  PROVE  ListedInv'
<1>1. RowInv'
  BY DEF ListedInv, RowInv
<1>2. ASSUME upsets = 0, NEW m \in Counted \ early
      PROVE  /\ Listed(m)' <= Rows(log', m) + Coming(m)'
             /\ \A p \in Posts : m \in posts'[p].reply =>
                  posts'[p].row \cap shown' # {} \/ Listed(m)' + 1 <= Rows(log', m)
  <2>1. Rows(log, m) <= Rows(log', m) /\ Rows(log', m) \in Nat
    BY RowsGrow
  <2>2. Listed(m)' = Listed(m) /\ Coming(m)' = Coming(m)
    BY DEF Listed, Coming
  <2>3. /\ Listed(m) \in Nat /\ Rows(log, m) \in Nat /\ Coming(m) \in Nat
    BY ListedNumbers
  <2>4. /\ Listed(m) <= Rows(log, m) + Coming(m)
        /\ \A p \in Posts : m \in posts[p].reply =>
             posts[p].row \cap shown # {} \/ Listed(m) + 1 <= Rows(log, m)
    BY <1>2 DEF ListedInv, TwiceInv
  <2>5. Listed(m) <= Rows(log', m) + Coming(m)
    BY <2>1, <2>3, <2>4
  <2>6. Listed(m) + 1 <= Rows(log, m) => Listed(m) + 1 <= Rows(log', m)
    BY <2>1, <2>3
  <2> QED BY <2>2, <2>4, <2>5, <2>6
<1>3. TwiceInv'
  BY <1>2 DEF TwiceInv
<1> QED BY <1>1, <1>3 DEF ListedInv

(* A row that is stored is not yet listed.                                 *)
LEMMA StoredIsNew ==
  ASSUME WidgetTypeOK, TimeInv, ReadsInv, NEW says \in Sayings, LogGets(says)
  PROVE  /\ NextRow(says) \in log' \ log /\ NextRow(says) \notin shown /\ NextRow(says).says = says
         /\ log \subseteq log' /\ IsFiniteSet(log')
         /\ \A m \in Counted : Rows(log, m) + (IF m = says THEN 1 ELSE 0) <= Rows(log', m)
<1>1. NextRow(says).at = clock + 1 /\ NextRow(says).says = says /\ clock \in Nat
  BY NextRowIs, WidgetNumbers
<1>2. \A r \in log : r.at # clock + 1
  BY <1>1 DEF TimeInv, WidgetTypeOK, LogRows
<1>3. NextRow(says) \notin log /\ NextRow(says) \notin shown
  BY <1>1, <1>2 DEF ReadsInv
<1>4. NextRow(says) \in log' /\ log \subseteq log' /\ IsFiniteSet(log')
  BY GrownLog DEF LogGets, LogGrows
<1>5. ASSUME NEW m \in Counted PROVE Rows(log, m) + (IF m = says THEN 1 ELSE 0) <= Rows(log', m)
  <2>1. /\ Rows(log, m) \in Nat /\ Rows(log', m) \in Nat /\ Rows(log, m) <= Rows(log', m)
        /\ \A x \in log' \ log : x.says = m => Rows(log, m) + 1 <= Rows(log', m)
    BY <1>4, RowsGrow
  <2> QED BY <1>1, <1>3, <1>4, <2>1
<1> QED BY <1>1, <1>3, <1>4, <1>5

(* Of m, the log and what is listed or coming, before and after p is       *)
(* served.                                                                 *)
LEMMA ListedServed ==
  ASSUME WidgetTypeOK, MissedInv, WatchedInv, ListedInv, NEW p \in Posts, Served(p)
  PROVE  ListedInv'
<1>1. OthersStay(p) /\ UNCHANGED <<seen, shown, own, early, upsets, gets>>
  BY ServedIs DEF ByItself, widget, ghosts
<1>2. \/ Received(p) \/ Replied(p) \/ Excused(p) \/ Claimed(p) \/ HandedOver(p) \/ GivenBack(p)
  BY ServedIs
<1>3. \A q \in Posts : q # p => posts'[q] = posts[q]
  BY <1>1 DEF OthersStay
<1>4. /\ Active(p) /\ posts[p].step # "answered" /\ posts[p].reply = {} /\ posts'[p].step # "message"
      /\ (posts[p].step = "message" => Received(p))
  BY <1>2 DEF Received, Replied, Excused, Claimed, HandedOver, GivenBack, Excuses, GoesOn, AnswersWith,
              Active, ListedInv, RowInv
<1>5. upsets = 0 => \A q \in Posts : q # p => posts[q].step \notin {"message", "answered"} /\ posts[q].reply = {}
  BY <1>4 DEF WatchedInv, AskInv, ListedInv, RowInv, Active
<1>6. TimeInv /\ ReadsInv /\ log \subseteq log' /\ IsFiniteSet(log')
  BY ServedGrows, GrownLog DEF MissedInv
<1>7. \/ posts'[p].reply = {} /\ posts'[p].row = posts[p].row
      \/ posts'[p].reply \subseteq Said \ Counted /\ posts'[p].row = {} /\ posts'[p].step = "answered"
      \/ \E says \in Said \ {Hi}, put \in Sayings :
           /\ AnswersWith(p, says, put, posts'[p].status) /\ (says \in Counted => put = says)
  <2>1. CASE Received(p) \/ Excused(p) \/ Claimed(p)
    BY <1>4, <2>1 DEF Received, Excused, Claimed, GoesOn, Excuses
  <2>2. CASE Replied(p)
    <3>1. CASE AnswersWith(p, Reply, Reply, "BOT")
      BY <3>1, SaidAre DEF AnswersWith
    <3>2. CASE AnswersWith(p, Says("ASSISTANT", "notice"), Says("SYSTEM", "notice"), "BOT")
      BY <3>2, SaidAre DEF AnswersWith
    <3> QED BY <2>2, <3>1, <3>2 DEF Replied
  <2>3. CASE HandedOver(p) \/ GivenBack(p)
    BY <2>3, SaidAre DEF HandedOver, GivenBack, AnswersWith
  <2> QED BY <1>2, <2>1, <2>2, <2>3
<1>8. RowInv'
  <2>1. /\ posts'[p].row \subseteq log'
        /\ posts'[p].reply \subseteq Said \ {Hi}
        /\ posts'[p].step # "answered" => posts'[p].reply = {}
        /\ \A m \in posts'[p].reply \cap Counted : \E x \in posts'[p].row : x.says = m
    <3>1. CASE posts'[p].reply = {} /\ posts'[p].row = posts[p].row
      BY <1>6, <3>1 DEF ListedInv, RowInv
    <3>2. CASE posts'[p].reply \subseteq Said \ Counted /\ posts'[p].row = {} /\ posts'[p].step = "answered"
      BY <3>2, SaidAre
    <3>3. ASSUME NEW says \in Said \ {Hi}, NEW put \in Sayings,
                 AnswersWith(p, says, put, posts'[p].status), says \in Counted => put = says
          PROVE  /\ posts'[p].row \subseteq log'
                 /\ posts'[p].reply \subseteq Said \ {Hi}
                 /\ posts'[p].step # "answered" => posts'[p].reply = {}
                 /\ \A m \in posts'[p].reply \cap Counted : \E x \in posts'[p].row : x.says = m
      BY <1>6, <3>3, StoredIsNew DEF AnswersWith
    <3> QED BY <1>7, <3>1, <3>2, <3>3
  <2> QED BY <1>3, <1>6, <2>1 DEF ListedInv, RowInv
<1>9. ASSUME upsets = 0, NEW m \in Counted \ early
      PROVE  /\ Listed(m)' <= Rows(log', m) + Coming(m)'
             /\ \A q \in Posts : m \in posts'[q].reply =>
                  posts'[q].row \cap shown' # {} \/ Listed(m)' + 1 <= Rows(log', m)
  <2>1. /\ Listed(m) \in Nat /\ Rows(log, m) \in Nat /\ Coming(m) \in {0, 1}
    BY <1>6, ListedNumbers
  <2>2. Rows(log, m) <= Rows(log', m) /\ Rows(log', m) \in Nat
    BY <1>6, RowsGrow
  <2>3. Listed(m)' = Listed(m)
    BY <1>1 DEF Listed
  <2>4. Coming(m)' = 0
    BY <1>3, <1>4, <1>5, <1>9 DEF Coming
  <2>5. Listed(m) <= Rows(log, m) + Coming(m)
    BY <1>9 DEF ListedInv, TwiceInv
  <2>6. Listed(m) <= Rows(log', m)
    <3>1. CASE Coming(m) = 0
      BY <2>1, <2>2, <2>5, <3>1
    <3>2. CASE Coming(m) = 1
      <4>1. m = Hi /\ \E q \in Posts : posts[q].step = "message"
        BY <3>2 DEF Coming
      <4>2. LogGets(Hi)
        BY <1>4, <1>5, <1>9, <4>1 DEF Received
      <4>3. Rows(log, m) + 1 <= Rows(log', m)
        BY <1>6, <4>1, <4>2, SaidAre, StoredIsNew
      <4> QED BY <2>1, <2>2, <2>5, <3>2, <4>3
    <3> QED BY <2>1, <3>1, <3>2
  <2>7. ASSUME NEW q \in Posts, m \in posts'[q].reply
        PROVE  Listed(m) + 1 <= Rows(log', m)
    <3>1. q = p
      BY <1>3, <1>5, <1>9, <2>7
    <3>2. PICK says \in Said \ {Hi}, put \in Sayings :
            AnswersWith(p, says, put, posts'[p].status) /\ (says \in Counted => put = says)
      BY <1>7, <2>7, <3>1
    <3>3. says = m /\ put = m /\ LogGets(m) /\ m # Hi /\ m \in Sayings
      BY <2>7, <3>1, <3>2 DEF AnswersWith
    <3>4. Rows(log, m) + 1 <= Rows(log', m)
      BY <1>6, <3>3, StoredIsNew
    <3>5. Coming(m) = 0
      BY <3>3 DEF Coming
    <3> QED BY <2>1, <2>2, <2>5, <3>4, <3>5
  <2> QED BY <2>1, <2>2, <2>3, <2>4, <2>6, <2>7
<1>10. TwiceInv'
  BY <1>1, <1>9 DEF TwiceInv
<1> QED BY <1>8, <1>10 DEF ListedInv

LEMMA ListedSends ==
  ASSUME WidgetTypeOK, MissedInv, WatchedInv, ListedInv, NEW p \in Posts, Sends(p)
  PROVE  ListedInv'
<1> USE DEF server, widget, ghosts
<1>1. CASE Served(p)
  BY <1>1, ListedServed
<1>2. ReadsInv
  BY DEF MissedInv
<1>3. CASE Send(p) \/ RequestHuman(p)
  <2>1. /\ OthersStay(p) /\ posts'[p].step \in {"message", "escalate"}
        /\ posts'[p].reply = {} /\ posts'[p].row = {}
        /\ posts[p].step = "none" /\ \A q \in Posts : ~posts[q].waiting
        /\ (RequestHuman(p) => posts'[p].step = "escalate")
    BY <1>3, Began DEF Send, RequestHuman
  <2>2. UNCHANGED <<log, shown, early, upsets>>
    BY <1>3 DEF Send, RequestHuman
  <2>3. \A q \in Posts : q # p => posts'[q] = posts[q]
    BY <2>1 DEF OthersStay
  <2>4. RowInv'
    BY <2>1, <2>2, <2>3 DEF ListedInv, RowInv
  <2>5. ASSUME upsets = 0, NEW m \in Counted \ early
        PROVE  /\ Listed(m)' <= Rows(log, m) + Coming(m)'
               /\ \A q \in Posts : m \notin posts'[q].reply
    <3>1. \A q \in Posts : posts[q].step \notin {"message", "answered"}
      BY <2>1, <2>5 DEF WatchedInv, AskInv, Active
    <3>2. \A q \in Posts : posts'[q].reply = {}
      BY <2>1, <2>3, <3>1 DEF ListedInv, RowInv
    <3>3. Coming(m) = 0 /\ Listed(m) <= Rows(log, m) + Coming(m)
      BY <2>5, <3>1 DEF Coming, ListedInv, TwiceInv
    <3>4. own[m] \in Nat /\ Rows(shown, m) \in Nat /\ Rows(log, m) \in Nat /\ Listed(m) = own[m] + Rows(shown, m)
      BY <1>2, ListedNumbers DEF Listed
    <3>5. Listed(m)' = own'[m] + Rows(shown, m) /\ Coming(m)' \in {0, 1}
      BY <2>2 DEF Listed, Coming
    <3>6. CASE own'[m] = own[m]
      BY <3>2, <3>3, <3>4, <3>5, <3>6
    <3>7. CASE own'[m] # own[m]
      <4>1. Send(p) /\ m = Hi /\ own'[m] = own[m] + 1
        BY <1>3, <3>7, SaidAre DEF Send, RequestHuman, WidgetTypeOK
      <4>2. posts'[p].step = "message"
        BY <4>1, Began DEF Send
      <4>3. Coming(m)' = 1
        BY <4>1, <4>2 DEF Coming
      <4> QED BY <3>2, <3>3, <3>4, <3>5, <4>1, <4>3
    <3> QED BY <3>6, <3>7
  <2>6. TwiceInv'
    BY <2>2, <2>5 DEF TwiceInv
  <2> QED BY <2>4, <2>6 DEF ListedInv
<1>4. CASE HearAnswer(p)
  <2>1. /\ OthersStay(p) /\ posts'[p].step = "done" /\ posts[p].step = "answered"
        /\ posts'[p].reply = {} /\ posts'[p].row = {}
    BY <1>4, DoneIs DEF HearAnswer
  <2>2. UNCHANGED <<log, shown, upsets>>
    BY <1>4 DEF HearAnswer
  <2>3. \A q \in Posts : q # p => posts'[q] = posts[q]
    BY <2>1 DEF OthersStay
  <2>4. RowInv'
    BY <2>1, <2>2, <2>3 DEF ListedInv, RowInv
  <2>5. ASSUME upsets = 0, NEW m \in Counted \ early'
        PROVE  /\ Listed(m)' <= Rows(log, m) + Coming(m)'
               /\ \A q \in Posts : m \notin posts'[q].reply
    <3>1. posts[p].waiting /\ \A q \in Posts : q # p => posts[q].step \notin {"message", "answered"}
      BY <2>1, <2>5 DEF WatchedInv, AskInv, Active
    <3>2. \A q \in Posts : posts'[q].reply = {} /\ posts'[q].step # "message"
      BY <2>1, <2>3, <3>1 DEF ListedInv, RowInv
    <3>3. Coming(m) = 0 /\ Coming(m)' = 0
      BY <2>1, <3>1, <3>2 DEF Coming
    <3>4. /\ own' = [k \in Said |-> own[k] + (IF k \in posts[p].reply THEN 1 ELSE 0)]
          /\ early' = IF posts[p].row \cap shown # {} THEN early \cup posts[p].reply ELSE early
      BY <1>4, <3>1 DEF HearAnswer
    <3>5. m \in Counted \ early /\ (m \in posts[p].reply => posts[p].row \cap shown = {})
      BY <2>5, <3>4
    <3>6. /\ Listed(m) <= Rows(log, m) + Coming(m)
          /\ m \in posts[p].reply => Listed(m) + 1 <= Rows(log, m)
      BY <2>5, <3>5 DEF ListedInv, TwiceInv
    <3>7. own[m] \in Nat /\ Rows(shown, m) \in Nat /\ Rows(log, m) \in Nat /\ Listed(m) = own[m] + Rows(shown, m)
      BY <1>2, ListedNumbers DEF Listed
    <3>8. Listed(m)' = own'[m] + Rows(shown, m)
      BY <2>2 DEF Listed
    <3>9. own'[m] = own[m] + (IF m \in posts[p].reply THEN 1 ELSE 0)
      BY <3>4, SaidAre
    <3>10. CASE m \in posts[p].reply
      <4>1. own'[m] = own[m] + 1 /\ Listed(m) + 1 <= Rows(log, m)
        BY <3>6, <3>9, <3>10
      <4> QED BY <3>2, <3>3, <3>7, <3>8, <4>1
    <3>11. CASE m \notin posts[p].reply
      <4>1. own'[m] = own[m]
        BY <3>7, <3>9, <3>11
      <4> QED BY <3>2, <3>3, <3>6, <3>7, <3>8, <4>1
    <3> QED BY <3>10, <3>11
  <2>6. TwiceInv'
    BY <2>2, <2>5 DEF TwiceInv
  <2> QED BY <2>4, <2>6 DEF ListedInv
<1>5. CASE SendFails(p)
  <2>1. /\ OthersStay(p) /\ log' = log
        /\ \/ posts'[p].reply = {} /\ posts'[p].row = {}
           \/ posts'[p].reply = posts[p].reply /\ posts'[p].row = posts[p].row /\ posts'[p].step = posts[p].step
    <3>1. CASE Done(p)
      BY <1>5, <3>1, DoneIs DEF SendFails
    <3>2. CASE posts' = [posts EXCEPT ![p].waiting = FALSE]
      BY <1>5, <3>2, LeftAlone DEF SendFails
    <3> QED BY <1>5, <3>1, <3>2 DEF SendFails
  <2>2. upsets' # 0
    <3>1. upsets \in Nat
      BY WidgetNumbers
    <3>2. upsets + 1 # 0
      BY <3>1
    <3> QED BY <1>5, <3>2 DEF SendFails, Upset
  <2>3. RowInv'
    BY <2>1 DEF ListedInv, RowInv, OthersStay
  <2> QED BY <2>2, <2>3 DEF ListedInv, TwiceInv
<1> QED BY <1>1, <1>3, <1>4, <1>5 DEF Sends, Served

(* A list that got some rows: of m it has retired a copy for each, or it   *)
(* has no copy left and lists rows of the log alone.                       *)
LEMMA Relisted ==
  ASSUME WidgetTypeOK, ReadsInv, ListedInv, UNCHANGED <<posts, log, early, upsets>>, shown' \subseteq log,
         \A m \in Counted :
           \/ Listed(m)' = Listed(m) /\ shown \subseteq shown'
           \/ own'[m] = 0
  PROVE  ListedInv'
<1>1. RowInv'
  BY DEF ListedInv, RowInv
<1>2. ASSUME upsets = 0, NEW m \in Counted \ early
      PROVE  /\ Listed(m)' <= Rows(log, m) + Coming(m)'
             /\ \A p \in Posts : m \in posts[p].reply =>
                  posts[p].row \cap shown' # {} \/ Listed(m)' + 1 <= Rows(log, m)
  <2>1. /\ Listed(m) \in Nat /\ Rows(log, m) \in Nat /\ Coming(m) \in {0, 1}
    BY ListedNumbers
  <2>2. /\ Listed(m) <= Rows(log, m) + Coming(m)
        /\ \A p \in Posts : m \in posts[p].reply =>
             posts[p].row \cap shown # {} \/ Listed(m) + 1 <= Rows(log, m)
    BY <1>2 DEF ListedInv, TwiceInv
  <2>3. Coming(m)' = Coming(m)
    BY DEF Coming
  <2>4. CASE Listed(m)' = Listed(m) /\ shown \subseteq shown'
    BY <2>2, <2>3, <2>4
  <2>5. CASE own'[m] = 0
    <3>1. IsFiniteSet(log) /\ shown' \in SUBSET log
      BY DEF WidgetTypeOK
    <3>2. /\ Rows(shown', m) \in Nat /\ Rows(shown', m) <= Rows(log, m)
          /\ \A x \in log \ shown' : x.says = m => Rows(shown', m) + 1 <= Rows(log, m)
      BY <3>1, RowsGrow
    <3>3. Listed(m)' = Rows(shown', m)
      BY <2>5, <3>2 DEF Listed
    <3>4. ASSUME NEW p \in Posts, m \in posts[p].reply, posts[p].row \cap shown' = {}
          PROVE  Listed(m)' + 1 <= Rows(log, m)
      <4>1. PICK x \in posts[p].row : x.says = m
        BY <3>4 DEF ListedInv, RowInv
      <4>2. x \in log \ shown'
        BY <3>4 DEF ListedInv, RowInv
      <4> QED BY <3>2, <3>3, <4>1, <4>2
    <3> QED BY <2>1, <2>3, <3>2, <3>3, <3>4
  <2> QED BY <1>2, <2>4, <2>5
<1>3. TwiceInv'
  BY <1>2 DEF TwiceInv
<1> QED BY <1>1, <1>3 DEF ListedInv

LEMMA ListedReads ==
  ASSUME WidgetTypeOK, MissedInv, ListedInv, NEW g \in Gets, Reads(g), WidgetTypeOK'
  PROVE  ListedInv'
<1> USE DEF server, widget, ghosts
<1>1. ReadsInv /\ gets[g].rows \subseteq log
  BY DEF MissedInv, ReadsInv
<1>2. CASE Open(g) \/ PollLog(g) \/ GetFails(g) \/ FetchThread(g) \/ CopyReplies(g)
  <2>1. UNCHANGED <<posts, own, shown, early, upsets>> /\ log \subseteq log'
    BY <1>2 DEF Open, PollLog, GetFails, FetchThread, CopyReplies
  <2> QED BY <1>1, <2>1, ListStays DEF WidgetTypeOK
<1>3. CASE LoadHistory(g)
  <2>1. UNCHANGED <<posts, log, early, upsets>> /\ shown' \subseteq log
    BY <1>1, <1>3 DEF LoadHistory
  <2>2. \A m \in Counted : own'[m] = 0
    BY <1>3, SaidAre DEF LoadHistory
  <2> QED BY <1>1, <2>1, <2>2, Relisted
<1>4. CASE MergePoll(g)
  <2>1. UNCHANGED <<posts, log, early, upsets>> /\ shown' = shown \cup gets[g].rows
    BY <1>4 DEF MergePoll, MergeMessages
  <2>2. shown' \subseteq log
    BY <1>1, <2>1 DEF ReadsInv
  <2>3. ASSUME NEW m \in Counted, own'[m] # 0
        PROVE  Listed(m)' = Listed(m)
    <3>1. IsFiniteSet(shown) /\ IsFiniteSet(gets[g].rows)
      <4>1. IsFiniteSet(log) /\ shown \in SUBSET log /\ gets[g].rows \in SUBSET log
        BY <1>1 DEF WidgetTypeOK, ReadsInv
      <4> QED BY <4>1, FS_Subset
    <3>2. /\ Rows(shown', m) = Rows(shown, m) + Rows(gets[g].rows \ shown, m)
          /\ Rows(shown, m) \in Nat /\ Rows(gets[g].rows \ shown, m) \in Nat
      BY <2>1, <3>1, RowsOfBoth
    <3>3. own[m] \in Nat
      BY <1>1, ListedNumbers
    <3>4. own'[m] = IF Rows(gets[g].rows \ shown, m) < own[m]
                      THEN own[m] - Rows(gets[g].rows \ shown, m) ELSE 0
      BY <1>4, SaidAre DEF MergePoll, MergeMessages, Rows
    <3>5. own'[m] = own[m] - Rows(gets[g].rows \ shown, m)
      BY <2>3, <3>4
    <3> QED BY <3>2, <3>3, <3>5 DEF Listed
  <2> QED BY <1>1, <2>1, <2>2, <2>3, Relisted
<1> QED BY <1>2, <1>3, <1>4 DEF Reads

LEMMA ListedReplies ==
  ASSUME WidgetTypeOK, MissedInv, ListedInv, Type \/ PushReply, WidgetTypeOK'
  PROVE  ListedInv'
<1>1. UNCHANGED <<posts, own, shown, early, upsets>> /\ log \subseteq log'
  BY DEF Type, PushReply, Store, widget, ghosts
<1> QED BY <1>1, ListStays DEF WidgetTypeOK, MissedInv

----------------------------------------------------------------------------
(* All of it holds at first, and every step keeps it.                      *)
WidgetInv == WidgetTypeOK /\ MissedInv /\ WatchedInv /\ ListedInv

LEMMA WidgetStarts == ASSUME WidgetInit PROVE WidgetInv
<1> DEFINE first == Row(1, Says("ASSISTANT", "greeting"))
<1>1. first \in LogRows /\ first.at = 1 /\ log = {first} /\ typed = {} /\ clock = 1
  BY SaidAre DEF WidgetInit, LogRows, Row
<1>2. IsFiniteSet({first}) /\ IsFiniteSet({})
  BY FS_Singleton, FS_EmptySet
<1>3. /\ posts = [p \in Posts |-> NoPost] /\ gets = [g \in Gets |-> NoGet]
      /\ chatStatus = "BOT" /\ seen = "BOT" /\ carded = FALSE /\ last = 0 /\ opens = 0 /\ upsets = 0
      /\ shown = {} /\ own = [m \in Said |-> 0] /\ overtaken = FALSE /\ stale = FALSE
      /\ early = {} /\ late = {}
  BY DEF WidgetInit
<1> HIDE DEF first
<1>4. WidgetTypeOK
  BY <1>1, <1>2, <1>3, NoPostIs, NoGetIs DEF WidgetTypeOK, ChatStatuses
<1>5. MissedInv
  BY <1>1, <1>3, NoGetIs DEF MissedInv, TimeInv, ReadsInv, MissedIsKnown
<1>6. "BOT" \notin With
  BY DEF With
<1>7. WatchedInv
  BY <1>1, <1>3, <1>6, NoPostIs, NoGetIs DEF WatchedInv, TeamInv, AskInv, WatchInv, Active
<1>8. RowInv
  BY <1>3, NoPostIs DEF RowInv
<1>9. TwiceInv
  <2>1. ASSUME NEW m \in Counted PROVE Listed(m) <= Rows(log, m) + Coming(m)
    <3>1. /\ own[m] = 0 /\ Listed(m) = own[m] + Rows(shown, m)
          /\ Rows(shown, m) <= Rows(log, m) /\ Rows(shown, m) \in Nat /\ Rows(log, m) \in Nat
          /\ Coming(m) \in {0, 1}
      BY <1>3, <1>4, <1>5, SaidAre, ListedNumbers DEF Listed, MissedInv
    <3> QED BY <3>1
  <2> QED BY <1>3, <2>1, NoPostIs DEF TwiceInv
<1> QED BY <1>4, <1>5, <1>7, <1>8, <1>9 DEF WidgetInv, ListedInv

LEMMA WidgetStays == ASSUME WidgetInv, UNCHANGED widgetVars PROVE WidgetInv'
<1>1. UNCHANGED <<chatStatus, log, carded, typed, clock, seen, shown, own, last, opens, posts, gets,
                  overtaken, stale, early, late, upsets>>
  BY DEF widgetVars, server, widget, ghosts
<1>2. WidgetTypeOK'
  BY <1>1 DEF WidgetInv, WidgetTypeOK
<1>3. MissedInv'
  BY <1>1 DEF WidgetInv, MissedInv, TimeInv, ReadsInv, MissedIsKnown
<1>4. WatchedInv'
  BY <1>1 DEF WidgetInv, WatchedInv, TeamInv, AskInv, WatchInv, Active, Unheard
<1>5. ListedInv'
  <2>1. log \subseteq log' /\ IsFiniteSet(log')
    BY <1>1 DEF WidgetInv, WidgetTypeOK
  <2> QED BY <1>1, <2>1, ListStays DEF WidgetInv, MissedInv
<1> QED BY <1>2, <1>3, <1>4, <1>5 DEF WidgetInv

LEMMA WidgetSteps == ASSUME WidgetInv, [WidgetNext]_widgetVars PROVE WidgetInv'
<1> USE DEF WidgetInv
<1>1. ASSUME NEW p \in Posts, Sends(p) PROVE WidgetInv'
  <2>1. WidgetTypeOK'
    BY <1>1, ServedTypes, SenderTypes DEF Sends, Served
  <2> QED BY <1>1, <2>1, MissedSends, WatchedSends, ListedSends
<1>2. ASSUME NEW g \in Gets, Reads(g) PROVE WidgetInv'
  <2>1. WidgetTypeOK'
    BY <1>2, ReaderTypes DEF MissedInv
  <2> QED BY <1>2, <2>1, MissedReads, WatchedReads, ListedReads
<1>3. CASE Type \/ PushReply
  <2>1. WidgetTypeOK'
    BY <1>3, ReplyTypes
  <2> QED BY <1>3, <2>1, MissedReplies, WatchedReplies, ListedReplies
<1>4. CASE UNCHANGED widgetVars
  BY <1>4, WidgetStays
<1> QED BY <1>1, <1>2, <1>3, <1>4 DEF WidgetNext

LEMMA WidgetHolds == WidgetSpec => []WidgetInv
<1>1. WidgetInit => WidgetInv
  BY WidgetStarts
<1>2. WidgetInv /\ [WidgetNext]_widgetVars => WidgetInv'
  BY WidgetSteps
<1> QED BY <1>1, <1>2, PTL DEF WidgetSpec

(* The session, its log, the widget and every request keep their shapes    *)
(* (ChatWidget.tsx:55-80, schema.prisma's ChatSession and ChatMessage).    *)
THEOREM WidgetTypeCorrect == WidgetSpec => []WidgetTypeOK
<1>1. WidgetInv => WidgetTypeOK
  BY DEF WidgetInv
<1> QED BY <1>1, WidgetHolds, PTL

(* However the answers of the reads overtake one another, what the polls   *)
(* will not ask for again is listed, but for replies that were stored late *)
(* and after a reload that was overtaken (ChatWidget.tsx:134-137, 163).    *)
THEOREM NothingMissed == WidgetSpec => []MissedIsKnown
<1>1. WidgetInv => MissedIsKnown
  BY DEF WidgetInv, MissedInv
<1> QED BY <1>1, WidgetHolds, PTL

(* When all requests are done the widget polls for the team that has the   *)
(* conversation, but after a lost or an overtaken answer                   *)
(* (ChatWidget.tsx:151-154).                                               *)
THEOREM HandoffSeen == WidgetSpec => []HandoffIsWatched
<1>1. ASSUME WidgetInv PROVE HandoffIsWatched
  <2> SUFFICES ASSUME Quiet, chatStatus \in With, ~(upsets > 0), seen \notin With, ~stale PROVE FALSE
    BY DEF HandoffIsWatched
  <2>1. upsets = 0
    BY <1>1, WidgetNumbers DEF WidgetInv
  <2>2. ~Unheard
    BY DEF Quiet, Unheard
  <2> QED BY <1>1, <2>1, <2>2 DEF WidgetInv, WatchedInv, WatchInv
<1> QED BY <1>1, WidgetHolds, PTL

(* When all requests are done a message is listed no more often than it is *)
(* stored, but after its row overtook the answer or a request was lost     *)
(* (chatMessages.ts:12-22).                                                *)
THEOREM ListedAsStored == WidgetSpec => []TwiceIsKnown
<1>1. ASSUME WidgetInv PROVE TwiceIsKnown
  <2> SUFFICES ASSUME NEW m \in Counted, Quiet, own[m] + Rows(shown, m) > Rows(log, m), m \notin early, ~(upsets > 0)
               PROVE  FALSE
    BY DEF TwiceIsKnown, Counted
  <2>1. upsets = 0
    BY <1>1, WidgetNumbers DEF WidgetInv
  <2>2. Coming(m) = 0
    BY DEF Quiet, Coming
  <2>3. Listed(m) <= Rows(log, m) + Coming(m)
    BY <1>1, <2>1 DEF WidgetInv, ListedInv, TwiceInv
  <2>4. Listed(m) \in Nat /\ Rows(log, m) \in Nat /\ Listed(m) = own[m] + Rows(shown, m)
    BY <1>1, ListedNumbers DEF WidgetInv, MissedInv, Listed
  <2> QED BY <2>2, <2>3, <2>4
<1> QED BY <1>1, WidgetHolds, PTL

----------------------------------------------------------------------------
(* Refinement of Custody, by the handlers as the widget meets them.        *)
WidgetCustodyStep == [WidgetCustody!Next]_<<WidgetParty, Tellers, carded>>

LEMMA TellersStay ==
  ASSUME \A p \in Posts : posts'[p].step = "telling" <=> posts[p].step = "telling"
  PROVE  Tellers' = Tellers
BY DEF Tellers

LEMMA OnlyTeller ==
  ASSUME WidgetInv, NEW p \in Posts, posts[p].step = "telling", OthersStay(p), posts'[p].step # "telling"
  PROVE  Tellers # {} /\ Tellers' = {} /\ carded = FALSE
BY DEF WidgetInv, WidgetTypeOK, WatchedInv, TeamInv, OthersStay, Tellers

(* Neither a copied nor a pushed reply is of a conversation that nobody    *)
(* claimed.                                                                *)
LEMMA ReplyTurns ==
  ASSUME UNCHANGED <<posts, carded>>, chatStatus' \in {chatStatus, "HUMAN"}
  PROVE  WidgetCustodyStep
<1>1. Tellers' = Tellers
  BY DEF Tellers
<1>2. CASE chatStatus' = chatStatus
  <2>1. WidgetParty' = WidgetParty
    BY <1>2 DEF WidgetParty
  <2> QED BY <1>1, <2>1 DEF WidgetCustodyStep
<1>3. CASE chatStatus' = "HUMAN"
  <2>1. WidgetParty' = "team"
    BY <1>3 DEF WidgetParty
  <2> QED BY <1>1, <2>1 DEF WidgetCustodyStep, WidgetCustody!Next, WidgetCustody!Turn
<1> QED BY <1>2, <1>3

LEMMA ServedCustody ==
  ASSUME WidgetInv, NEW p \in Posts, Served(p)
  PROVE  WidgetCustodyStep
<1>1. /\ OthersStay(p)
      /\ \/ Received(p) \/ Replied(p) \/ Excused(p) \/ Claimed(p) \/ HandedOver(p) \/ GivenBack(p)
  BY ServedIs DEF WidgetInv, ByItself
<1>2. CASE Received(p) \/ Replied(p) \/ Excused(p)
  <2>1. /\ UNCHANGED <<chatStatus, carded>>
        /\ posts[p].step # "telling" /\ posts'[p].step # "telling"
    BY <1>2 DEF Received, Replied, Excused, Excuses, GoesOn, AnswersWith
  <2>2. Tellers' = Tellers
    BY <1>1, <2>1, TellersStay DEF OthersStay
  <2>3. WidgetParty' = WidgetParty
    BY <2>1 DEF WidgetParty
  <2> QED BY <2>1, <2>2, <2>3 DEF WidgetCustodyStep
<1>3. CASE Claimed(p)
  <2>1. /\ chatStatus = "BOT" /\ chatStatus' = "WAITING_HUMAN" /\ carded' = carded
        /\ posts'[p].step = "telling" /\ "BOT" \notin With
    BY <1>3 DEF Claimed, GoesOn, With
  <2>2. WidgetParty = "assistant" /\ WidgetParty' = "team"
    BY <2>1 DEF WidgetParty
  <2>3. ~carded /\ Tellers = {}
    BY <2>1 DEF WidgetInv, WatchedInv, TeamInv, Tellers
  <2>4. Tellers' = {p}
    BY <1>1, <2>1, <2>3 DEF OthersStay, Tellers
  <2>5. WidgetCustody!Claim(p)
    BY <2>1, <2>2, <2>3, <2>4 DEF WidgetCustody!Claim
  <2> QED BY <2>5 DEF WidgetCustodyStep, WidgetCustody!Next
<1>4. CASE HandedOver(p)
  <2>1. /\ posts[p].step = "telling" /\ posts'[p].step # "telling"
        /\ chatStatus' = chatStatus /\ carded' = TRUE
    BY <1>4 DEF HandedOver, AnswersWith
  <2>2. WidgetParty' = WidgetParty
    BY <2>1 DEF WidgetParty
  <2> QED BY <1>1, <2>1, <2>2, OnlyTeller DEF WidgetCustodyStep, WidgetCustody!Next, WidgetCustody!HandOver
<1>5. CASE GivenBack(p)
  <2>1. /\ posts[p].step = "telling" /\ posts'[p].step # "telling"
        /\ chatStatus' = "BOT" /\ carded' = carded
    BY <1>5 DEF GivenBack, AnswersWith
  <2>2. WidgetParty' = "assistant"
    BY <2>1 DEF WidgetParty
  <2> QED BY <1>1, <2>1, <2>2, OnlyTeller DEF WidgetCustodyStep, WidgetCustody!Next, WidgetCustody!GiveBack
<1> QED BY <1>1, <1>2, <1>3, <1>4, <1>5

LEMMA WidgetCustodySteps == WidgetInv /\ [WidgetNext]_widgetVars => WidgetCustodyStep
<1> SUFFICES ASSUME WidgetInv, [WidgetNext]_widgetVars PROVE WidgetCustodyStep
  OBVIOUS
<1> USE DEF server, widget, ghosts
<1>1. ASSUME NEW p \in Posts, Sends(p) PROVE WidgetCustodyStep
  <2>1. CASE Served(p)
    BY <2>1, ServedCustody
  <2>2. CASE Send(p) \/ RequestHuman(p) \/ HearAnswer(p) \/ SendFails(p)
    <3>1. UNCHANGED <<chatStatus, carded>>
      BY <2>2 DEF Send, RequestHuman, HearAnswer, SendFails
    <3>2. OthersStay(p) /\ (posts'[p].step = "telling" <=> posts[p].step = "telling")
      <4>1. CASE Send(p) \/ RequestHuman(p)
        BY <4>1, Began DEF WidgetInv, Send, RequestHuman
      <4>2. CASE HearAnswer(p)
        BY <4>2, DoneIs DEF WidgetInv, HearAnswer
      <4>3. CASE SendFails(p)
        <5>1. CASE posts' = [posts EXCEPT ![p].waiting = FALSE]
          BY <5>1, LeftAlone DEF WidgetInv
        <5>2. CASE posts[p].step \in {"message", "escalate"} /\ Done(p)
          BY <5>2, DoneIs DEF WidgetInv
        <5> QED BY <4>3, <5>1, <5>2 DEF SendFails
      <4> QED BY <2>2, <4>1, <4>2, <4>3
    <3>3. Tellers' = Tellers
      BY <3>2, TellersStay DEF OthersStay
    <3>4. WidgetParty' = WidgetParty
      BY <3>1 DEF WidgetParty
    <3> QED BY <3>1, <3>3, <3>4 DEF WidgetCustodyStep
  <2> QED BY <1>1, <2>1, <2>2 DEF Sends, Served
<1>2. ASSUME NEW g \in Gets, Reads(g) PROVE WidgetCustodyStep
  <2>1. UNCHANGED <<posts, carded>> /\ chatStatus' \in {chatStatus, "HUMAN"}
    BY <1>2 DEF Reads, Open, PollLog, FetchThread, CopyReplies, LoadHistory, MergePoll, GetFails
  <2> QED BY <2>1, ReplyTurns
<1>3. CASE Type \/ PushReply \/ UNCHANGED widgetVars
  <2>1. UNCHANGED <<posts, carded>> /\ chatStatus' \in {chatStatus, "HUMAN"}
    BY <1>3 DEF Type, PushReply, widgetVars
  <2> QED BY <2>1, ReplyTurns
<1> QED BY <1>1, <1>2, <1>3 DEF WidgetNext

(* The conversation that the widget talks to passes from hand to hand as   *)
(* that of Chat does (chat.routes.ts:576-585, 639-645).                    *)
THEOREM WidgetCustodyKept == WidgetSpec => WidgetKeepsCustody
<1>1. WidgetInit => WidgetCustody!Init
  <2> SUFFICES ASSUME WidgetInit PROVE WidgetCustody!Init
    OBVIOUS
  <2>1. Tellers = {}
    BY NoPostIs DEF WidgetInit, Tellers
  <2>2. WidgetParty = "assistant" /\ carded = FALSE
    BY DEF WidgetInit, WidgetParty
  <2> QED BY <2>1, <2>2 DEF WidgetCustody!Init
<1> QED
  BY <1>1, WidgetCustodySteps, WidgetHolds, PTL
  DEF WidgetSpec, WidgetKeepsCustody, WidgetCustody!Spec, WidgetCustodyStep
=============================================================================
