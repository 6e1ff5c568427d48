------------------------------ MODULE Booking ------------------------------
(***************************************************************************)
(* Self-service consultation booking: apps/api/src/services/               *)
(* booking.service.ts (createBooking, cancelBooking), driven by            *)
(* apps/api/src/routes/booking.routes.ts.                                  *)
(*                                                                         *)
(* A request is one run of the POST /api/bookings handler, a cancel one    *)
(* run of POST /api/bookings/cancel.  Each await of the handlers is a      *)
(* boundary between two actions, so the handlers interleave as they do in  *)
(* the Node process.  They share the bookings table (status, graphEventId, *)
(* ...), protected by one partial unique index, and the consultant's       *)
(* Microsoft 365 calendar, reached over a network that loses replies.      *)
(*                                                                         *)
(* The posted time is assumed legitimate (on the grid, inside the notice   *)
(* and the horizon): the slots are those a request may ask for, and a      *)
(* request for anything else is refused before any shared state is read.   *)
(***************************************************************************)
EXTENDS Naturals

CONSTANTS
  Requests,   \* runs of POST /api/bookings; a request also names its row
  Cancels,    \* runs of POST /api/bookings/cancel
  Slots,      \* values of startsAt
  Nobody,     \* no row holds the slot
  NoEvent,    \* graphEventId is null
  MaxFaults   \* failures of Graph, of the database, of the process, in all

ASSUME FaultsAssumption == MaxFaults \in Nat
ASSUME NobodyAssumption == Nobody \notin Requests
ASSUME NoEventAssumption == NoEvent \notin [booking : Requests, nonce : Nat]

VARIABLES
  status,        \* status of each row; "NONE" before the row exists
  graphEventId,  \* the column of that name
  stamped,       \* rows whose confirmationSentAt is set
  slot,          \* startsAt each request asks for
  pc,            \* where each request's handler stands
  event,         \* the handler's local variable: what Graph answered
  tokens,        \* rows whose cancel token has reached the visitor
  mailed,        \* rows whose confirmation email was sent
  cpc,           \* where each cancel's handler stands
  target,        \* the row the cancel read
  doomed,        \* graphEventId as the cancel read it
  calendar,      \* events this site put on the consultant's calendar
  meetings,      \* slots where the consultant has a meeting of their own
  posts,         \* POST /events calls sent and not yet handled by Graph
  faults         \* failures so far

rows    == <<status, graphEventId, stamped>>
local   == <<slot, event, tokens, mailed>>
cancels == <<cpc, target, doomed>>
graph   == <<calendar, meetings, posts>>
vars    == <<rows, slot, pc, event, tokens, mailed, cancels, graph, faults>>

----------------------------------------------------------------------------
BookingStatus == {"NONE", "PENDING", "CONFIRMED", "CANCELLED", "FAILED"}

Steps == {"idle", "checking", "inserting", "posting", "confirming", "failing",
          "answered", "mailing", "refused", "error", "done", "crashed"}

CancelSteps == {"idle", "deleting", "writing", "error", "done", "crashed"}

Events == [booking : Requests, nonce : Nat]

TypeOK ==
  /\ status \in [Requests -> BookingStatus]
  /\ graphEventId \in [Requests -> Events \cup {NoEvent}]
  /\ stamped \subseteq Requests
  /\ slot \in [Requests -> Slots]
  /\ pc \in [Requests -> Steps]
  /\ event \in [Requests -> Events \cup {NoEvent}]
  /\ tokens \subseteq Requests
  /\ mailed \subseteq Requests
  /\ cpc \in [Cancels -> CancelSteps]
  /\ target \in [Cancels -> Requests \cup {Nobody}]
  /\ doomed \in [Cancels -> Events \cup {NoEvent}]
  /\ calendar \subseteq Events
  /\ meetings \subseteq Slots
  /\ posts \subseteq Requests
  /\ faults \in Nat

Init ==
  /\ status = [r \in Requests |-> "NONE"]
  /\ graphEventId = [r \in Requests |-> NoEvent]
  /\ stamped = {}
  /\ slot \in [Requests -> Slots]
  /\ pc = [r \in Requests |-> "idle"]
  /\ event = [r \in Requests |-> NoEvent]
  /\ tokens = {}
  /\ mailed = {}
  /\ cpc = [c \in Cancels |-> "idle"]
  /\ target = [c \in Cancels |-> Nobody]
  /\ doomed = [c \in Cancels |-> NoEvent]
  /\ calendar = {}
  /\ meetings = {}
  /\ posts = {}
  /\ faults = 0

----------------------------------------------------------------------------
(* The partial unique index bookings_active_slot_key covers these rows.    *)
Active(r) == status[r] \in {"PENDING", "CONFIRMED"}

Taken(s) == \E r \in Requests : Active(r) /\ slot[r] = s

(* getSchedule for the window of one slot: the consultant's own meetings    *)
(* and every event this site wrote, whatever became of the row behind it.  *)
BusyAt(s) == s \in meetings \/ \E e \in calendar : slot[e.booking] = s

(* Slip: POST /events without a transactionId.                             *)
NeverSameTransaction(e, r) == FALSE

(* transactionId: record.id makes a repeated POST of a row the same event. *)
SameTransaction(e, r) == e.booking = r

Goto(r, step) == pc' = [pc EXCEPT ![r] = step]

CancelGoto(c, step) == cpc' = [cpc EXCEPT ![c] = step]

Fault ==
  /\ faults < MaxFaults
  /\ faults' = faults + 1

----------------------------------------------------------------------------
(* createBooking, one action per awaited call.                             *)

(* The handler starts; validation passes and getSchedule is called.        *)
Submit(r) ==
  /\ pc[r] = "idle"
  /\ Goto(r, "checking")
  /\ UNCHANGED <<rows, local, cancels, graph, faults>>

(* Slip: no answer when the window is busy.                                *)
CheckFreeBusyOnlyWhenFree(r) ==
  /\ pc[r] = "checking"
  /\ ~BusyAt(slot[r])
  /\ Goto(r, "inserting")
  /\ UNCHANGED <<rows, local, cancels, graph, faults>>

(* The free/busy answer: 409 when the window is busy, else go on.          *)
CheckFreeBusy(r) ==
  /\ pc[r] = "checking"
  /\ Goto(r, IF BusyAt(slot[r]) THEN "refused" ELSE "inserting")
  /\ UNCHANGED <<rows, local, cancels, graph, faults>>

(* getSchedule throws, or returns an error inside a 200: the route answers *)
(* 502 and nothing has been stored.                                        *)
FreeBusyFails(r) ==
  /\ pc[r] = "checking"
  /\ Fault
  /\ Goto(r, "error")
  /\ UNCHANGED <<rows, local, cancels, graph>>

(* booking.create succeeds and the POST to Graph goes out at once.         *)
Insert(r) ==
  /\ pc[r] = "inserting"
  /\ ~Taken(slot[r])
  /\ status' = [status EXCEPT ![r] = "PENDING"]
  /\ posts' = posts \cup {r}
  /\ Goto(r, "posting")
  /\ UNCHANGED <<graphEventId, stamped, local, cancels, calendar, meetings, faults>>

(* P2002 on the index: someone else won the race, 409.                     *)
InsertConflict(r) ==
  /\ pc[r] = "inserting"
  /\ Taken(slot[r])
  /\ Goto(r, "refused")
  /\ UNCHANGED <<rows, local, cancels, graph, faults>>

(* Any other database error: the route answers 502.  The insert may have   *)
(* been committed before the connection was lost.                          *)
InsertFails(r) ==
  /\ pc[r] = "inserting"
  /\ Fault
  /\ \/ UNCHANGED status
     \/ ~Taken(slot[r]) /\ status' = [status EXCEPT ![r] = "PENDING"]
  /\ Goto(r, "error")
  /\ UNCHANGED <<graphEventId, stamped, local, cancels, graph>>

(* Graph handles a POST it has received.  The handler may no longer be     *)
(* there to read the answer.                                               *)
GraphCreates(r, e) ==
  /\ r \in posts
  /\ posts' = posts \ {r}
  /\ \/ /\ e \in calendar /\ SameTransaction(e, r)
        /\ UNCHANGED calendar
     \/ /\ \A d \in calendar : ~SameTransaction(d, r)
        /\ e = [booking |-> r, nonce |-> faults]
        /\ calendar' = calendar \cup {e}

GraphReplies(r) ==
  \E e \in calendar \cup {[booking |-> r, nonce |-> faults]} :
    /\ GraphCreates(r, e)
    /\ IF pc[r] = "posting"
         THEN /\ event' = [event EXCEPT ![r] = e]
              /\ Goto(r, "confirming")
         ELSE UNCHANGED <<event, pc>>
    /\ UNCHANGED <<rows, slot, tokens, mailed, cancels, meetings, faults>>

(* The event exists, the answer never arrives.                             *)
GraphReplyLost(r) ==
  /\ pc[r] = "posting"
  /\ \E e \in calendar \cup {[booking |-> r, nonce |-> faults]} : GraphCreates(r, e)
  /\ Fault
  /\ UNCHANGED <<rows, local, pc, cancels, meetings>>

(* Graph refuses the event.                                                *)
GraphRejects(r) ==
  /\ pc[r] = "posting" /\ r \in posts
  /\ posts' = posts \ {r}
  /\ Fault
  /\ Goto(r, "failing")
  /\ UNCHANGED <<rows, local, cancels, calendar, meetings>>

(* The Graph client re-sends a POST whose answer it lost.                  *)
RetryPost(r) ==
  /\ pc[r] = "posting" /\ r \notin posts
  /\ posts' = posts \cup {r}
  /\ UNCHANGED <<rows, local, pc, cancels, calendar, meetings, faults>>

(* The client gives up on the POST: its answer was lost, or the connection *)
(* breaks while the call is still under way and may yet be handled.        *)
PostFails(r) ==
  /\ pc[r] = "posting"
  /\ IF r \in posts THEN Fault ELSE UNCHANGED faults
  /\ Goto(r, "failing")
  /\ UNCHANGED <<rows, local, cancels, graph>>

(* A POST the client gave up on need not reach Graph at all.               *)
PostVanishes(r) ==
  /\ pc[r] # "posting" /\ r \in posts
  /\ posts' = posts \ {r}
  /\ UNCHANGED <<rows, local, pc, cancels, calendar, meetings, faults>>

(* The row becomes CONFIRMED and the 201 carries the cancel link.          *)
Confirm(r) ==
  /\ pc[r] = "confirming"
  /\ status' = [status EXCEPT ![r] = "CONFIRMED"]
  /\ graphEventId' = [graphEventId EXCEPT ![r] = event[r]]
  /\ tokens' = tokens \cup {r}
  /\ Goto(r, "answered")
  /\ UNCHANGED <<stamped, slot, event, mailed, cancels, graph, faults>>

(* The update is returned, not awaited, inside the try: its rejection does *)
(* not reach the catch, so the row is not marked FAILED.  It may have been *)
(* committed all the same.                                                 *)
ConfirmFails(r) ==
  /\ pc[r] = "confirming"
  /\ Fault
  /\ \/ UNCHANGED <<status, graphEventId>>
     \/ /\ status' = [status EXCEPT ![r] = "CONFIRMED"]
        /\ graphEventId' = [graphEventId EXCEPT ![r] = event[r]]
  /\ Goto(r, "error")
  /\ UNCHANGED <<stamped, local, cancels, graph>>

(* The catch: the row becomes FAILED, the route answers 502.               *)
MarkFailed(r) ==
  /\ pc[r] = "failing"
  /\ status' = [status EXCEPT ![r] = "FAILED"]
  /\ Goto(r, "error")
  /\ UNCHANGED <<graphEventId, stamped, local, cancels, graph, faults>>

MarkFailedFails(r) ==
  /\ pc[r] = "failing"
  /\ Fault
  /\ Goto(r, "error")
  /\ UNCHANGED <<rows, local, cancels, graph>>

(* After the 201: the confirmation email, and the stamp if it went out.    *)
(* sendEmail reports a failure in its result and never throws.             *)
SendConfirmation(r) ==
  /\ pc[r] = "answered"
  /\ mailed' = mailed \cup {r}
  /\ Goto(r, "mailing")
  /\ UNCHANGED <<rows, slot, event, tokens, cancels, graph, faults>>

ConfirmationFails(r) ==
  /\ pc[r] = "answered"
  /\ Fault
  /\ Goto(r, "done")
  /\ UNCHANGED <<rows, local, cancels, graph>>

(* Slip: the stamp saves the whole record as it was when it was confirmed. *)
StampWholeRecord(r) ==
  /\ pc[r] = "mailing"
  /\ stamped' = stamped \cup {r}
  /\ status' = [status EXCEPT ![r] = "CONFIRMED"]
  /\ Goto(r, "done")
  /\ UNCHANGED <<graphEventId, local, cancels, graph, faults>>

StampConfirmation(r) ==
  /\ pc[r] = "mailing"
  /\ stamped' = stamped \cup {r}
  /\ Goto(r, "done")
  /\ UNCHANGED <<status, graphEventId, local, cancels, graph, faults>>

StampFails(r) ==
  /\ pc[r] = "mailing"
  /\ Fault
  /\ Goto(r, "done")
  /\ UNCHANGED <<rows, local, cancels, graph>>

----------------------------------------------------------------------------
(* cancelBooking.                                                          *)

(* Slip: cancels the row and leaves the event.                             *)
CancelReadSkippingGraph(c, r) ==
  /\ cpc[c] = "idle"
  /\ r \in tokens
  /\ status[r] # "CANCELLED"
  /\ CancelGoto(c, "writing")
  /\ target' = [target EXCEPT ![c] = r]
  /\ UNCHANGED <<rows, local, pc, doomed, graph, faults>>

(* findUnique by token; an unknown token is a 404 and changes nothing.     *)
CancelRead(c, r) ==
  /\ cpc[c] = "idle"
  /\ r \in tokens
  /\ IF status[r] = "CANCELLED"
       THEN /\ CancelGoto(c, "done")
            /\ UNCHANGED <<target, doomed>>
       ELSE /\ CancelGoto(c, IF graphEventId[r] # NoEvent THEN "deleting" ELSE "writing")
            /\ target' = [target EXCEPT ![c] = r]
            /\ doomed' = [doomed EXCEPT ![c] = graphEventId[r]]
  /\ UNCHANGED <<rows, local, pc, graph, faults>>

(* Slip: deletes whatever the calendar has at that time.                   *)
CancelDeleteBySlot(c) ==
  /\ cpc[c] = "deleting"
  /\ calendar' = {e \in calendar : slot[e.booking] # slot[target[c]]}
  /\ CancelGoto(c, "writing")
  /\ UNCHANGED <<rows, local, pc, target, doomed, meetings, posts, faults>>

CancelDelete(c) ==
  /\ cpc[c] = "deleting"
  /\ calendar' = calendar \ {doomed[c]}
  /\ CancelGoto(c, "writing")
  /\ UNCHANGED <<rows, local, pc, target, doomed, meetings, posts, faults>>

(* The failed delete is logged and the cancellation goes on.               *)
CancelDeleteFails(c) ==
  /\ cpc[c] = "deleting"
  /\ Fault
  /\ CancelGoto(c, "writing")
  /\ UNCHANGED <<rows, local, pc, target, doomed, graph>>

CancelWrite(c) ==
  /\ cpc[c] = "writing"
  /\ status' = [status EXCEPT ![target[c]] = "CANCELLED"]
  /\ CancelGoto(c, "done")
  /\ UNCHANGED <<graphEventId, stamped, local, pc, target, doomed, graph, faults>>

(* The update fails after the event is gone: 500, the row as it was.       *)
CancelWriteFails(c) ==
  /\ cpc[c] = "writing"
  /\ Fault
  /\ CancelGoto(c, "error")
  /\ UNCHANGED <<rows, local, pc, target, doomed, graph>>

----------------------------------------------------------------------------
(* The consultant's own diary, and the process.                            *)

Meet(s) ==
  /\ meetings' = IF s \in meetings THEN meetings \ {s} ELSE meetings \cup {s}
  /\ UNCHANGED <<rows, local, pc, cancels, calendar, posts, faults>>

(* The process dies: every handler under way is gone, what it had already  *)
(* sent to Graph is not.                                                   *)
Crash ==
  /\ Fault
  /\ pc' = [r \in Requests |->
              IF pc[r] \in {"idle", "refused", "error", "done"} THEN pc[r] ELSE "crashed"]
  /\ cpc' = [c \in Cancels |->
              IF cpc[c] \in {"idle", "error", "done"} THEN cpc[c] ELSE "crashed"]
  /\ UNCHANGED <<rows, local, target, doomed, graph>>

----------------------------------------------------------------------------
Progress(r) ==
  \/ CheckFreeBusy(r) \/ Insert(r) \/ InsertConflict(r)
  \/ GraphReplies(r) \/ PostFails(r)
  \/ Confirm(r) \/ MarkFailed(r)
  \/ SendConfirmation(r) \/ StampConfirmation(r)

Failure(r) ==
  \/ FreeBusyFails(r) \/ InsertFails(r)
  \/ GraphReplyLost(r) \/ GraphRejects(r)
  \/ ConfirmFails(r) \/ MarkFailedFails(r)
  \/ ConfirmationFails(r) \/ StampFails(r)

CancelProgress(c) == CancelDelete(c) \/ CancelWrite(c)

CancelFailure(c) == CancelDeleteFails(c) \/ CancelWriteFails(c)

Next ==
  \/ \E r \in Requests : Submit(r) \/ Progress(r) \/ RetryPost(r) \/ PostVanishes(r) \/ Failure(r)
  \/ \E c \in Cancels : \E r \in Requests : CancelRead(c, r)
  \/ \E c \in Cancels : CancelProgress(c) \/ CancelFailure(c)
  \/ \E s \in Slots : Meet(s)
  \/ Crash

(* A handler that is running keeps running, and an awaited call settles;   *)
(* nothing obliges a visitor to submit or cancel, or a failure to happen.  *)
Fairness ==
  /\ \A r \in Requests : WF_vars(Progress(r))
  /\ \A c \in Cancels : WF_vars(CancelProgress(c))

Spec == Init /\ [][Next]_vars

FairSpec == Spec /\ Fairness

----------------------------------------------------------------------------
(***************************************************************************)
(* Properties                                                              *)
(***************************************************************************)

(* Two rows that occupy the same slot are the same row, however the        *)
(* free/busy checks and inserts of concurrent requests interleave: the     *)
(* check before the insert is stale by then and only the index decides.    *)
OneActivePerSlot ==
  \A r, q \in Requests : Active(r) /\ Active(q) /\ slot[r] = slot[q] => r = q

(* A row that says CONFIRMED, or a visitor who was told so, has its event  *)
(* on the calendar until that very booking is cancelled: no concurrent     *)
(* request, failed update, lost reply or crash can take it away.           *)
KeptPromise ==
  \A r \in Requests :
    (status[r] = "CONFIRMED" \/ r \in tokens) =>
      \/ status[r] = "CONFIRMED" /\ graphEventId[r] \in calendar
      \/ \E c \in Cancels : target[c] = r

(* Lost replies and retries of POST /events never put the same booking on  *)
(* the calendar twice.                                                     *)
OneEventPerBooking ==
  \A d, e \in calendar : d.booking = e.booking => d = e

(* As long as nothing has failed, the calendar holds no event of a row     *)
(* that does not occupy its slot, so that free/busy and the index agree on *)
(* which slots this site has given away.                                   *)
OrphansNeedAFault ==
  faults = 0 => \A e \in calendar : Active(e.booking)

(* A row that gave its slot up never occupies it again, whatever handler   *)
(* still holds an old copy of it, and a confirmed row can only be          *)
(* cancelled.                                                              *)
NoReturn ==
  [][\A r \in Requests :
       /\ status[r] \in {"CANCELLED", "FAILED"} => status'[r] = status[r]
       /\ status[r] = "CONFIRMED" => status'[r] \in {"CONFIRMED", "CANCELLED"}]_vars

(* An event leaves the calendar only by the cancellation of its own        *)
(* booking: a late cancel does not remove the event of the visitor who has *)
(* taken the slot since.                                                   *)
DeletesOwnEventOnly ==
  [][\A e \in calendar \ calendar' :
       \E c \in Cancels : cpc[c] = "deleting" /\ target[c] = e.booking]_vars

(* Every request whose time is accepted for checking is answered and its   *)
(* emails are dealt with, unless the process dies under it.                *)
RequestSettles ==
  \A r \in Requests :
    pc[r] = "checking" ~> pc[r] \in {"refused", "error", "done", "crashed"}

(* A cancellation that has begun frees the slot, or reports an error.      *)
CancelSettles ==
  \A c \in Cancels : \A r \in Requests :
    (cpc[c] = "deleting" /\ target[c] = r)
      ~> (status[r] = "CANCELLED" \/ cpc[c] \in {"error", "crashed"})

(* Nobody waits for ever, whatever overlaps and fails.                     *)
EverySettles == RequestSettles /\ CancelSettles

----------------------------------------------------------------------------
(* The reservation of slots that all this implements.                      *)
Holder(s) == IF Taken(s) THEN CHOOSE r \in Requests : Active(r) /\ slot[r] = s
                         ELSE Nobody

Ledger == INSTANCE SlotLedger
            WITH holder <- [s \in Slots |-> Holder(s)],
                 used <- {r \in Requests : status[r] # "NONE"}

(* Every behaviour of the handlers is one of the ledger's: a slot passes   *)
(* from one holder to the next only through being free.                    *)
ImplementsLedger == Ledger!Spec
=============================================================================
