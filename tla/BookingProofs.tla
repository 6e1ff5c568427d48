--------------------------- MODULE BookingProofs ---------------------------
(***************************************************************************)
(* Proofs about Booking for any number of requests, cancels and slots and  *)
(* any number of failures.  IInv ties what each handler holds in its local *)
(* variables to the rows and to the calendar; it is inductive, and the     *)
(* way a step may move a row's status (StatusMoves) follows from it.       *)
(***************************************************************************)
EXTENDS Booking, TLAPS

(* Where a handler stands tells the status of its row.                     *)
HandlerInv ==
  \A r \in Requests :
    /\ pc[r] \in {"idle", "checking", "inserting", "refused"} => status[r] = "NONE"
    /\ pc[r] \in {"posting", "confirming", "failing"} => status[r] = "PENDING"
    /\ pc[r] \in {"answered", "mailing"} => r \in tokens
    /\ pc[r] = "confirming" => event[r] \in calendar /\ event[r].booking = r

(* A cancel acts for a visitor who holds the token, on that row's event.   *)
CancelInv ==
  \A c \in Cancels :
    /\ cpc[c] = "idle" => target[c] = Nobody
    /\ target[c] # Nobody => target[c] \in tokens
    /\ cpc[c] \in {"deleting", "writing"} => target[c] # Nobody
    /\ cpc[c] = "deleting" =>
         doomed[c] \in Events /\ doomed[c].booking = target[c]

(* A row's event is its own, and stays until a cancel of the row began.    *)
EventInv ==
  \A r \in Requests :
    /\ r \in tokens => status[r] \in {"CONFIRMED", "CANCELLED"}
    /\ graphEventId[r] # NoEvent => graphEventId[r] \in Events /\ graphEventId[r].booking = r
    /\ status[r] = "CONFIRMED" =>
         \/ graphEventId[r] \in calendar
         \/ \E c \in Cancels : target[c] = r
    /\ r \in tokens /\ status[r] = "CANCELLED" => \E c \in Cancels : target[c] = r

IInv == TypeOK /\ HandlerInv /\ CancelInv /\ EventInv

----------------------------------------------------------------------------
LEMMA TypeStep == TypeOK /\ [Next]_vars => TypeOK'
<1>. SUFFICES ASSUME TypeOK, [Next]_vars PROVE TypeOK'
  OBVIOUS
<1>. USE DEF TypeOK, Events, BookingStatus, Steps, CancelSteps, Goto, CancelGoto,
             Fault, rows, local, cancels, graph
<1>1. ASSUME NEW r \in Requests,
             Submit(r) \/ CheckFreeBusy(r) \/ Insert(r) \/ InsertConflict(r)
      PROVE  TypeOK'
  BY <1>1 DEF Submit, CheckFreeBusy, Insert, InsertConflict
<1>2. ASSUME NEW r \in Requests, GraphReplies(r) \/ GraphReplyLost(r)
      PROVE  TypeOK'
  BY <1>2 DEF GraphReplies, GraphReplyLost, GraphCreates
<1>3. ASSUME NEW r \in Requests,
             GraphRejects(r) \/ RetryPost(r) \/ PostFails(r) \/ PostVanishes(r)
      PROVE  TypeOK'
  BY <1>3 DEF GraphRejects, RetryPost, PostFails, PostVanishes
<1>4. ASSUME NEW r \in Requests, Confirm(r) \/ ConfirmFails(r)
      PROVE  TypeOK'
  BY <1>4 DEF Confirm, ConfirmFails
<1>5. ASSUME NEW r \in Requests, MarkFailed(r) \/ MarkFailedFails(r)
      PROVE  TypeOK'
  BY <1>5 DEF MarkFailed, MarkFailedFails
<1>6. ASSUME NEW r \in Requests, SendConfirmation(r) \/ StampConfirmation(r)
      PROVE  TypeOK'
  BY <1>6 DEF SendConfirmation, StampConfirmation
<1>7. ASSUME NEW r \in Requests,
             FreeBusyFails(r) \/ InsertFails(r) \/ ConfirmationFails(r) \/ StampFails(r)
      PROVE  TypeOK'
  BY <1>7 DEF FreeBusyFails, InsertFails, ConfirmationFails, StampFails
<1>8. ASSUME NEW c \in Cancels, NEW r \in Requests, CancelRead(c, r)
      PROVE  TypeOK'
  BY <1>8 DEF CancelRead
<1>9. ASSUME NEW c \in Cancels, CancelProgress(c) \/ CancelFailure(c)
      PROVE  TypeOK'
  BY <1>9 DEF CancelProgress, CancelDelete, CancelWrite,
              CancelFailure, CancelDeleteFails, CancelWriteFails
<1>10. ASSUME NEW s \in Slots, Meet(s) PROVE TypeOK'
  BY <1>10 DEF Meet
<1>11. CASE Crash
  BY <1>11 DEF Crash
<1>12. CASE UNCHANGED vars
  BY <1>12 DEF vars
<1>. QED
  BY <1>1, <1>2, <1>3, <1>4, <1>5, <1>6, <1>7, <1>8, <1>9, <1>10, <1>11, <1>12
  DEF Next, Progress, Failure

LEMMA HandlerStep == IInv /\ [Next]_vars => HandlerInv'
<1>. SUFFICES ASSUME IInv, [Next]_vars PROVE HandlerInv'
  OBVIOUS
<1>. USE NobodyAssumption
     DEF IInv, TypeOK, HandlerInv, Goto, CancelGoto, Fault, rows, local, cancels, graph
<1>1. ASSUME NEW r \in Requests,
             Submit(r) \/ CheckFreeBusy(r) \/ InsertConflict(r) \/ FreeBusyFails(r)
      PROVE  HandlerInv'
  BY <1>1 DEF Submit, CheckFreeBusy, InsertConflict, FreeBusyFails
<1>2. ASSUME NEW r \in Requests, Insert(r) \/ InsertFails(r)
      PROVE  HandlerInv'
  BY <1>2 DEF Insert, InsertFails
<1>3. ASSUME NEW r \in Requests, GraphReplies(r) \/ GraphReplyLost(r)
      PROVE  HandlerInv'
  <2>1. PICK e : GraphCreates(r, e) /\ (GraphReplies(r) => event' = [event EXCEPT ![r] = e]
                                                          \/ pc' = pc)
    BY <1>3 DEF GraphReplies, GraphReplyLost
  <2>2. e \in calendar' /\ e.booking = r /\ calendar \subseteq calendar'
    BY <2>1 DEF GraphCreates, SameTransaction
  <2>. QED
    BY <1>3, <2>1, <2>2 DEF GraphReplies, GraphReplyLost
<1>4. ASSUME NEW r \in Requests,
             GraphRejects(r) \/ RetryPost(r) \/ PostFails(r) \/ PostVanishes(r)
      PROVE  HandlerInv'
  BY <1>4 DEF GraphRejects, RetryPost, PostFails, PostVanishes
<1>5. ASSUME NEW r \in Requests,
             Confirm(r) \/ ConfirmFails(r) \/ MarkFailed(r) \/ MarkFailedFails(r)
      PROVE  HandlerInv'
  BY <1>5 DEF Confirm, ConfirmFails, MarkFailed, MarkFailedFails
<1>6. ASSUME NEW r \in Requests,
             \/ SendConfirmation(r) \/ ConfirmationFails(r)
             \/ StampConfirmation(r) \/ StampFails(r)
      PROVE  HandlerInv'
  BY <1>6 DEF SendConfirmation, ConfirmationFails, StampConfirmation, StampFails
<1>7. ASSUME NEW c \in Cancels, NEW r \in Requests, CancelRead(c, r)
      PROVE  HandlerInv'
  BY <1>7 DEF CancelRead
<1>8. ASSUME NEW c \in Cancels, CancelDelete(c) \/ CancelWrite(c)
      PROVE  HandlerInv'
  BY <1>8 DEF CancelDelete, CancelWrite, CancelInv, EventInv
<1>9. ASSUME NEW c \in Cancels, CancelFailure(c) PROVE HandlerInv'
  BY <1>9 DEF CancelFailure, CancelDeleteFails, CancelWriteFails
<1>10. ASSUME NEW s \in Slots, Meet(s) PROVE HandlerInv'
  BY <1>10 DEF Meet
<1>11. CASE Crash
  BY <1>11 DEF Crash
<1>12. CASE UNCHANGED vars
  BY <1>12 DEF vars
<1>. QED
  BY <1>1, <1>2, <1>3, <1>4, <1>5, <1>6, <1>7, <1>8, <1>9, <1>10, <1>11, <1>12
  DEF Next, Progress, Failure, CancelProgress

LEMMA CancelStep == IInv /\ [Next]_vars => CancelInv'
<1>. SUFFICES ASSUME IInv, [Next]_vars PROVE CancelInv'
  OBVIOUS
<1>. USE NobodyAssumption DEF IInv, CancelInv, TypeOK, CancelGoto, rows, local, cancels, graph
<1>1. ASSUME UNCHANGED cancels, tokens \subseteq tokens'
      PROVE  CancelInv'
  BY <1>1
<1>2. ASSUME NEW c \in Cancels, NEW r \in Requests, CancelRead(c, r)
      PROVE  CancelInv'
  BY <1>2 DEF CancelRead, EventInv
<1>3. ASSUME NEW c \in Cancels, CancelProgress(c) \/ CancelFailure(c)
      PROVE  CancelInv'
  BY <1>3 DEF CancelProgress, CancelDelete, CancelWrite,
              CancelFailure, CancelDeleteFails, CancelWriteFails
<1>4. ASSUME Crash PROVE CancelInv'
  BY <1>4 DEF Crash
<1>5. ASSUME NEW r \in Requests, Submit(r) \/ Progress(r) \/ RetryPost(r)
             \/ PostVanishes(r) \/ Failure(r)
      PROVE  UNCHANGED cancels /\ tokens \subseteq tokens'
  <2>1. CASE Submit(r) \/ RetryPost(r) \/ PostVanishes(r)
    BY <2>1 DEF Submit, RetryPost, PostVanishes
  <2>2. CASE Progress(r)
    BY <2>2 DEF Progress, CheckFreeBusy, Insert, InsertConflict, GraphReplies,
                PostFails, Confirm, MarkFailed, SendConfirmation, StampConfirmation
  <2>3. CASE Failure(r)
    BY <2>3 DEF Failure, FreeBusyFails, InsertFails, GraphReplyLost, GraphRejects,
                ConfirmFails, MarkFailedFails, ConfirmationFails, StampFails
  <2>. QED
    BY <1>5, <2>1, <2>2, <2>3
<1>6. ASSUME NEW s \in Slots, Meet(s)
      PROVE  UNCHANGED cancels /\ tokens \subseteq tokens'
  BY <1>6 DEF Meet
<1>7. CASE UNCHANGED vars
  BY <1>1, <1>7 DEF vars
<1>. QED
  BY <1>1, <1>2, <1>3, <1>4, <1>5, <1>6, <1>7 DEF Next

(* The heart of the argument.  A delete removes one event, that of its own *)
(* target, and whoever is about to store an event is nobody's target yet.  *)
LEMMA EventStep == IInv /\ [Next]_vars => EventInv'
<1>. SUFFICES ASSUME IInv, [Next]_vars PROVE EventInv'
  OBVIOUS
<1>. USE NobodyAssumption, NoEventAssumption
     DEF IInv, EventInv, TypeOK, Goto, CancelGoto, rows, local, cancels, graph
<1>1. ASSUME UNCHANGED <<status, graphEventId, tokens, target>>, calendar \subseteq calendar'
      PROVE  EventInv'
  BY <1>1
<1>2. ASSUME NEW r \in Requests, Insert(r) \/ InsertFails(r)
      PROVE  EventInv'
  BY <1>2 DEF Insert, InsertFails, HandlerInv
<1>3. ASSUME NEW r \in Requests, GraphReplies(r) \/ GraphReplyLost(r)
      PROVE  EventInv'
  BY <1>1, <1>3 DEF GraphReplies, GraphReplyLost, GraphCreates
<1>4. ASSUME NEW r \in Requests, Confirm(r) \/ ConfirmFails(r)
      PROVE  EventInv'
  BY <1>4 DEF Confirm, ConfirmFails, HandlerInv, Events
<1>5. ASSUME NEW r \in Requests, MarkFailed(r) PROVE EventInv'
  BY <1>5 DEF MarkFailed, HandlerInv
<1>6. ASSUME NEW c \in Cancels, NEW r \in Requests, CancelRead(c, r)
      PROVE  EventInv'
  BY <1>6 DEF CancelRead, CancelInv
<1>7. ASSUME NEW c \in Cancels, CancelDelete(c) PROVE EventInv'
  <2>1. \A e \in calendar : e \in calendar' \/ e.booking = target[c]
    BY <1>7 DEF CancelDelete, CancelInv
  <2>2. \A r \in Requests : graphEventId[r] \in calendar => graphEventId[r].booking = r
    BY DEF Events
  <2>3. \A r \in Requests : graphEventId[r] \in calendar
          => graphEventId[r] \in calendar' \/ target[c] = r
    BY <2>1, <2>2
  <2>. QED
    BY <1>7, <2>3 DEF CancelDelete
<1>8. ASSUME NEW c \in Cancels, CancelWrite(c) PROVE EventInv'
  BY <1>8 DEF CancelWrite, CancelInv
<1>9. ASSUME NEW r \in Requests,
             \/ Submit(r) \/ CheckFreeBusy(r) \/ FreeBusyFails(r) \/ InsertConflict(r)
             \/ GraphRejects(r) \/ RetryPost(r) \/ PostFails(r) \/ PostVanishes(r)
             \/ MarkFailedFails(r) \/ SendConfirmation(r) \/ ConfirmationFails(r)
             \/ StampConfirmation(r) \/ StampFails(r)
      PROVE  EventInv'
  BY <1>1, <1>9 DEF Submit, CheckFreeBusy, FreeBusyFails, InsertConflict,
       GraphRejects, RetryPost, PostFails, PostVanishes, MarkFailedFails,
       SendConfirmation, ConfirmationFails, StampConfirmation, StampFails
<1>10. ASSUME NEW c \in Cancels, CancelFailure(c) PROVE EventInv'
  BY <1>1, <1>10 DEF CancelFailure, CancelDeleteFails, CancelWriteFails
<1>11. ASSUME NEW s \in Slots, Meet(s) PROVE EventInv'
  BY <1>1, <1>11 DEF Meet
<1>12. CASE Crash
  BY <1>1, <1>12 DEF Crash
<1>13. CASE UNCHANGED vars
  BY <1>1, <1>13 DEF vars
<1>. QED
  BY <1>2, <1>3, <1>4, <1>5, <1>6, <1>7, <1>8, <1>9, <1>10, <1>11, <1>12, <1>13
  DEF Next, Progress, Failure, CancelProgress

LEMMA InitIInv == Init => IInv
BY NobodyAssumption, NoEventAssumption
DEF Init, IInv, TypeOK, HandlerInv, CancelInv, EventInv,
    BookingStatus, Steps, CancelSteps

LEMMA StepIInv == IInv /\ [Next]_vars => IInv'
BY TypeStep, HandlerStep, CancelStep, EventStep DEF IInv

LEMMA Inductive == Spec => []IInv
BY InitIInv, StepIInv, PTL DEF Spec

----------------------------------------------------------------------------
(* Every state the booking handlers reach is well typed.                   *)
THEOREM TypeCorrect == Spec => []TypeOK
<1>1. IInv => TypeOK
  BY DEF IInv
<1>. QED
  BY <1>1, Inductive, PTL

(* A confirmed booking, or one a visitor was told is confirmed, keeps its  *)
(* event on the calendar until a cancel of that booking begins             *)
(* (createBooking 353-356, cancelBooking 393-408).                         *)
THEOREM PromiseKept == Spec => []KeptPromise
<1>1. IInv => KeptPromise
  BY DEF IInv, EventInv, KeptPromise
<1>. QED
  BY <1>1, Inductive, PTL

----------------------------------------------------------------------------
(* The only ways a row's status changes.                                   *)
Moves(r, before, after) ==
  /\ status[r] = before
  /\ status' = [status EXCEPT ![r] = after]
  /\ UNCHANGED slot

StatusMove ==
  \/ UNCHANGED <<status, slot>>
  \/ \E r \in Requests :
       \/ Moves(r, "NONE", "PENDING") /\ ~Taken(slot[r])
       \/ Moves(r, "PENDING", "CONFIRMED")
       \/ Moves(r, "PENDING", "FAILED")
       \/ Moves(r, "CONFIRMED", "CANCELLED")

LEMMA StatusMoves == IInv /\ [Next]_vars => StatusMove
<1>. SUFFICES ASSUME IInv, [Next]_vars PROVE StatusMove
  OBVIOUS
<1>. USE DEF IInv, StatusMove, Moves, TypeOK, rows, local
<1>1. ASSUME NEW r \in Requests, Insert(r) \/ InsertFails(r)
      PROVE  StatusMove
  BY <1>1 DEF Insert, InsertFails, HandlerInv
<1>2. ASSUME NEW r \in Requests, Confirm(r) \/ ConfirmFails(r) \/ MarkFailed(r)
      PROVE  StatusMove
  BY <1>2 DEF Confirm, ConfirmFails, MarkFailed, HandlerInv
<1>3. ASSUME NEW c \in Cancels, CancelWrite(c) PROVE StatusMove
  <2>1. target[c] \in Requests /\ status[target[c]] \in {"CONFIRMED", "CANCELLED"}
    BY <1>3 DEF CancelWrite, CancelInv, EventInv
  <2>2. CASE status[target[c]] = "CANCELLED"
    BY <1>3, <2>1, <2>2 DEF CancelWrite
  <2>3. CASE status[target[c]] = "CONFIRMED"
    BY <1>3, <2>1, <2>3 DEF CancelWrite
  <2>. QED
    BY <2>1, <2>2, <2>3
<1>4. ASSUME NEW r \in Requests,
             \/ Submit(r) \/ CheckFreeBusy(r) \/ FreeBusyFails(r) \/ InsertConflict(r)
             \/ GraphReplies(r) \/ GraphReplyLost(r) \/ GraphRejects(r)
             \/ RetryPost(r) \/ PostFails(r) \/ PostVanishes(r)
             \/ MarkFailedFails(r) \/ SendConfirmation(r) \/ ConfirmationFails(r)
             \/ StampConfirmation(r) \/ StampFails(r)
      PROVE  UNCHANGED <<status, slot>>
  BY <1>4 DEF Submit, CheckFreeBusy, FreeBusyFails, InsertConflict,
       GraphReplies, GraphReplyLost, GraphRejects, RetryPost, PostFails, PostVanishes,
       MarkFailedFails, SendConfirmation, ConfirmationFails, StampConfirmation, StampFails
<1>5. ASSUME NEW c \in Cancels, NEW r \in Requests, CancelRead(c, r)
      PROVE  UNCHANGED <<status, slot>>
  BY <1>5 DEF CancelRead
<1>6. ASSUME NEW c \in Cancels, CancelDelete(c) \/ CancelFailure(c)
      PROVE  UNCHANGED <<status, slot>>
  BY <1>6 DEF CancelDelete, CancelFailure, CancelDeleteFails, CancelWriteFails
<1>7. ASSUME (\E s \in Slots : Meet(s)) \/ Crash \/ UNCHANGED vars
      PROVE  UNCHANGED <<status, slot>>
  BY <1>7 DEF Meet, Crash, vars
<1>. QED
  BY <1>1, <1>2, <1>3, <1>4, <1>5, <1>6, <1>7
  DEF Next, Progress, Failure, CancelProgress

(* However many requests race for a slot and however stale their free/busy *)
(* answers are, at most one row occupies it (insert under the partial      *)
(* index, 301-327).                                                        *)
THEOREM Exclusive == Spec => []OneActivePerSlot
<1>1. Init => OneActivePerSlot
  BY DEF Init, OneActivePerSlot, Active
<1>2. TypeOK /\ OneActivePerSlot /\ StatusMove => OneActivePerSlot'
  BY DEF TypeOK, OneActivePerSlot, StatusMove, Moves, Taken, Active
<1>3. IInv /\ OneActivePerSlot /\ [Next]_vars => OneActivePerSlot'
  BY <1>2, StatusMoves DEF IInv
<1>. QED
  BY <1>1, <1>3, Inductive, PTL DEF Spec

(* FAILED and CANCELLED are final and CONFIRMED only gives way to          *)
(* CANCELLED, whatever copies of the row concurrent handlers hold.         *)
THEOREM StatusIsMonotone == Spec => NoReturn
<1>1. TypeOK /\ StatusMove
      => \A r \in Requests :
           /\ status[r] \in {"CANCELLED", "FAILED"} => status'[r] = status[r]
           /\ status[r] = "CONFIRMED" => status'[r] \in {"CONFIRMED", "CANCELLED"}
  BY DEF TypeOK, StatusMove, Moves
<1>2. IInv /\ [Next]_vars
      => [\A r \in Requests :
           /\ status[r] \in {"CANCELLED", "FAILED"} => status'[r] = status[r]
           /\ status[r] = "CONFIRMED" => status'[r] \in {"CONFIRMED", "CANCELLED"}]_vars
  BY <1>1, StatusMoves DEF IInv
<1>. QED
  BY <1>2, Inductive, PTL DEF Spec, NoReturn

(* How a step may change the calendar.                                     *)
CalendarMove ==
  \/ calendar' = calendar
  \/ \E e : /\ \A d \in calendar : d.booking # e.booking
            /\ calendar' = calendar \cup {e}
  \/ \E c \in Cancels :
       /\ cpc[c] = "deleting"
       /\ doomed[c].booking = target[c]
       /\ calendar' = calendar \ {doomed[c]}

LEMMA CalendarMoves == IInv /\ [Next]_vars => CalendarMove
<1>. SUFFICES ASSUME IInv, [Next]_vars PROVE CalendarMove
  OBVIOUS
<1>. USE DEF CalendarMove, graph
<1>1. ASSUME NEW r \in Requests, GraphReplies(r) \/ GraphReplyLost(r)
      PROVE  CalendarMove
  <2>1. PICK e : GraphCreates(r, e)
    BY <1>1 DEF GraphReplies, GraphReplyLost
  <2>. QED
    BY <2>1 DEF GraphCreates, SameTransaction
<1>2. ASSUME NEW c \in Cancels, CancelDelete(c) PROVE CalendarMove
  BY <1>2 DEF CancelDelete, IInv, CancelInv
<1>3. ASSUME NEW r \in Requests,
             \/ Submit(r) \/ CheckFreeBusy(r) \/ FreeBusyFails(r)
             \/ Insert(r) \/ InsertConflict(r) \/ InsertFails(r)
             \/ GraphRejects(r) \/ RetryPost(r) \/ PostFails(r) \/ PostVanishes(r)
             \/ Confirm(r) \/ ConfirmFails(r) \/ MarkFailed(r) \/ MarkFailedFails(r)
             \/ SendConfirmation(r) \/ ConfirmationFails(r)
             \/ StampConfirmation(r) \/ StampFails(r)
      PROVE  calendar' = calendar
  BY <1>3 DEF Submit, CheckFreeBusy, FreeBusyFails, Insert, InsertConflict, InsertFails,
       GraphRejects, RetryPost, PostFails, PostVanishes, Confirm, ConfirmFails,
       MarkFailed, MarkFailedFails, SendConfirmation, ConfirmationFails,
       StampConfirmation, StampFails
<1>4. ASSUME NEW c \in Cancels,
             (\E r \in Requests : CancelRead(c, r)) \/ CancelWrite(c) \/ CancelFailure(c)
      PROVE  calendar' = calendar
  BY <1>4 DEF CancelRead, CancelWrite, CancelFailure, CancelDeleteFails, CancelWriteFails
<1>5. ASSUME (\E s \in Slots : Meet(s)) \/ Crash \/ UNCHANGED vars
      PROVE  calendar' = calendar
  BY <1>5 DEF Meet, Crash, vars
<1>. QED
  BY <1>1, <1>2, <1>3, <1>4, <1>5 DEF Next, Progress, Failure, CancelProgress

(* transactionId makes retries harmless: a booking has at most one event   *)
(* (createBooking 343-345).                                                *)
THEOREM SingleEvent == Spec => []OneEventPerBooking
<1>1. Init => OneEventPerBooking
  BY DEF Init, OneEventPerBooking
<1>2. OneEventPerBooking /\ CalendarMove => OneEventPerBooking'
  BY DEF OneEventPerBooking, CalendarMove
<1>3. IInv /\ OneEventPerBooking /\ [Next]_vars => OneEventPerBooking'
  BY <1>2, CalendarMoves
<1>. QED
  BY <1>1, <1>3, Inductive, PTL DEF Spec

(* Only the cancellation of a booking takes its event off the calendar     *)
(* (cancelBooking 393-403).                                                *)
THEOREM OwnEventOnly == Spec => DeletesOwnEventOnly
<1>1. CalendarMove
      => \A e \in calendar \ calendar' :
           \E c \in Cancels : cpc[c] = "deleting" /\ target[c] = e.booking
  BY DEF CalendarMove
<1>2. IInv /\ [Next]_vars
      => [\A e \in calendar \ calendar' :
            \E c \in Cancels : cpc[c] = "deleting" /\ target[c] = e.booking]_vars
  BY <1>1, CalendarMoves
<1>. QED
  BY <1>2, Inductive, PTL DEF Spec, DeletesOwnEventOnly

----------------------------------------------------------------------------
(* Refinement of SlotLedger.  Who holds a slot, without the CHOOSE.        *)
HolderSpec ==
  \A s \in Slots :
    /\ \A q \in Requests : Active(q) /\ slot[q] = s => Holder(s) = q
    /\ ~Taken(s) => Holder(s) = Nobody

LEMMA HolderIs == OneActivePerSlot => HolderSpec
<1>. SUFFICES ASSUME OneActivePerSlot, NEW s \in Slots
              PROVE  /\ \A q \in Requests : Active(q) /\ slot[q] = s => Holder(s) = q
                     /\ ~Taken(s) => Holder(s) = Nobody
  BY DEF HolderSpec
<1>1. ASSUME NEW q \in Requests, Active(q), slot[q] = s
      PROVE  Holder(s) = q
  <2>1. Taken(s)
    BY <1>1 DEF Taken
  <2>2. \A r \in Requests : Active(r) /\ slot[r] = s => r = q
    BY <1>1 DEF OneActivePerSlot
  <2>3. (CHOOSE r \in Requests : Active(r) /\ slot[r] = s) = q
    BY <1>1, <2>2
  <2>. QED
    BY <2>1, <2>3 DEF Holder
<1>. QED
  BY <1>1 DEF Holder

(* A slot none of whose rows moved keeps its holder.                       *)
LEMMA UnmovedHolder ==
  ASSUME HolderSpec, HolderSpec', NEW s \in Slots, UNCHANGED slot,
         \A q \in Requests : slot[q] = s => status'[q] = status[q]
  PROVE  Holder(s)' = Holder(s)
<1>1. CASE \E q \in Requests : Active(q) /\ slot[q] = s
  BY <1>1 DEF HolderSpec, Active
<1>2. CASE ~Taken(s)
  BY <1>2 DEF HolderSpec, Taken, Active
<1>. QED
  BY <1>1, <1>2 DEF Taken

LedgerHolder == [s \in Slots |-> Holder(s)]
LedgerUsed == {r \in Requests : status[r] # "NONE"}

(* Each move of a status is a Hold, a Release or a stutter of the ledger.  *)
LEMMA LedgerStep ==
  ASSUME TypeOK, OneActivePerSlot, OneActivePerSlot', StatusMove
  PROVE  [Ledger!Next]_<<LedgerHolder, LedgerUsed>>
<1>1. HolderSpec /\ HolderSpec'
  <2>1. HolderSpec
    BY HolderIs
  <2>2. HolderSpec'
    BY HolderIs, PTL
  <2>. QED
    BY <2>1, <2>2
<1>. USE <1>1 DEF TypeOK, HolderSpec, Taken, Active, LedgerHolder, LedgerUsed
<1>2. CASE UNCHANGED <<status, slot>>
  <2>1. \A s \in Slots : Holder(s)' = Holder(s)
    BY <1>2 DEF Holder
  <2>. QED
    BY <1>2, <2>1
<1>3. ASSUME NEW r \in Requests, NEW s \in Slots, slot[r] = s,
             Moves(r, "NONE", "PENDING"), ~Taken(s)
      PROVE  Ledger!Hold(r, s)
  <2>1. LedgerHolder' = [LedgerHolder EXCEPT ![s] = r]
    <3>1. Holder(s)' = r
      BY <1>3 DEF Moves
    <3>2. ASSUME NEW t \in Slots, t # s PROVE Holder(t)' = Holder(t)
      BY <1>3, <3>2, UnmovedHolder DEF Moves
    <3>. QED
      BY <1>3, <3>1, <3>2 DEF Moves
  <2>2. LedgerUsed' = LedgerUsed \cup {r}
    BY <1>3 DEF Moves
  <2>3. LedgerHolder[s] = Nobody /\ r \notin LedgerUsed
    BY <1>3 DEF Moves
  <2>. QED
    BY <2>1, <2>2, <2>3 DEF Ledger!Hold
<1>4. ASSUME NEW r \in Requests, Moves(r, "PENDING", "CONFIRMED")
      PROVE  UNCHANGED <<LedgerHolder, LedgerUsed>>
  BY <1>4 DEF Moves
<1>5. ASSUME NEW r \in Requests,
             Moves(r, "PENDING", "FAILED") \/ Moves(r, "CONFIRMED", "CANCELLED")
      PROVE  Ledger!Release(slot[r])
  <2>1. LedgerHolder' = [LedgerHolder EXCEPT ![slot[r]] = Nobody]
    <3>1. ~Taken(slot[r])'
      BY <1>5 DEF Moves, OneActivePerSlot
    <3>2. Holder(slot[r])' = Nobody
      BY <1>5, <3>1 DEF Moves
    <3>3. ASSUME NEW s \in Slots, s # slot[r] PROVE Holder(s)' = Holder(s)
      BY <1>5, <3>3, UnmovedHolder DEF Moves
    <3>. QED
      BY <1>5, <3>2, <3>3 DEF Moves
  <2>2. LedgerUsed' = LedgerUsed
    BY <1>5 DEF Moves
  <2>3. LedgerHolder[slot[r]] # Nobody
    BY <1>5, NobodyAssumption DEF Moves
  <2>. QED
    BY <2>1, <2>2, <2>3 DEF Ledger!Release
<1>6. \A r \in Requests : slot[r] \in Slots
  OBVIOUS
<1>. HIDE DEF TypeOK, HolderSpec, Taken, Active, LedgerHolder, LedgerUsed
<1>7. ASSUME NEW r \in Requests, Moves(r, "NONE", "PENDING"), ~Taken(slot[r])
      PROVE  Ledger!Next
  <2>1. PICK s \in Slots : slot[r] = s
    BY <1>6
  <2>2. Ledger!Hold(r, s)
    BY <1>3, <1>7, <2>1
  <2>. QED
    BY <2>2 DEF Ledger!Next
<1>8. ASSUME NEW r \in Requests,
             Moves(r, "PENDING", "FAILED") \/ Moves(r, "CONFIRMED", "CANCELLED")
      PROVE  Ledger!Next
  BY <1>5, <1>6, <1>8 DEF Ledger!Next
<1>. QED
  BY <1>2, <1>4, <1>7, <1>8 DEF StatusMove

(* The handlers implement the abstract reservation: a slot has one holder, *)
(* changes hands only through being free, and no request holds it twice.   *)
THEOREM Refinement == Spec => ImplementsLedger
<1>1. Init => Ledger!Init
  BY DEF Init, Ledger!Init, Holder, Taken, Active
<1>2. IInv /\ OneActivePerSlot /\ OneActivePerSlot' /\ [Next]_vars
      => [Ledger!Next]_<<LedgerHolder, LedgerUsed>>
  BY LedgerStep, StatusMoves DEF IInv
<1>. QED
  BY <1>1, <1>2, Inductive, Exclusive, PTL
  DEF Spec, ImplementsLedger, Ledger!Spec, LedgerHolder, LedgerUsed

----------------------------------------------------------------------------
(* While nothing has failed, a POST in flight has its handler waiting, a   *)
(* confirmed row's event is the one it recorded, and a cancel about to     *)
(* write has left no event behind.                                         *)
NoFaultYet ==
  /\ \A r \in Requests :
       /\ pc[r] = "posting" <=> r \in posts
       /\ pc[r] # "failing"
       /\ r \in tokens => graphEventId[r] # NoEvent
  /\ \A e \in calendar :
       /\ Active(e.booking)
       /\ status[e.booking] = "CONFIRMED" => graphEventId[e.booking] = e
  /\ \A c \in Cancels :
       /\ cpc[c] = "deleting" => doomed[c] = graphEventId[target[c]]
       /\ cpc[c] = "writing" => \A e \in calendar : e.booking # target[c]

CleanInv == faults = 0 => NoFaultYet

LEMMA CleanStep ==
  ASSUME IInv, OneEventPerBooking, CleanInv, [Next]_vars
  PROVE  CleanInv'
<1>. SUFFICES ASSUME faults' = 0 PROVE NoFaultYet'
  BY DEF CleanInv
<1>1. faults = 0 /\ ~(faults' = faults + 1)
  BY DEF Next, Progress, Failure, CancelProgress, CancelFailure, vars, IInv, TypeOK,
    Submit, CheckFreeBusy, FreeBusyFails, Insert, InsertConflict, InsertFails,
    GraphReplies, GraphReplyLost, GraphRejects, RetryPost, PostFails, PostVanishes,
    Confirm, ConfirmFails, MarkFailed, MarkFailedFails, SendConfirmation,
    ConfirmationFails, StampConfirmation, StampFails, CancelRead, CancelDelete,
    CancelDeleteFails, CancelWrite, CancelWriteFails, Meet, Crash, Fault
<1>2. NoFaultYet
  BY <1>1 DEF CleanInv
<1>. USE <1>2 DEF IInv, TypeOK, NoFaultYet, Active, Goto, CancelGoto,
                  rows, local, cancels, graph
<1>3. ASSUME NEW r \in Requests,
             \/ Submit(r) \/ CheckFreeBusy(r) \/ InsertConflict(r)
             \/ RetryPost(r) \/ PostFails(r) \/ PostVanishes(r)
             \/ SendConfirmation(r) \/ StampConfirmation(r)
      PROVE  NoFaultYet'
  BY <1>1, <1>3 DEF Submit, CheckFreeBusy, InsertConflict, RetryPost, PostFails,
       PostVanishes, SendConfirmation, StampConfirmation, Fault
<1>4. ASSUME NEW r \in Requests, Insert(r) PROVE NoFaultYet'
  BY <1>4 DEF Insert, HandlerInv, Events
<1>5. ASSUME NEW r \in Requests, GraphReplies(r) PROVE NoFaultYet'
  <2>1. PICK e : GraphCreates(r, e)
    BY <1>5 DEF GraphReplies
  <2>2. r \notin tokens /\ status[r] = "PENDING" /\ pc[r] = "posting"
    BY <2>1 DEF GraphCreates, HandlerInv, EventInv
  <2>3. \A d \in calendar' : d \in calendar \/ d.booking = r
    BY <2>1 DEF GraphCreates
  <2>4. posts' = posts \ {r} /\ pc' = [pc EXCEPT ![r] = "confirming"]
    BY <1>5, <2>2 DEF GraphReplies, GraphCreates
  <2>5. \A c \in Cancels : cpc[c] = "writing" => target[c] # r
    BY <2>2 DEF CancelInv
  <2>. QED
    BY <1>5, <2>2, <2>3, <2>4, <2>5 DEF GraphReplies
<1>6. ASSUME NEW r \in Requests, Confirm(r) PROVE NoFaultYet'
  <2>1. r \notin tokens /\ event[r] \in calendar /\ event[r] # NoEvent
    BY <1>6, NoEventAssumption DEF Confirm, HandlerInv, EventInv, Events
  <2>2. \A e \in calendar : e.booking = r => e = event[r]
    BY <1>6 DEF Confirm, HandlerInv, OneEventPerBooking
  <2>3. \A c \in Cancels : cpc[c] = "deleting" => target[c] # r
    BY <2>1, NobodyAssumption DEF CancelInv
  <2>4. \A e \in calendar : e.booking \in Requests
    BY DEF Events
  <2>. QED
    BY <1>6, <2>1, <2>2, <2>3, <2>4 DEF Confirm
<1>7. ASSUME NEW c \in Cancels, NEW r \in Requests, CancelRead(c, r)
      PROVE  NoFaultYet'
  BY <1>7 DEF CancelRead
<1>8. ASSUME NEW c \in Cancels, CancelDelete(c) PROVE NoFaultYet'
  <2>1. \A e \in calendar : e.booking = target[c] => e = doomed[c]
    <3>1. SUFFICES ASSUME NEW e \in calendar, e.booking = target[c]
                   PROVE  e = doomed[c]
      OBVIOUS
    <3>2. status[target[c]] = "CONFIRMED"
      BY <1>8, <3>1 DEF CancelDelete, CancelInv, EventInv
    <3>. QED
      BY <1>8, <3>1, <3>2 DEF CancelDelete
  <2>. QED
    BY <1>8, <2>1 DEF CancelDelete
<1>9. ASSUME NEW c \in Cancels, CancelWrite(c) PROVE NoFaultYet'
  BY <1>9 DEF CancelWrite, Events
<1>10. ASSUME (\E s \in Slots : Meet(s)) \/ UNCHANGED vars PROVE NoFaultYet'
  BY <1>10 DEF Meet, vars
<1>11. ASSUME NEW r \in Requests, Failure(r) PROVE FALSE
  BY <1>1, <1>11 DEF Failure, FreeBusyFails, InsertFails, GraphReplyLost, GraphRejects,
       ConfirmFails, MarkFailedFails, ConfirmationFails, StampFails, Fault
<1>12. ASSUME (\E c \in Cancels : CancelFailure(c)) \/ Crash PROVE FALSE
  BY <1>1, <1>12 DEF CancelFailure, CancelDeleteFails, CancelWriteFails, Crash, Fault
<1>13. ASSUME NEW r \in Requests, MarkFailed(r) PROVE FALSE
  BY <1>13 DEF MarkFailed
<1>. QED
  BY <1>3, <1>4, <1>5, <1>6, <1>7, <1>8, <1>9, <1>10, <1>11, <1>12, <1>13
  DEF Next, Progress, CancelProgress

(* Without a failure, the calendar holds no event of a row that does not   *)
(* occupy its slot, so what free/busy blocks and what the index blocks     *)
(* agree: orphans come from faults alone.                                  *)
THEOREM OrphansOnlyFromFaults == Spec => []OrphansNeedAFault
<1>1. Init => CleanInv
  BY DEF Init, CleanInv, NoFaultYet
<1>2. IInv /\ OneEventPerBooking /\ CleanInv /\ [Next]_vars => CleanInv'
  BY CleanStep
<1>3. CleanInv => OrphansNeedAFault
  BY DEF CleanInv, NoFaultYet, OrphansNeedAFault
<1>. QED
  BY <1>1, <1>2, <1>3, Inductive, SingleEvent, PTL DEF Spec
=============================================================================
