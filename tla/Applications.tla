---------------------------- MODULE Applications ----------------------------
(***************************************************************************)
(* Job applications and their CV files: POST /api/applications             *)
(* (routes/application.routes.ts), the volume the files are on             *)
(* (services/cvStorage.service.ts), and what administrators do to adverts, *)
(* applications and files (routes/admin.routes.ts).                        *)
(*                                                                         *)
(* A row and its file are written and deleted by separate calls, with no   *)
(* transaction over both.  The uploaded bytes, the fields of the form and  *)
(* the review of an application are left out.                              *)
(***************************************************************************)
EXTENDS Naturals

CONSTANTS
  Submissions,  \* posts of the form; also the row and the file each makes
  Jobs,         \* adverts
  Erasures,     \* runs of DELETE /admin/applications/:id
  Downloads,    \* runs of GET /admin/applications/:id/cv
  Nothing,      \* no advert, no submission
  MaxFaults     \* failures of the database, of the volume, of the process

ASSUME FaultsAssumption == MaxFaults \in Nat
ASSUME NothingAssumption == Nothing \notin Jobs /\ Nothing \notin Submissions

VARIABLES
  advert,        \* what became of each advert
  rows,          \* submissions that have a row
  files,         \* submissions that have a file on the volume
  acknowledged,  \* rows with acknowledgedAt
  mailed,        \* submissions whose acknowledgement was mailed
  pc,            \* where the handler of each submission stands
  target,        \* the advert it is for
  epc,           \* where each erasure stands
  etarget,       \* the submission it erases
  dpc,           \* where each download stands
  dtarget,       \* the submission whose CV it wants
  faults         \* failures so far

submit   == <<pc, target>>
erase    == <<epc, etarget>>
download == <<dpc, dtarget>>
vars     == <<advert, rows, files, acknowledged, mailed, submit, erase, download, faults>>

----------------------------------------------------------------------------
TypeOK ==
  /\ advert \in [Jobs -> {"open", "shut", "deleted"}]
  /\ rows \subseteq Submissions
  /\ files \subseteq Submissions
  /\ acknowledged \subseteq Submissions
  /\ mailed \subseteq Submissions
  /\ pc \in [Submissions -> {"idle", "storing", "creating", "discarding", "notifying",
                             "stamping", "done", "refused", "failed", "torn", "left"}]
  /\ target \in [Submissions -> Jobs \cup {Nothing}]
  /\ epc \in [Erasures -> {"idle", "deleting", "removing", "done", "left", "gone", "failed"}]
  /\ etarget \in [Erasures -> Submissions \cup {Nothing}]
  /\ dpc \in [Downloads -> {"idle", "opening", "served", "missing", "unreadable"}]
  /\ dtarget \in [Downloads -> Submissions \cup {Nothing}]
  /\ faults \in Nat

Init ==
  /\ advert = [j \in Jobs |-> "open"]
  /\ rows = {} /\ files = {} /\ acknowledged = {} /\ mailed = {}
  /\ pc = [s \in Submissions |-> "idle"]
  /\ target = [s \in Submissions |-> Nothing]
  /\ epc = [e \in Erasures |-> "idle"]
  /\ etarget = [e \in Erasures |-> Nothing]
  /\ dpc = [d \in Downloads |-> "idle"]
  /\ dtarget = [d \in Downloads |-> Nothing]
  /\ faults = 0

Goto(s, step) == pc' = [pc EXCEPT ![s] = step]

EraseGoto(e, step) == epc' = [epc EXCEPT ![e] = step]

Fault ==
  /\ faults < MaxFaults
  /\ faults' = faults + 1

----------------------------------------------------------------------------
(* POST /api/applications, once the upload is received and well formed.    *)

Apply(s, j) ==
  /\ pc[s] = "idle"
  /\ target' = [target EXCEPT ![s] = j]
  /\ Goto(s, IF advert[j] = "open" THEN "storing" ELSE "refused")
  /\ UNCHANGED <<advert, rows, files, acknowledged, mailed, erase, download, faults>>

StoreCv(s) ==
  /\ pc[s] = "storing"
  /\ files' = files \cup {s}
  /\ Goto(s, "creating")
  /\ UNCHANGED <<advert, rows, acknowledged, mailed, target, erase, download, faults>>

(* The write may leave part of a file; nobody removes it.                  *)
StoreCvFails(s) ==
  /\ pc[s] = "storing"
  /\ Fault
  /\ \E part \in SUBSET {s} : files' = files \cup part
  /\ Goto(s, "torn")
  /\ UNCHANGED <<advert, rows, acknowledged, mailed, target, erase, download>>

(* The row refers to the advert: none is created for one that is gone.     *)
(* With the row there, the candidate is told that the application is in.   *)
CreateRow(s) ==
  /\ pc[s] = "creating"
  /\ IF advert[target[s]] # "deleted"
       THEN rows' = rows \cup {s} /\ Goto(s, "notifying")
       ELSE Goto(s, "discarding") /\ UNCHANGED rows
  /\ UNCHANGED <<advert, files, acknowledged, mailed, target, erase, download, faults>>

(* Slip: the candidate is answered before the row is created.              *)
CreateRowFailsQuietly(s) ==
  /\ pc[s] = "creating"
  /\ Fault
  /\ Goto(s, "notifying")
  /\ UNCHANGED <<advert, rows, files, acknowledged, mailed, target, erase, download>>

(* The call rejects, perhaps after it has committed.                       *)
CreateRowFails(s) ==
  /\ pc[s] = "creating"
  /\ Fault
  /\ \E lost \in SUBSET {s} :
       /\ lost # {} => advert[target[s]] # "deleted"
       /\ rows' = rows \cup lost
  /\ Goto(s, "discarding")
  /\ UNCHANGED <<advert, files, acknowledged, mailed, target, erase, download>>

(* Slip: the file stays when the row could not be created.                 *)
DiscardNothing(s) ==
  /\ pc[s] = "discarding"
  /\ Goto(s, "failed")
  /\ UNCHANGED <<advert, rows, files, acknowledged, mailed, target, erase, download, faults>>

DiscardCv(s) ==
  /\ pc[s] = "discarding"
  /\ files' = files \ {s}
  /\ Goto(s, "failed")
  /\ UNCHANGED <<advert, rows, acknowledged, mailed, target, erase, download, faults>>

(* Logged; the candidate is answered as before.                            *)
DiscardCvFails(s) ==
  /\ pc[s] = "discarding"
  /\ Fault
  /\ Goto(s, "left")
  /\ UNCHANGED <<advert, rows, files, acknowledged, mailed, target, erase, download>>

(* The notification is sent, or not, and then the acknowledgement, whose   *)
(* sending may go unconfirmed.                                             *)
Mail(s) ==
  /\ pc[s] = "notifying"
  /\ \/ mailed' = mailed \cup {s} /\ Goto(s, "stamping")
     \/ Goto(s, "done") /\ \E lost \in SUBSET {s} : mailed' = mailed \cup lost
  /\ UNCHANGED <<advert, rows, files, acknowledged, target, erase, download, faults>>

(* The update of a row that is gone fails, which is logged.                *)
StampAcknowledged(s) ==
  /\ pc[s] = "stamping"
  /\ acknowledged' = acknowledged \cup ({s} \cap rows)
  /\ Goto(s, "done")
  /\ UNCHANGED <<advert, rows, files, mailed, target, erase, download, faults>>

StampFails(s) ==
  /\ pc[s] = "stamping"
  /\ Fault
  /\ Goto(s, "done")
  /\ UNCHANGED <<advert, rows, files, acknowledged, mailed, target, erase, download>>

----------------------------------------------------------------------------
(* Administrators.                                                         *)

(* An advert is unpublished, reaches its closing date, or opens again.     *)
OpenOrShut(j) ==
  /\ advert[j] # "deleted"
  /\ \E state \in {"open", "shut"} : advert' = [advert EXCEPT ![j] = state]
  /\ UNCHANGED <<rows, files, acknowledged, mailed, submit, erase, download, faults>>

(* DELETE /jobs/:id; the rows of its applications go with it.              *)
DeleteJob(j) ==
  /\ advert[j] # "deleted"
  /\ advert' = [advert EXCEPT ![j] = "deleted"]
  /\ rows' = {s \in rows : target[s] # j}
  /\ acknowledged' = {s \in acknowledged : target[s] # j}
  /\ UNCHANGED <<files, mailed, submit, erase, download, faults>>

(* DELETE /applications/:id.                                               *)
Erase(e, s) ==
  /\ epc[e] = "idle"
  /\ s \in rows
  /\ etarget' = [etarget EXCEPT ![e] = s]
  /\ EraseGoto(e, "deleting")
  /\ UNCHANGED <<advert, rows, files, acknowledged, mailed, submit, download, faults>>

(* The delete of a row that is gone by now fails, and the file is not      *)
(* looked at.                                                              *)
EraseRow(e) ==
  /\ epc[e] = "deleting"
  /\ rows' = rows \ {etarget[e]}
  /\ acknowledged' = acknowledged \ {etarget[e]}
  /\ EraseGoto(e, IF etarget[e] \in rows THEN "removing" ELSE "gone")
  /\ UNCHANGED <<advert, files, mailed, etarget, submit, download, faults>>

(* The call rejects, perhaps after it has committed.                       *)
EraseRowFails(e) ==
  /\ epc[e] = "deleting"
  /\ Fault
  /\ \E lost \in SUBSET {etarget[e]} :
       rows' = rows \ lost /\ acknowledged' = acknowledged \ lost
  /\ EraseGoto(e, "failed")
  /\ UNCHANGED <<advert, files, mailed, etarget, submit, download>>

(* Slip: the row is all that is erased.                                    *)
EraseNoCv(e) ==
  /\ epc[e] = "removing"
  /\ EraseGoto(e, "done")
  /\ UNCHANGED <<advert, rows, files, acknowledged, mailed, etarget, submit, download, faults>>

EraseCv(e) ==
  /\ epc[e] = "removing"
  /\ files' = files \ {etarget[e]}
  /\ EraseGoto(e, "done")
  /\ UNCHANGED <<advert, rows, acknowledged, mailed, etarget, submit, download, faults>>

(* Logged, and answered as if the file were gone.                          *)
EraseCvFails(e) ==
  /\ epc[e] = "removing"
  /\ Fault
  /\ EraseGoto(e, "left")
  /\ UNCHANGED <<advert, rows, files, acknowledged, mailed, etarget, submit, download>>

(* GET /applications/:id/cv.                                               *)
Download(d, s) ==
  /\ dpc[d] = "idle"
  /\ s \in rows
  /\ dtarget' = [dtarget EXCEPT ![d] = s]
  /\ dpc' = [dpc EXCEPT ![d] = "opening"]
  /\ UNCHANGED <<advert, rows, files, acknowledged, mailed, submit, erase, faults>>

OpenCv(d) ==
  /\ dpc[d] = "opening"
  /\ dpc' = [dpc EXCEPT ![d] = IF dtarget[d] \in files THEN "served" ELSE "missing"]
  /\ UNCHANGED <<advert, rows, files, acknowledged, mailed, dtarget, submit, erase, faults>>

(* The answer is the same when the file is there and cannot be read.       *)
OpenCvFails(d) ==
  /\ dpc[d] = "opening"
  /\ Fault
  /\ dpc' = [dpc EXCEPT ![d] = "unreadable"]
  /\ UNCHANGED <<advert, rows, files, acknowledged, mailed, dtarget, submit, erase>>

----------------------------------------------------------------------------
(* A candidate who was answered stays answered.  What a crash between a    *)
(* call and its answer leaves, the failure of the call leaves as well.     *)
Crash ==
  /\ Fault
  /\ pc' = [s \in Submissions |->
              CASE pc[s] = "storing" -> "torn"
                [] pc[s] \in {"creating", "discarding"} -> "left"
                [] pc[s] \in {"notifying", "stamping"} -> "done"
                [] OTHER -> pc[s]]
  /\ epc' = [e \in Erasures |->
               IF epc[e] \in {"deleting", "removing"} THEN "failed" ELSE epc[e]]
  /\ dpc' = [d \in Downloads |-> IF dpc[d] = "opening" THEN "idle" ELSE dpc[d]]
  /\ UNCHANGED <<advert, rows, files, acknowledged, mailed, target, etarget, dtarget>>

SubmitStep(s) ==
  \/ StoreCv(s) \/ StoreCvFails(s) \/ CreateRow(s) \/ CreateRowFails(s)
  \/ DiscardCv(s) \/ DiscardCvFails(s)
  \/ Mail(s) \/ StampAcknowledged(s) \/ StampFails(s)

EraseStep(e) == EraseRow(e) \/ EraseRowFails(e) \/ EraseCv(e) \/ EraseCvFails(e)

Next ==
  \/ \E s \in Submissions, j \in Jobs : Apply(s, j)
  \/ \E s \in Submissions : SubmitStep(s)
  \/ \E j \in Jobs : OpenOrShut(j) \/ DeleteJob(j)
  \/ \E e \in Erasures, s \in Submissions : Erase(e, s)
  \/ \E e \in Erasures : EraseStep(e)
  \/ \E d \in Downloads, s \in Submissions : Download(d, s)
  \/ \E d \in Downloads : OpenCv(d) \/ OpenCvFails(d)
  \/ Crash

Spec == Init /\ [][Next]_vars

----------------------------------------------------------------------------
(***************************************************************************)
(* Properties                                                              *)
(***************************************************************************)

(* The candidate was told that the application is in.                      *)
Told(s) == pc[s] \in {"notifying", "stamping", "done"}

(* The advert was deleted, or somebody has erased the application.         *)
Withdrawn(s) ==
  \/ target[s] # Nothing /\ advert[target[s]] = "deleted"
  \/ \E e \in Erasures : etarget[e] = s /\ epc[e] \in {"removing", "done", "left", "failed"}

(* An application that the candidate was told is in has its row and its    *)
(* CV until it is withdrawn (application.routes.ts:149).                   *)
AcceptedIsKept ==
  \A s \in Submissions : Told(s) => (s \in rows /\ s \in files) \/ Withdrawn(s)

(* A row without its file is only that of a candidate who was told that    *)
(* the application failed, when the answer of the create was lost.         *)
RowHasCv == \A s \in rows \ files : pc[s] = "failed"

(* A file without a row is in hand; or its write was cut short, its        *)
(* deletion failed or never came; or it is of an application that was in   *)
(* when its advert was deleted.  What the create of the row refuses or     *)
(* fails at is not left on the volume (application.routes.ts:182-186).     *)
OrphanIsKnown ==
  \A s \in files \ rows :
    \/ pc[s] \in {"creating", "discarding", "torn", "left"}
    \/ Told(s) /\ advert[target[s]] = "deleted"
    \/ \E e \in Erasures : etarget[e] = s /\ epc[e] \in {"removing", "left", "failed"}

(* An erasure whose two calls went through leaves no row and no file, and  *)
(* nothing brings them back (admin.routes.ts:1431).                        *)
ErasureIsComplete ==
  \A e \in Erasures : epc[e] = "done" => etarget[e] \notin rows \cup files

(* A download finds no file only if the application was withdrawn          *)
(* meanwhile or its submission failed.                                     *)
MissingIsExplained ==
  \A d \in Downloads : dpc[d] = "missing" => Withdrawn(dtarget[d]) \/ pc[dtarget[d]] = "failed"

(* A row says acknowledged only when the mail to the candidate went out.   *)
AcknowledgedWasMailed == acknowledged \subseteq rows \cap mailed
=============================================================================
