------------------------- MODULE ApplicationsProofs -------------------------
(***************************************************************************)
(* Proofs about Applications for any number of submissions, adverts,       *)
(* erasures, downloads and failures.                                       *)
(***************************************************************************)
EXTENDS Applications, TLAPS

(* The file is there before the row is, and the row is gone before an      *)
(* erasure removes the file.                                               *)
SubmissionAt(s) ==
  /\ IF pc[s] = "idle" THEN target[s] = Nothing ELSE target[s] \in Jobs
  /\ pc[s] \in {"idle", "storing", "refused"} => s \notin rows \cup files
  /\ pc[s] = "creating" => s \in files \ rows
  /\ pc[s] = "torn" => s \notin rows
  /\ pc[s] \in {"discarding", "left"} => s \in files \/ Withdrawn(s)
  /\ pc[s] = "failed" => s \notin files

HadRow(s) ==
  /\ s \in Submissions
  /\ pc[s] \in {"discarding", "notifying", "stamping", "done", "failed", "left"}

ErasureAt(e) ==
  /\ epc[e] # "idle" => HadRow(etarget[e])
  /\ epc[e] = "removing" => etarget[e] \notin rows

DownloadAt(d) == dpc[d] # "idle" => HadRow(dtarget[d])

OrderInv ==
  /\ \A s \in Submissions : SubmissionAt(s)
  /\ \A e \in Erasures : ErasureAt(e)
  /\ \A d \in Downloads : DownloadAt(d)

IInv ==
  /\ TypeOK
  /\ OrderInv
  /\ AcceptedIsKept
  /\ RowHasCv
  /\ OrphanIsKnown
  /\ ErasureIsComplete
  /\ MissingIsExplained

----------------------------------------------------------------------------
LEMMA TypeStep == TypeOK /\ [Next]_vars => TypeOK'
<1>. SUFFICES ASSUME TypeOK, [Next]_vars PROVE TypeOK'
  OBVIOUS
<1>. USE DEF TypeOK, Goto, EraseGoto, Fault, submit, erase, download
<1>1. ASSUME NEW s \in Submissions, NEW j \in Jobs, Apply(s, j) PROVE TypeOK'
  BY <1>1 DEF Apply
<1>2. ASSUME NEW s \in Submissions, SubmitStep(s) PROVE TypeOK'
  <2>1. CASE StoreCv(s) \/ StoreCvFails(s)
    BY <2>1 DEF StoreCv, StoreCvFails
  <2>2. CASE CreateRow(s) \/ CreateRowFails(s)
    BY <2>2 DEF CreateRow, CreateRowFails
  <2>3. CASE DiscardCv(s) \/ DiscardCvFails(s)
    BY <2>3 DEF DiscardCv, DiscardCvFails
  <2>4. CASE Mail(s) \/ StampAcknowledged(s) \/ StampFails(s)
    BY <2>4 DEF Mail, StampAcknowledged, StampFails
  <2>. QED
    BY <1>2, <2>1, <2>2, <2>3, <2>4 DEF SubmitStep
<1>3. ASSUME NEW j \in Jobs, OpenOrShut(j) \/ DeleteJob(j) PROVE TypeOK'
  BY <1>3 DEF OpenOrShut, DeleteJob
<1>4. ASSUME NEW e \in Erasures, NEW s \in Submissions, Erase(e, s) PROVE TypeOK'
  BY <1>4 DEF Erase
<1>5. ASSUME NEW e \in Erasures, EraseStep(e) PROVE TypeOK'
  BY <1>5 DEF EraseStep, EraseRow, EraseRowFails, EraseCv, EraseCvFails
<1>6. ASSUME NEW d \in Downloads, NEW s \in Submissions, Download(d, s) PROVE TypeOK'
  BY <1>6 DEF Download
<1>7. ASSUME NEW d \in Downloads, OpenCv(d) \/ OpenCvFails(d) PROVE TypeOK'
  BY <1>7 DEF OpenCv, OpenCvFails
<1>8. CASE Crash
  BY <1>8 DEF Crash
<1>9. CASE UNCHANGED vars
  BY <1>9 DEF vars
<1>. QED
  BY <1>1, <1>2, <1>3, <1>4, <1>5, <1>6, <1>7, <1>8, <1>9 DEF Next

(* A withdrawn application stays withdrawn.                                *)
LEMMA WithdrawnStays ==
  ASSUME TypeOK, OrderInv, [Next]_vars, NEW x \in Submissions, Withdrawn(x)
  PROVE  Withdrawn(x)'
<1>. USE NothingAssumption
         DEF TypeOK, OrderInv, SubmissionAt, Withdrawn, Goto, EraseGoto, submit, erase, download
<1>1. ASSUME NEW s \in Submissions, NEW j \in Jobs, Apply(s, j) PROVE Withdrawn(x)'
  BY <1>1 DEF Apply
<1>2. ASSUME NEW s \in Submissions, StoreCv(s) \/ StoreCvFails(s) PROVE Withdrawn(x)'
  BY <1>2 DEF StoreCv, StoreCvFails
<1>3. ASSUME NEW s \in Submissions, CreateRow(s) \/ CreateRowFails(s) PROVE Withdrawn(x)'
  BY <1>3 DEF CreateRow, CreateRowFails
<1>4. ASSUME NEW s \in Submissions, DiscardCv(s) \/ DiscardCvFails(s) PROVE Withdrawn(x)'
  BY <1>4 DEF DiscardCv, DiscardCvFails
<1>5. ASSUME NEW s \in Submissions, Mail(s) \/ StampAcknowledged(s) \/ StampFails(s)
      PROVE  Withdrawn(x)'
  BY <1>5 DEF Mail, StampAcknowledged, StampFails
<1>6. ASSUME NEW j \in Jobs, OpenOrShut(j) \/ DeleteJob(j) PROVE Withdrawn(x)'
  BY <1>6 DEF OpenOrShut, DeleteJob
<1>7. ASSUME NEW e \in Erasures, NEW s \in Submissions, Erase(e, s) PROVE Withdrawn(x)'
  BY <1>7 DEF Erase
<1>8. ASSUME NEW e \in Erasures, EraseRow(e) \/ EraseRowFails(e) PROVE Withdrawn(x)'
  BY <1>8 DEF EraseRow, EraseRowFails
<1>9. ASSUME NEW e \in Erasures, EraseCv(e) \/ EraseCvFails(e) PROVE Withdrawn(x)'
  BY <1>9 DEF EraseCv, EraseCvFails
<1>10. ASSUME NEW d \in Downloads, NEW s \in Submissions, Download(d, s)
      PROVE  Withdrawn(x)'
  BY <1>10 DEF Download
<1>11. ASSUME NEW d \in Downloads, OpenCv(d) \/ OpenCvFails(d)
       PROVE  Withdrawn(x)'
  BY <1>11 DEF OpenCv, OpenCvFails, Fault
<1>12. CASE Crash
  BY <1>12 DEF Crash
<1>13. CASE UNCHANGED vars
  BY <1>13 DEF vars
<1>. QED
  BY <1>1, <1>2, <1>3, <1>4, <1>5, <1>6, <1>7, <1>8, <1>9, <1>10, <1>11, <1>12, <1>13 DEF Next, SubmitStep, EraseStep

(* A submission goes through its steps in their order.                     *)
LEMMA SubmissionStep ==
  ASSUME TypeOK, OrderInv, [Next]_vars, NEW x \in Submissions
  PROVE  SubmissionAt(x)'
<1>. SubmissionAt(x) /\ (Withdrawn(x) => Withdrawn(x)')
  BY WithdrawnStays DEF OrderInv
<1>. USE DEF TypeOK, SubmissionAt, Goto, EraseGoto, submit, erase, download
<1>1. ASSUME NEW s \in Submissions, NEW j \in Jobs, Apply(s, j) PROVE SubmissionAt(x)'
  BY <1>1 DEF Apply
<1>2. ASSUME NEW s \in Submissions, StoreCv(s) \/ StoreCvFails(s) PROVE SubmissionAt(x)'
  BY <1>2 DEF StoreCv, StoreCvFails
<1>3. ASSUME NEW s \in Submissions, CreateRow(s) \/ CreateRowFails(s)
      PROVE  SubmissionAt(x)'
  BY <1>3 DEF CreateRow, CreateRowFails
<1>4. ASSUME NEW s \in Submissions, DiscardCv(s) \/ DiscardCvFails(s)
      PROVE  SubmissionAt(x)'
  BY <1>4 DEF DiscardCv, DiscardCvFails
<1>5. ASSUME NEW s \in Submissions, Mail(s) \/ StampAcknowledged(s) \/ StampFails(s)
      PROVE  SubmissionAt(x)'
  BY <1>5 DEF Mail, StampAcknowledged, StampFails
<1>6. ASSUME NEW j \in Jobs, OpenOrShut(j) \/ DeleteJob(j) PROVE SubmissionAt(x)'
  BY <1>6 DEF OpenOrShut, DeleteJob
<1>7. ASSUME NEW e \in Erasures, NEW s \in Submissions, Erase(e, s)
      PROVE  SubmissionAt(x)'
  BY <1>7 DEF Erase
<1>8. ASSUME NEW e \in Erasures, EraseRow(e) \/ EraseRowFails(e) PROVE SubmissionAt(x)'
  BY <1>8 DEF EraseRow, EraseRowFails
<1>9. ASSUME NEW e \in Erasures, EraseCv(e) \/ EraseCvFails(e) PROVE SubmissionAt(x)'
  <2>1. etarget[e] = x => Withdrawn(x)'
    BY <1>9 DEF EraseCv, EraseCvFails, Withdrawn
  <2>2. HadRow(etarget[e])
    BY <1>9 DEF EraseCv, EraseCvFails, OrderInv, ErasureAt
  <2>. QED
    BY <1>9, <2>1, <2>2 DEF EraseCv, EraseCvFails, HadRow
<1>10. ASSUME NEW d \in Downloads, NEW s \in Submissions, Download(d, s)
      PROVE  SubmissionAt(x)'
  BY <1>10 DEF Download
<1>11. ASSUME NEW d \in Downloads, OpenCv(d) \/ OpenCvFails(d)
       PROVE  SubmissionAt(x)'
  BY <1>11 DEF OpenCv, OpenCvFails, Fault
<1>12. CASE Crash
  BY <1>12 DEF Crash
<1>13. CASE UNCHANGED vars
  BY <1>13 DEF vars
<1>. QED
  BY <1>1, <1>2, <1>3, <1>4, <1>5, <1>6, <1>7, <1>8, <1>9, <1>10, <1>11, <1>12, <1>13 DEF Next, SubmitStep, EraseStep

(* A row that was there once has a submission past its creation.           *)
LEMMA HadRowStays ==
  ASSUME TypeOK, OrderInv, [Next]_vars, NEW x \in Submissions, HadRow(x) \/ x \in rows
  PROVE  HadRow(x)'
<1>. SubmissionAt(x)
  BY DEF OrderInv
<1>. USE DEF TypeOK, SubmissionAt, HadRow, Goto, EraseGoto, submit, erase, download
<1>1. ASSUME NEW s \in Submissions, NEW j \in Jobs, Apply(s, j) PROVE HadRow(x)'
  BY <1>1 DEF Apply
<1>2. ASSUME NEW s \in Submissions, StoreCv(s) \/ StoreCvFails(s) PROVE HadRow(x)'
  BY <1>2 DEF StoreCv, StoreCvFails
<1>3. ASSUME NEW s \in Submissions, CreateRow(s) \/ CreateRowFails(s) PROVE HadRow(x)'
  BY <1>3 DEF CreateRow, CreateRowFails
<1>4. ASSUME NEW s \in Submissions, DiscardCv(s) \/ DiscardCvFails(s) PROVE HadRow(x)'
  BY <1>4 DEF DiscardCv, DiscardCvFails
<1>5. ASSUME NEW s \in Submissions, Mail(s) \/ StampAcknowledged(s) \/ StampFails(s)
      PROVE  HadRow(x)'
  BY <1>5 DEF Mail, StampAcknowledged, StampFails
<1>6. ASSUME NEW j \in Jobs, OpenOrShut(j) \/ DeleteJob(j) PROVE HadRow(x)'
  BY <1>6 DEF OpenOrShut, DeleteJob
<1>7. ASSUME NEW e \in Erasures, NEW s \in Submissions, Erase(e, s) PROVE HadRow(x)'
  BY <1>7 DEF Erase
<1>8. ASSUME NEW e \in Erasures, EraseRow(e) \/ EraseRowFails(e) PROVE HadRow(x)'
  BY <1>8 DEF EraseRow, EraseRowFails
<1>9. ASSUME NEW e \in Erasures, EraseCv(e) \/ EraseCvFails(e) PROVE HadRow(x)'
  BY <1>9 DEF EraseCv, EraseCvFails
<1>10. ASSUME NEW d \in Downloads, NEW s \in Submissions, Download(d, s) PROVE HadRow(x)'
  BY <1>10 DEF Download
<1>11. ASSUME NEW d \in Downloads, OpenCv(d) \/ OpenCvFails(d)
       PROVE  HadRow(x)'
  BY <1>11 DEF OpenCv, OpenCvFails, Fault
<1>12. CASE Crash
  BY <1>12 DEF Crash
<1>13. CASE UNCHANGED vars
  BY <1>13 DEF vars
<1>. QED
  BY <1>1, <1>2, <1>3, <1>4, <1>5, <1>6, <1>7, <1>8, <1>9, <1>10, <1>11, <1>12, <1>13 DEF Next, SubmitStep, EraseStep

(* Rows that are erased or read have been created.                         *)
LEMMA ErasureStep ==
  ASSUME TypeOK, OrderInv, [Next]_vars, NEW z \in Erasures
  PROVE  ErasureAt(z)'
<1>. \A x \in Submissions : SubmissionAt(x) /\ (HadRow(x) \/ x \in rows => HadRow(x)')
  BY HadRowStays DEF OrderInv
<1>. ErasureAt(z)
  BY DEF OrderInv
<1>. USE DEF TypeOK, SubmissionAt, ErasureAt, HadRow, EraseGoto, Goto, submit, erase, download
<1>1. ASSUME NEW s \in Submissions, NEW j \in Jobs, Apply(s, j) PROVE ErasureAt(z)'
  BY <1>1 DEF Apply
<1>2. ASSUME NEW s \in Submissions, StoreCv(s) \/ StoreCvFails(s) PROVE ErasureAt(z)'
  BY <1>2 DEF StoreCv, StoreCvFails
<1>3. ASSUME NEW s \in Submissions, CreateRow(s) \/ CreateRowFails(s) PROVE ErasureAt(z)'
  BY <1>3 DEF CreateRow, CreateRowFails
<1>4. ASSUME NEW s \in Submissions, DiscardCv(s) \/ DiscardCvFails(s) PROVE ErasureAt(z)'
  BY <1>4 DEF DiscardCv, DiscardCvFails
<1>5. ASSUME NEW s \in Submissions, Mail(s) \/ StampAcknowledged(s) \/ StampFails(s)
      PROVE  ErasureAt(z)'
  BY <1>5 DEF Mail, StampAcknowledged, StampFails
<1>6. ASSUME NEW j \in Jobs, OpenOrShut(j) \/ DeleteJob(j) PROVE ErasureAt(z)'
  BY <1>6 DEF OpenOrShut, DeleteJob
<1>7. ASSUME NEW e \in Erasures, NEW s \in Submissions, Erase(e, s) PROVE ErasureAt(z)'
  BY <1>7 DEF Erase
<1>8. ASSUME NEW e \in Erasures, EraseRow(e) \/ EraseRowFails(e) PROVE ErasureAt(z)'
  BY <1>8 DEF EraseRow, EraseRowFails
<1>9. ASSUME NEW e \in Erasures, EraseCv(e) \/ EraseCvFails(e) PROVE ErasureAt(z)'
  BY <1>9 DEF EraseCv, EraseCvFails
<1>10. ASSUME NEW d \in Downloads, NEW s \in Submissions, Download(d, s)
      PROVE  ErasureAt(z)'
  BY <1>10 DEF Download
<1>11. ASSUME NEW d \in Downloads, OpenCv(d) \/ OpenCvFails(d)
       PROVE  ErasureAt(z)'
  BY <1>11 DEF OpenCv, OpenCvFails, Fault
<1>12. CASE Crash
  BY <1>12 DEF Crash
<1>13. CASE UNCHANGED vars
  BY <1>13 DEF vars
<1>. QED
  BY <1>1, <1>2, <1>3, <1>4, <1>5, <1>6, <1>7, <1>8, <1>9, <1>10, <1>11, <1>12, <1>13 DEF Next, SubmitStep, EraseStep

(* The same of downloads.                                                  *)
LEMMA DownloadStep ==
  ASSUME TypeOK, OrderInv, [Next]_vars, NEW z \in Downloads
  PROVE  DownloadAt(z)'
<1>. \A x \in Submissions : HadRow(x) \/ x \in rows => HadRow(x)'
  BY HadRowStays
<1>. DownloadAt(z)
  BY DEF OrderInv
<1>. USE DEF TypeOK, DownloadAt, HadRow, submit, erase, download
<1>1. ASSUME NEW s \in Submissions, NEW j \in Jobs, Apply(s, j) PROVE DownloadAt(z)'
  BY <1>1 DEF Apply
<1>2. ASSUME NEW s \in Submissions, StoreCv(s) \/ StoreCvFails(s) PROVE DownloadAt(z)'
  BY <1>2 DEF StoreCv, StoreCvFails
<1>3. ASSUME NEW s \in Submissions, CreateRow(s) \/ CreateRowFails(s)
      PROVE  DownloadAt(z)'
  BY <1>3 DEF CreateRow, CreateRowFails
<1>4. ASSUME NEW s \in Submissions, DiscardCv(s) \/ DiscardCvFails(s)
      PROVE  DownloadAt(z)'
  BY <1>4 DEF DiscardCv, DiscardCvFails
<1>5. ASSUME NEW s \in Submissions, Mail(s) \/ StampAcknowledged(s) \/ StampFails(s)
      PROVE  DownloadAt(z)'
  BY <1>5 DEF Mail, StampAcknowledged, StampFails
<1>6. ASSUME NEW j \in Jobs, OpenOrShut(j) \/ DeleteJob(j) PROVE DownloadAt(z)'
  BY <1>6 DEF OpenOrShut, DeleteJob
<1>7. ASSUME NEW e \in Erasures, NEW s \in Submissions, Erase(e, s) PROVE DownloadAt(z)'
  BY <1>7 DEF Erase
<1>8. ASSUME NEW e \in Erasures, EraseRow(e) \/ EraseRowFails(e) PROVE DownloadAt(z)'
  BY <1>8 DEF EraseRow, EraseRowFails
<1>9. ASSUME NEW e \in Erasures, EraseCv(e) \/ EraseCvFails(e) PROVE DownloadAt(z)'
  BY <1>9 DEF EraseCv, EraseCvFails
<1>10. ASSUME NEW d \in Downloads, NEW s \in Submissions, Download(d, s)
      PROVE  DownloadAt(z)'
  BY <1>10 DEF Download
<1>11. ASSUME NEW d \in Downloads, OpenCv(d) \/ OpenCvFails(d)
       PROVE  DownloadAt(z)'
  BY <1>11 DEF OpenCv, OpenCvFails, Fault
<1>12. CASE Crash
  BY <1>12 DEF Crash
<1>13. CASE UNCHANGED vars
  BY <1>13 DEF vars
<1>. QED
  BY <1>1, <1>2, <1>3, <1>4, <1>5, <1>6, <1>7, <1>8, <1>9, <1>10, <1>11, <1>12, <1>13 DEF Next, SubmitStep, EraseStep

(* An erasure of a row that is there, and the deletion of the advert,      *)
(* withdraw.                                                               *)
LEMMA EraserWithdraws ==
  ASSUME TypeOK, NEW e \in Erasures,
         \/ EraseRow(e) /\ etarget[e] \in rows
         \/ EraseRowFails(e) \/ EraseCv(e) \/ EraseCvFails(e)
  PROVE  Withdrawn(etarget[e])' /\ etarget' = etarget
BY DEF TypeOK, EraseRow, EraseRowFails, EraseCv, EraseCvFails, EraseGoto, Withdrawn

LEMMA DeleteWithdraws ==
  ASSUME TypeOK, NEW j \in Jobs, DeleteJob(j), NEW x \in Submissions, target[x] = j
  PROVE  Withdrawn(x)'
BY NothingAssumption DEF TypeOK, DeleteJob, Withdrawn, submit

(* What a candidate was told is in stays, until it is withdrawn.             *)
LEMMA AcceptedStep ==
  ASSUME IInv, [Next]_vars, NEW x \in Submissions, Told(x)'
  PROVE  (x \in rows /\ x \in files)' \/ Withdrawn(x)'
<1>. /\ TypeOK /\ SubmissionAt(x) /\ (Withdrawn(x) => Withdrawn(x)')
     /\ Told(x) => (x \in rows /\ x \in files) \/ Withdrawn(x)
  BY WithdrawnStays DEF IInv, OrderInv, AcceptedIsKept
<1>. DEFINE Goal == (x \in rows /\ x \in files)' \/ Withdrawn(x)'
<1>. USE DEF TypeOK, SubmissionAt, Told, Goto, EraseGoto, submit, erase, download
<1>1. ASSUME NEW s \in Submissions, NEW j \in Jobs, Apply(s, j) PROVE Goal
  BY <1>1 DEF Apply
<1>2. ASSUME NEW s \in Submissions, StoreCv(s) \/ StoreCvFails(s) PROVE Goal
  BY <1>2 DEF StoreCv, StoreCvFails
<1>3. ASSUME NEW s \in Submissions, CreateRow(s) \/ CreateRowFails(s) PROVE Goal
  BY <1>3 DEF CreateRow, CreateRowFails
<1>4. ASSUME NEW s \in Submissions, DiscardCv(s) \/ DiscardCvFails(s) PROVE Goal
  BY <1>4 DEF DiscardCv, DiscardCvFails
<1>5. ASSUME NEW s \in Submissions, Mail(s) \/ StampAcknowledged(s) \/ StampFails(s)
      PROVE  Goal
  BY <1>5 DEF Mail, StampAcknowledged, StampFails
<1>6. ASSUME NEW j \in Jobs, OpenOrShut(j) \/ DeleteJob(j) PROVE Goal
  <2>1. DeleteJob(j) /\ target[x] = j => Withdrawn(x)'
    BY DeleteWithdraws
  <2>. QED
    BY <1>6, <2>1 DEF OpenOrShut, DeleteJob
<1>7. ASSUME NEW e \in Erasures, NEW s \in Submissions, Erase(e, s) PROVE Goal
  BY <1>7 DEF Erase
<1>8. ASSUME NEW e \in Erasures, EraseRow(e) \/ EraseRowFails(e) PROVE Goal
  <2>1. etarget[e] = x /\ x \in rows => Withdrawn(x)'
    BY <1>8, EraserWithdraws
  <2>. QED
    BY <1>8, <2>1 DEF EraseRow, EraseRowFails
<1>9. ASSUME NEW e \in Erasures, EraseCv(e) \/ EraseCvFails(e) PROVE Goal
  <2>1. etarget[e] = x => Withdrawn(x)'
    BY <1>9, EraserWithdraws
  <2>. QED
    BY <1>9, <2>1 DEF EraseCv, EraseCvFails
<1>10. ASSUME NEW d \in Downloads, NEW s \in Submissions, Download(d, s) PROVE Goal
  BY <1>10 DEF Download
<1>11. ASSUME NEW d \in Downloads, OpenCv(d) \/ OpenCvFails(d)
       PROVE  Goal
  BY <1>11 DEF OpenCv, OpenCvFails, Fault
<1>12. CASE Crash
  BY <1>12 DEF Crash
<1>13. CASE UNCHANGED vars
  BY <1>13 DEF vars
<1>. QED
  BY <1>1, <1>2, <1>3, <1>4, <1>5, <1>6, <1>7, <1>8, <1>9, <1>10, <1>11, <1>12, <1>13 DEF Next, SubmitStep, EraseStep

(* Only a submission that failed has a row and no file.                    *)
LEMMA WholeStep ==
  ASSUME IInv, [Next]_vars, NEW x \in Submissions, (x \in rows \ files)'
  PROVE  (pc[x] = "failed")'
<1>. TypeOK /\ SubmissionAt(x) /\ (x \in rows \ files => pc[x] = "failed")
  BY DEF IInv, OrderInv, RowHasCv
<1>. DEFINE Goal == (pc[x] = "failed")'
<1>. USE DEF TypeOK, SubmissionAt, Goto, EraseGoto, submit, erase, download
<1>1. ASSUME NEW s \in Submissions, NEW j \in Jobs, Apply(s, j) PROVE Goal
  BY <1>1 DEF Apply
<1>2. ASSUME NEW s \in Submissions, StoreCv(s) \/ StoreCvFails(s) PROVE Goal
  BY <1>2 DEF StoreCv, StoreCvFails
<1>3. ASSUME NEW s \in Submissions, CreateRow(s) \/ CreateRowFails(s) PROVE Goal
  BY <1>3 DEF CreateRow, CreateRowFails
<1>4. ASSUME NEW s \in Submissions, DiscardCv(s) \/ DiscardCvFails(s) PROVE Goal
  BY <1>4 DEF DiscardCv, DiscardCvFails
<1>5. ASSUME NEW s \in Submissions, Mail(s) \/ StampAcknowledged(s) \/ StampFails(s)
      PROVE  Goal
  BY <1>5 DEF Mail, StampAcknowledged, StampFails
<1>6. ASSUME NEW j \in Jobs, OpenOrShut(j) \/ DeleteJob(j) PROVE Goal
  BY <1>6 DEF OpenOrShut, DeleteJob
<1>7. ASSUME NEW e \in Erasures, NEW s \in Submissions, Erase(e, s) PROVE Goal
  BY <1>7 DEF Erase
<1>8. ASSUME NEW e \in Erasures, EraseRow(e) \/ EraseRowFails(e) PROVE Goal
  BY <1>8 DEF EraseRow, EraseRowFails
<1>9. ASSUME NEW e \in Erasures, EraseCv(e) \/ EraseCvFails(e) PROVE Goal
  <2>1. etarget[e] = x /\ EraseCv(e) => x \notin rows
    BY <1>9 DEF IInv, OrderInv, ErasureAt, EraseCv
  <2>. QED
    BY <1>9, <2>1 DEF EraseCv, EraseCvFails
<1>10. ASSUME NEW d \in Downloads, NEW s \in Submissions, Download(d, s) PROVE Goal
  BY <1>10 DEF Download
<1>11. ASSUME NEW d \in Downloads, OpenCv(d) \/ OpenCvFails(d)
       PROVE  Goal
  BY <1>11 DEF OpenCv, OpenCvFails, Fault
<1>12. CASE Crash
  BY <1>12 DEF Crash
<1>13. CASE UNCHANGED vars
  BY <1>13 DEF vars
<1>. QED
  BY <1>1, <1>2, <1>3, <1>4, <1>5, <1>6, <1>7, <1>8, <1>9, <1>10, <1>11, <1>12, <1>13 DEF Next, SubmitStep, EraseStep

OrphanAt(s) ==
  \/ pc[s] \in {"creating", "discarding", "torn", "left"}
  \/ Told(s) /\ advert[target[s]] = "deleted"
  \/ \E e \in Erasures : etarget[e] = s /\ epc[e] \in {"removing", "left", "failed"}

(* A file without a row has its cause.                                      *)
LEMMA OrphanStep ==
  ASSUME IInv, [Next]_vars, NEW x \in Submissions, (x \in files \ rows)'
  PROVE  OrphanAt(x)'
<1>. /\ TypeOK /\ SubmissionAt(x)
     /\ x \in files \ rows => OrphanAt(x)
  BY DEF IInv, OrderInv, OrphanIsKnown, OrphanAt
<1>. USE NothingAssumption DEF TypeOK, SubmissionAt, OrphanAt, Told, Goto, EraseGoto, submit, erase, download
<1>1. ASSUME NEW s \in Submissions, NEW j \in Jobs, Apply(s, j) PROVE OrphanAt(x)'
  BY <1>1 DEF Apply
<1>2. ASSUME NEW s \in Submissions, StoreCv(s) \/ StoreCvFails(s) PROVE OrphanAt(x)'
  BY <1>2 DEF StoreCv, StoreCvFails
<1>3. ASSUME NEW s \in Submissions, CreateRow(s) \/ CreateRowFails(s) PROVE OrphanAt(x)'
  BY <1>3 DEF CreateRow, CreateRowFails
<1>4. ASSUME NEW s \in Submissions, DiscardCv(s) \/ DiscardCvFails(s) PROVE OrphanAt(x)'
  BY <1>4 DEF DiscardCv, DiscardCvFails
<1>5. ASSUME NEW s \in Submissions, Mail(s) \/ StampAcknowledged(s) \/ StampFails(s)
      PROVE  OrphanAt(x)'
  BY <1>5 DEF Mail, StampAcknowledged, StampFails
<1>6. ASSUME NEW j \in Jobs, OpenOrShut(j) \/ DeleteJob(j) PROVE OrphanAt(x)'
  BY <1>6 DEF OpenOrShut, DeleteJob
<1>7. ASSUME NEW e \in Erasures, NEW s \in Submissions, Erase(e, s) PROVE OrphanAt(x)'
  BY <1>7 DEF Erase
<1>8. ASSUME NEW e \in Erasures, EraseRow(e) \/ EraseRowFails(e) PROVE OrphanAt(x)'
  BY <1>8 DEF EraseRow, EraseRowFails
<1>9. ASSUME NEW e \in Erasures, EraseCv(e) \/ EraseCvFails(e) PROVE OrphanAt(x)'
  <2>1. etarget[e] = x /\ EraseCv(e) => x \notin rows
    BY <1>9 DEF IInv, OrderInv, ErasureAt, EraseCv
  <2>. QED
    BY <1>9, <2>1 DEF EraseCv, EraseCvFails
<1>10. ASSUME NEW d \in Downloads, NEW s \in Submissions, Download(d, s) PROVE OrphanAt(x)'
  BY <1>10 DEF Download
<1>11. ASSUME NEW d \in Downloads, OpenCv(d) \/ OpenCvFails(d)
       PROVE  OrphanAt(x)'
  BY <1>11 DEF OpenCv, OpenCvFails, Fault
<1>12. CASE Crash
  BY <1>12 DEF Crash
<1>13. CASE UNCHANGED vars
  BY <1>13 DEF vars
<1>. QED
  BY <1>1, <1>2, <1>3, <1>4, <1>5, <1>6, <1>7, <1>8, <1>9, <1>10, <1>11, <1>12, <1>13 DEF Next, SubmitStep, EraseStep

(* Nothing brings back what was erased.                                     *)
LEMMA ErasedStep ==
  ASSUME IInv, [Next]_vars, NEW z \in Erasures, (epc[z] = "done")'
  PROVE  (etarget[z] \notin rows \cup files)'
<1>. TypeOK /\ ErasureAt(z) /\ (epc[z] = "done" => etarget[z] \notin rows \cup files)
  BY DEF IInv, OrderInv, ErasureIsComplete
<1>. USE DEF TypeOK, ErasureAt, HadRow, Goto, EraseGoto, submit, erase, download
<1>1. ASSUME NEW s \in Submissions, NEW j \in Jobs, Apply(s, j)
      PROVE  (etarget[z] \notin rows \cup files)'
  BY <1>1 DEF Apply
<1>2. ASSUME NEW s \in Submissions, StoreCv(s) \/ StoreCvFails(s)
      PROVE  (etarget[z] \notin rows \cup files)'
  BY <1>2 DEF StoreCv, StoreCvFails
<1>3. ASSUME NEW s \in Submissions, CreateRow(s) \/ CreateRowFails(s)
      PROVE  (etarget[z] \notin rows \cup files)'
  BY <1>3 DEF CreateRow, CreateRowFails
<1>4. ASSUME NEW s \in Submissions, DiscardCv(s) \/ DiscardCvFails(s)
      PROVE  (etarget[z] \notin rows \cup files)'
  BY <1>4 DEF DiscardCv, DiscardCvFails
<1>5. ASSUME NEW s \in Submissions, Mail(s) \/ StampAcknowledged(s) \/ StampFails(s)
      PROVE  (etarget[z] \notin rows \cup files)'
  BY <1>5 DEF Mail, StampAcknowledged, StampFails
<1>6. ASSUME NEW j \in Jobs, OpenOrShut(j) \/ DeleteJob(j)
      PROVE  (etarget[z] \notin rows \cup files)'
  BY <1>6 DEF OpenOrShut, DeleteJob
<1>7. ASSUME NEW e \in Erasures, NEW s \in Submissions, Erase(e, s)
      PROVE  (etarget[z] \notin rows \cup files)'
  BY <1>7 DEF Erase
<1>8. ASSUME NEW e \in Erasures, EraseRow(e) \/ EraseRowFails(e)
      PROVE  (etarget[z] \notin rows \cup files)'
  BY <1>8 DEF EraseRow, EraseRowFails
<1>9. ASSUME NEW e \in Erasures, EraseCv(e) \/ EraseCvFails(e)
      PROVE  (etarget[z] \notin rows \cup files)'
  BY <1>9 DEF EraseCv, EraseCvFails
<1>10. ASSUME NEW d \in Downloads, NEW s \in Submissions, Download(d, s)
      PROVE  (etarget[z] \notin rows \cup files)'
  BY <1>10 DEF Download
<1>11. ASSUME NEW d \in Downloads, OpenCv(d) \/ OpenCvFails(d)
       PROVE  (etarget[z] \notin rows \cup files)'
  BY <1>11 DEF OpenCv, OpenCvFails, Fault
<1>12. CASE Crash
  BY <1>12 DEF Crash
<1>13. CASE UNCHANGED vars
  BY <1>13 DEF vars
<1>. QED
  BY <1>1, <1>2, <1>3, <1>4, <1>5, <1>6, <1>7, <1>8, <1>9, <1>10, <1>11, <1>12, <1>13 DEF Next, SubmitStep, EraseStep

(* A CV that is missing was withdrawn, or its submission failed.            *)
LEMMA MissingStep ==
  ASSUME IInv, [Next]_vars, NEW z \in Downloads, (dpc[z] = "missing")'
  PROVE  (Withdrawn(dtarget[z]) \/ pc[dtarget[z]] = "failed")'
<1>. /\ TypeOK /\ DownloadAt(z)
     /\ \A x \in Submissions : Withdrawn(x) => Withdrawn(x)'
     /\ dpc[z] = "missing" => Withdrawn(dtarget[z]) \/ pc[dtarget[z]] = "failed"
     /\ \A x \in Submissions : HadRow(x) /\ x \notin files => Withdrawn(x) \/ pc[x] = "failed"
  BY WithdrawnStays DEF IInv, OrderInv, MissingIsExplained, AcceptedIsKept, Told, HadRow, SubmissionAt
<1>. DEFINE Goal == (Withdrawn(dtarget[z]) \/ pc[dtarget[z]] = "failed")'
<1>. USE DEF TypeOK, DownloadAt, HadRow, Goto, submit, erase, download
<1>1. ASSUME NEW s \in Submissions, NEW j \in Jobs, Apply(s, j) PROVE Goal
  BY <1>1 DEF Apply
<1>2. ASSUME NEW s \in Submissions, StoreCv(s) \/ StoreCvFails(s) PROVE Goal
  BY <1>2 DEF StoreCv, StoreCvFails
<1>3. ASSUME NEW s \in Submissions, CreateRow(s) \/ CreateRowFails(s) PROVE Goal
  BY <1>3 DEF CreateRow, CreateRowFails
<1>4. ASSUME NEW s \in Submissions, DiscardCv(s) \/ DiscardCvFails(s) PROVE Goal
  BY <1>4 DEF DiscardCv, DiscardCvFails
<1>5. ASSUME NEW s \in Submissions, Mail(s) \/ StampAcknowledged(s) \/ StampFails(s)
      PROVE  Goal
  BY <1>5 DEF Mail, StampAcknowledged, StampFails
<1>6. ASSUME NEW j \in Jobs, OpenOrShut(j) \/ DeleteJob(j) PROVE Goal
  BY <1>6 DEF OpenOrShut, DeleteJob
<1>7. ASSUME NEW e \in Erasures, NEW s \in Submissions, Erase(e, s) PROVE Goal
  BY <1>7 DEF Erase
<1>8. ASSUME NEW e \in Erasures, EraseRow(e) \/ EraseRowFails(e) PROVE Goal
  BY <1>8 DEF EraseRow, EraseRowFails
<1>9. ASSUME NEW e \in Erasures, EraseCv(e) \/ EraseCvFails(e) PROVE Goal
  BY <1>9 DEF EraseCv, EraseCvFails
<1>10. ASSUME NEW d \in Downloads, NEW s \in Submissions, Download(d, s) PROVE Goal
  BY <1>10 DEF Download
<1>11. ASSUME NEW d \in Downloads, OpenCv(d) \/ OpenCvFails(d)
       PROVE  Goal
  BY <1>11 DEF OpenCv, OpenCvFails, Fault
<1>12. CASE Crash
  BY <1>12 DEF Crash
<1>13. CASE UNCHANGED vars
  BY <1>13 DEF vars
<1>. QED
  BY <1>1, <1>2, <1>3, <1>4, <1>5, <1>6, <1>7, <1>8, <1>9, <1>10, <1>11, <1>12, <1>13 DEF Next, SubmitStep, EraseStep

----------------------------------------------------------------------------
LEMMA InitIInv == Init => IInv
BY DEF Init, IInv, TypeOK, OrderInv, SubmissionAt, ErasureAt, DownloadAt, AcceptedIsKept, Told,
       RowHasCv, OrphanIsKnown, ErasureIsComplete, MissingIsExplained

LEMMA Inductive == IInv /\ [Next]_vars => IInv'
<1>. SUFFICES ASSUME IInv, [Next]_vars PROVE IInv'
  OBVIOUS
<1>. TypeOK /\ OrderInv
  BY DEF IInv
<1>1. TypeOK'
  BY TypeStep
<1>2. OrderInv'
  <2>1. \A x \in Submissions : SubmissionAt(x)'
    BY SubmissionStep
  <2>2. \A z \in Erasures : ErasureAt(z)'
    BY ErasureStep
  <2>3. \A z \in Downloads : DownloadAt(z)'
    BY DownloadStep
  <2>. QED
    BY <2>1, <2>2, <2>3 DEF OrderInv
<1>3. AcceptedIsKept'
  <2>. SUFFICES ASSUME NEW x \in Submissions, Told(x)'
                PROVE  (x \in rows /\ x \in files)' \/ Withdrawn(x)'
    BY DEF AcceptedIsKept
  <2>. QED
    BY AcceptedStep
<1>4. RowHasCv'
  <2>. SUFFICES ASSUME NEW x \in (rows \ files)' PROVE (pc[x] = "failed")'
    BY DEF RowHasCv
  <2>. x \in Submissions
    BY <1>1 DEF TypeOK
  <2>. QED
    BY WholeStep
<1>5. OrphanIsKnown'
  <2>. SUFFICES ASSUME NEW x \in (files \ rows)'
                PROVE  OrphanAt(x)'
    BY DEF OrphanIsKnown, OrphanAt
  <2>. x \in Submissions
    BY <1>1 DEF TypeOK
  <2>. QED
    BY OrphanStep
<1>6. ErasureIsComplete'
  <2>. SUFFICES ASSUME NEW z \in Erasures, (epc[z] = "done")'
                PROVE  (etarget[z] \notin rows \cup files)'
    BY DEF ErasureIsComplete
  <2>. QED
    BY ErasedStep
<1>7. MissingIsExplained'
  <2>. SUFFICES ASSUME NEW z \in Downloads, (dpc[z] = "missing")'
                PROVE  (Withdrawn(dtarget[z]) \/ pc[dtarget[z]] = "failed")'
    BY DEF MissingIsExplained
  <2>. QED
    BY MissingStep
<1>. QED
  BY <1>1, <1>2, <1>3, <1>4, <1>5, <1>6, <1>7 DEF IInv

LEMMA Invariance == Spec => []IInv
BY InitIInv, Inductive, PTL DEF Spec

(* The state of the handlers, the rows and the files has its types in      *)
(* every reachable state.                                                  *)
THEOREM TypeCorrect == Spec => []TypeOK
<1>. IInv => TypeOK
  BY DEF IInv
<1>. QED
  BY Invariance, PTL

(* Whatever fails and whoever erases meanwhile, an application that the    *)
(* candidate was told is in (application.routes.ts:149-193) keeps its row  *)
(* and its CV until it is withdrawn.                                       *)
THEOREM Accepted == Spec => []AcceptedIsKept
<1>. IInv => AcceptedIsKept
  BY DEF IInv
<1>. QED
  BY Invariance, PTL

(* A row without its file is only that of a submission that was answered   *)
(* as failed (application.routes.ts:181-186).                              *)
THEOREM WholeRows == Spec => []RowHasCv
<1>. IInv => RowHasCv
  BY DEF IInv
<1>. QED
  BY Invariance, PTL

(* A file without a row is in hand; or a call for it failed or a crash came*)
(* in between; or its advert was deleted after the application was in.     *)
(* What the create of a row refuses or fails at is taken off the volume    *)
(* again (application.routes.ts:182-186).                                  *)
THEOREM Orphans == Spec => []OrphanIsKnown
<1>. IInv => OrphanIsKnown
  BY DEF IInv
<1>. QED
  BY Invariance, PTL

(* Nothing brings back the row or the file of an application whose erasure *)
(* went through (admin.routes.ts:1436-1458).                               *)
THEOREM Erased == Spec => []ErasureIsComplete
<1>. IInv => ErasureIsComplete
  BY DEF IInv
<1>. QED
  BY Invariance, PTL

(* A download that finds no file (admin.routes.ts:1304-1329) is of an      *)
(* application that was withdrawn, or whose submission failed.             *)
THEOREM Missing == Spec => []MissingIsExplained
<1>. IInv => MissingIsExplained
  BY DEF IInv
<1>. QED
  BY Invariance, PTL

----------------------------------------------------------------------------
(* The stamp comes after the mail, and goes with the row.                  *)
MailInv ==
  /\ AcknowledgedWasMailed
  /\ \A s \in Submissions : pc[s] = "stamping" => s \in mailed

LEMMA MailStep == TypeOK /\ MailInv /\ [Next]_vars => MailInv'
<1>. SUFFICES ASSUME TypeOK, MailInv, [Next]_vars PROVE MailInv'
  OBVIOUS
<1>. USE DEF TypeOK, MailInv, AcknowledgedWasMailed, Goto, EraseGoto, submit, erase, download
<1>1. ASSUME NEW s \in Submissions, NEW j \in Jobs, Apply(s, j) PROVE MailInv'
  BY <1>1 DEF Apply
<1>2. ASSUME NEW s \in Submissions, StoreCv(s) \/ StoreCvFails(s) PROVE MailInv'
  BY <1>2 DEF StoreCv, StoreCvFails
<1>3. ASSUME NEW s \in Submissions, CreateRow(s) \/ CreateRowFails(s) PROVE MailInv'
  BY <1>3 DEF CreateRow, CreateRowFails
<1>4. ASSUME NEW s \in Submissions, DiscardCv(s) \/ DiscardCvFails(s) PROVE MailInv'
  BY <1>4 DEF DiscardCv, DiscardCvFails
<1>5. ASSUME NEW s \in Submissions, Mail(s) PROVE MailInv'
  BY <1>5 DEF Mail
<1>6. ASSUME NEW s \in Submissions, StampAcknowledged(s) \/ StampFails(s) PROVE MailInv'
  BY <1>6 DEF StampAcknowledged, StampFails
<1>7. ASSUME NEW j \in Jobs, OpenOrShut(j) \/ DeleteJob(j) PROVE MailInv'
  BY <1>7 DEF OpenOrShut, DeleteJob
<1>8. ASSUME NEW e \in Erasures, NEW s \in Submissions, Erase(e, s) PROVE MailInv'
  BY <1>8 DEF Erase
<1>9. ASSUME NEW e \in Erasures, EraseStep(e) PROVE MailInv'
  BY <1>9 DEF EraseStep, EraseRow, EraseRowFails, EraseCv, EraseCvFails
<1>10. ASSUME NEW d \in Downloads, NEW s \in Submissions, Download(d, s) PROVE MailInv'
  BY <1>10 DEF Download
<1>11. ASSUME NEW d \in Downloads, OpenCv(d) \/ OpenCvFails(d) PROVE MailInv'
  BY <1>11 DEF OpenCv, OpenCvFails, Fault
<1>12. CASE Crash
  BY <1>12 DEF Crash
<1>13. CASE UNCHANGED vars
  BY <1>13 DEF vars
<1>. QED
  BY <1>1, <1>2, <1>3, <1>4, <1>5, <1>6, <1>7, <1>8, <1>9, <1>10, <1>11, <1>12, <1>13
  DEF Next, SubmitStep

(* A row is stamped only after the mail to the candidate went out          *)
(* (application.routes.ts:232-250).                                        *)
THEOREM Acknowledged == Spec => []AcknowledgedWasMailed
<1>1. Init => MailInv
  BY DEF Init, MailInv, AcknowledgedWasMailed
<1>2. MailInv => AcknowledgedWasMailed
  BY DEF MailInv
<1>. QED
  BY <1>1, <1>2, MailStep, TypeCorrect, PTL DEF Spec
=============================================================================
