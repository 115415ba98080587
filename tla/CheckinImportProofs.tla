------------------------ MODULE CheckinImportProofs ------------------------
(* Proofs that the importer's shared memory never suppresses a row the     *)
(* table lacks, that an import reporting success left its day complete,    *)
(* and that duplicates need two racing imports, for any calendar, any      *)
(* punches and any number of imports.                                      *)
EXTENDS CheckinImport, TLAPS

---------------------------------------------------------------------------
(* Type correctness.                                                       *)

LEMMA TypeInit == Init => TypeOK
<1> SUFFICES ASSUME Init PROVE TypeOK
  OBVIOUS
<1>1. NoJob \in Job
  BY DEF NoJob, Job, Stages, Answers, Logs
<1>2. jobs \in [JobIds -> Job]
  BY <1>1 DEF Init
<1>3. 0 \in 0 .. MaxJobs
  BY ConstantsAssumption DEF ConstantsAssumption
<1>4. table \in [Punches -> Nat]
  BY DEF Init
<1>5. day \in Nat \ {0} /\ yesterday \in Nat
  BY DEF Init
<1>6. uniqueKey \in BOOLEAN
  BY ConstantsAssumption DEF ConstantsAssumption, Init
<1> QED
  BY <1>2, <1>3, <1>4, <1>5, <1>6, Zenon DEF Init, TypeOK

\* A new import is well typed (NewJob).
LEMMA NewJobType ==
  ASSUME TypeOK, NEW d \in Nat, NewJob(d)
  PROVE  /\ jobs' \in [JobIds -> Job]
         /\ started' \in 0 .. MaxJobs
         /\ started + 1 \in JobIds
         /\ jobs'[started + 1] = [NoJob EXCEPT !.stage = "uids", !.asked = d]
         /\ \A j \in JobIds : j # started + 1 => jobs'[j] = jobs[j]
<1>1. started + 1 \in JobIds /\ started' \in 0 .. MaxJobs
  BY ConstantsAssumption DEF ConstantsAssumption, TypeOK, NewJob, JobIds
<1>2. [NoJob EXCEPT !.stage = "uids", !.asked = d] \in Job
  BY DEF NoJob, Job, Stages, Answers, Logs
<1> QED
  BY <1>1, <1>2 DEF TypeOK, NewJob

\* One callback of one import keeps the state well typed (Step).
LEMMA StepType == ASSUME TypeOK, NEW j \in JobIds, Step(j) PROVE TypeOK'
<1> USE DEF TypeOK
<1>1. jobs[j] \in Job
  OBVIOUS
<1>2. CASE GotUserIds(j)
  BY <1>1, <1>2 DEF GotUserIds, Job, Stages
<1>3. CASE GotAttendance(j)
  BY <1>1, <1>3 DEF GotAttendance, Job, Stages, Attendance
<1>4. CASE DbSelect(j)
  BY <1>1, <1>4 DEF DbSelect, Job, Stages, Stored
<1>5. CASE CheckMechanism(j)
  <2>1. recordTidy' \subseteq Punches
    BY <1>1, <1>5 DEF CheckMechanism, Job
  <2>2. jobs[j].rows \ recordTidy' \in SUBSET Punches
    BY <1>1 DEF Job
  <2> QED
    BY <1>1, <1>5, <2>1, <2>2 DEF CheckMechanism, Job, Stages
<1>6. CASE DbInsert(j)
  <2>1. table' \in [Punches -> Nat]
    BY <1>6 DEF DbInsert
  <2> QED
    BY <1>1, <1>6, <2>1 DEF DbInsert, Job, Stages, Answers
<1>7. CASE DbInsertFails(j)
  BY <1>1, <1>7 DEF DbInsertFails, Answer, Job, Stages, Answers
<1>8. CASE AddDetail(j)
  BY <1>1, <1>8 DEF AddDetail, Job, Stages, Logs
<1> QED
  BY <1>2, <1>3, <1>4, <1>5, <1>6, <1>7, <1>8 DEF Step

LEMMA TypeNext == TypeOK /\ [Next]_vars => TypeOK'
<1> SUFFICES ASSUME TypeOK, [Next]_vars PROVE TypeOK'
  OBVIOUS
<1>0. day - 1 \in Nat
  BY DEF TypeOK
<1>1. CASE Clock
  <2>1. day' \in Nat \ {0} /\ phase' \in {"early", "six", "late"}
    BY <1>1 DEF Clock, TypeOK
  <2>2. ticked' \in BOOLEAN
    BY <1>1, Zenon DEF Clock, TypeOK
  <2> QED
    BY <1>1, <2>1, <2>2 DEF Clock, TypeOK
<1>2. CASE Start
  BY <1>0, <1>2 DEF Start, TypeOK
<1>3. CASE Main
  <2>1. NewJob(yesterday) /\ yesterday \in Nat
    BY <1>3 DEF Main, TypeOK
  <2>2. ticked' \in BOOLEAN
    BY <1>3 DEF Main, TypeOK
  <2> QED
    BY <1>3, <2>1, <2>2, NewJobType DEF Main, TypeOK
<1>4. CASE Runs
  <2>1. NewJob(day - 1)
    BY <1>4 DEF Runs
  <2> QED
    BY <1>0, <1>4, <2>1, NewJobType DEF Runs, TypeOK
<1>5. CASE Crash
  <2>1. 1 .. started \subseteq JobIds
    BY ConstantsAssumption DEF ConstantsAssumption, TypeOK, JobIds
  <2> QED
    BY <1>5, <2>1 DEF Crash, TypeOK
<1>6. CASE \E j \in JobIds : Step(j)
  BY <1>6, StepType
<1>7. CASE UNCHANGED vars
  BY <1>7 DEF vars, TypeOK
<1> QED
  BY <1>1, <1>2, <1>3, <1>4, <1>5, <1>6, <1>7 DEF Next

\* The state stays well typed (all of the importer).
THEOREM TypeCorrect == Spec => []TypeOK
BY TypeInit, TypeNext, PTL DEF Spec

---------------------------------------------------------------------------
(* The inductive invariant.  The three properties are about imports that   *)
(* have finished; it says what holds of them on the way: what an import saw *)
(* stays in the table, what it saw holds every INSERT before its SELECT,   *)
(* and its batch is the rows it did not see or remember.                   *)

Sent(j) == jobs[j].stage \in {"insert", "ack", "done"}

FreshJobs == \A j \in JobIds : j > started => jobs[j].stage = "none"
SeenStored == \A j \in JobIds : jobs[j].seen \subseteq Stored
SeenAfter == \A j \in JobIds : \A i \in jobs[j].after :
               Applied(i) /\ jobs[i].batch \subseteq jobs[j].seen
BatchIsMissing == \A j \in JobIds : Sent(j) =>
                    /\ jobs[j].batch \cap jobs[j].seen = {}
                    /\ jobs[j].rows \ jobs[j].batch \subseteq Stored
AppliedStored == \A j \in JobIds : Applied(j) => jobs[j].batch \subseteq Stored
LoggedApplied == \A j \in JobIds : jobs[j].log = "inserted" => Applied(j)

ImportInv == /\ TypeOK /\ CacheWithinTable
             /\ FreshJobs /\ SeenStored /\ SeenAfter
             /\ BatchIsMissing /\ AppliedStored /\ LoggedApplied


LEMMA InvInit == Init => ImportInv
<1> SUFFICES ASSUME Init PROVE ImportInv
  OBVIOUS
<1>1. TypeOK
  BY TypeInit
<1>2. \A j \in JobIds : jobs[j] = NoJob
  BY DEF Init
<1> QED
  BY <1>1, <1>2 DEF Init, NoJob, ImportInv, CacheWithinTable, FreshJobs,
     SeenStored, SeenAfter, BatchIsMissing, AppliedStored, LoggedApplied,
     Sent, Applied

\* Adding an import disturbs no other import (NewJob).
LEMMA InvNewJob ==
  ASSUME ImportInv, TypeOK', NEW d \in Nat, NewJob(d),
         UNCHANGED <<recordTidy, table>>
  PROVE  ImportInv'
<1>0. PICK n \in JobIds : n = started + 1
  BY NewJobType DEF ImportInv
<1>1. /\ jobs' \in [JobIds -> Job]
      /\ jobs'[n] = [NoJob EXCEPT !.stage = "uids", !.asked = d]
      /\ \A j \in JobIds : j # n => jobs'[j] = jobs[j]
  BY <1>0, NewJobType DEF ImportInv
<1>2. /\ jobs'[n].stage = "uids" /\ jobs'[n].seen = {} /\ jobs'[n].after = {}
      /\ jobs'[n].log = "none"
  BY <1>1 DEF NoJob
<1>3. jobs[n].stage = "none"
  BY <1>0 DEF ImportInv, FreshJobs, TypeOK
<1>4. Stored' = Stored
  BY DEF Stored
<1>5. \A j \in JobIds : j # n => /\ Applied(j)' <=> Applied(j)
                                 /\ Sent(j)' <=> Sent(j)
  BY <1>1 DEF Applied, Sent
<1>6. ~Applied(n) /\ ~Applied(n)' /\ ~Sent(n)'
  BY <1>2, <1>3 DEF Applied, Sent
<1>7. CacheWithinTable'
  BY <1>4 DEF ImportInv, CacheWithinTable
<1>8. FreshJobs'
  BY <1>0, <1>1 DEF ImportInv, FreshJobs, NewJob, JobIds, TypeOK
<1>9. SeenStored'
  BY <1>1, <1>2, <1>4 DEF ImportInv, SeenStored
<1>10. SeenAfter'
  <2> SUFFICES ASSUME NEW j \in JobIds, NEW i \in jobs'[j].after
               PROVE  Applied(i)' /\ jobs'[i].batch \subseteq jobs'[j].seen
    BY DEF SeenAfter
  <2>1. j # n /\ jobs'[j] = jobs[j] /\ i \in jobs[j].after
    BY <1>1, <1>2
  <2>2. Applied(i) /\ jobs[i].batch \subseteq jobs[j].seen /\ i \in JobIds
    BY <2>1 DEF ImportInv, SeenAfter, TypeOK, Job
  <2>3. i # n
    BY <2>2, <1>6
  <2> QED
    BY <2>1, <2>2, <2>3, <1>1, <1>5
<1>11. BatchIsMissing'
  BY <1>1, <1>4, <1>5, <1>6 DEF ImportInv, BatchIsMissing
<1>12. AppliedStored'
  BY <1>1, <1>4, <1>5, <1>6 DEF ImportInv, AppliedStored
<1>13. LoggedApplied'
  BY <1>1, <1>2, <1>5 DEF ImportInv, LoggedApplied
<1> QED
  BY <1>7, <1>8, <1>9, <1>10, <1>11, <1>12, <1>13 DEF ImportInv

\* A step of one import (Step).
LEMMA InvStep ==
  ASSUME ImportInv, TypeOK', NEW j \in JobIds, Step(j)
  PROVE  ImportInv'
<1> USE DEF ImportInv
<1>1. jobs[j] \in Job /\ jobs \in [JobIds -> Job]
  BY DEF TypeOK
<1>2. /\ started' = started /\ jobs[j].stage # "none"
      /\ \A i \in JobIds : i # j => jobs'[i] = jobs[i]
      /\ jobs'[j].stage # "none"
  BY <1>1 DEF Step, Alive, GotUserIds, GotAttendance, DbSelect, CheckMechanism,
     DbInsert, DbInsertFails, Answer, AddDetail, TypeOK, Job
<1>3. FreshJobs'
  BY <1>2 DEF FreshJobs
<1>4. Stored \subseteq Stored'
  <2>1. \A p \in Punches : table[p] > 0 => table'[p] > 0
    BY DEF Step, GotUserIds, GotAttendance, DbSelect, CheckMechanism,
       DbInsert, DbInsertFails, Answer, AddDetail, TypeOK
  <2> QED
    BY <2>1 DEF Stored
<1>5. \A i \in JobIds : Applied(i) => /\ Applied(i)'
                                      /\ jobs'[i].batch = jobs[i].batch
  BY <1>1, <1>2 DEF Applied, Step, Alive, GotUserIds, GotAttendance, DbSelect,
     CheckMechanism, DbInsert, DbInsertFails, Answer, AddDetail, TypeOK, Job
<1>6. CacheWithinTable' /\ SeenStored'
  <2>1. recordTidy' \subseteq recordTidy \cup jobs[j].seen
    BY DEF Step, GotUserIds, GotAttendance, DbSelect, CheckMechanism,
       DbInsert, DbInsertFails, Answer, AddDetail
  <2>2. CacheWithinTable'
    BY <1>4, <2>1 DEF CacheWithinTable, SeenStored
  <2>3. jobs'[j].seen \subseteq jobs[j].seen \cup Stored
    BY <1>1 DEF Step, GotUserIds, GotAttendance, DbSelect, CheckMechanism,
       DbInsert, DbInsertFails, Answer, AddDetail, TypeOK, Job
  <2>4. SeenStored'
    BY <1>2, <1>4, <2>3 DEF SeenStored
  <2> QED
    BY <2>2, <2>4
<1>7. SeenAfter'
  <2>1. CASE DbSelect(j)
    <3> DEFINE applied == {i \in JobIds : Applied(i)}
    <3>0. jobs' = [jobs EXCEPT ![j].stage = "seen", ![j].seen = Stored,
                               ![j].after = applied]
      BY <2>1 DEF DbSelect
    <3> HIDE DEF applied
    <3>1. jobs'[j].seen = Stored /\ jobs'[j].after = applied
      BY <1>1, <3>0 DEF Job
    <3> USE DEF applied
    <3>2. \A i \in JobIds : Applied(i) => jobs[i].batch \subseteq Stored
      BY DEF AppliedStored
    <3> QED
      BY <1>1, <1>2, <1>5, <3>1, <3>2 DEF SeenAfter, Job
  <2>2. CASE ~DbSelect(j)
    <3>1. jobs'[j].seen = jobs[j].seen /\ jobs'[j].after = jobs[j].after
      BY <1>1, <2>2 DEF Step, GotUserIds, GotAttendance, CheckMechanism,
         DbInsert, DbInsertFails, Answer, AddDetail, TypeOK, Job
    <3> QED
      BY <1>1, <1>2, <1>5, <3>1 DEF SeenAfter, Job
  <2> QED
    BY <2>1, <2>2
<1>8. BatchIsMissing'
  <2>1. CASE CheckMechanism(j)
    <3>1. /\ jobs'[j].batch = jobs[j].rows \ (recordTidy \cup jobs[j].seen)
          /\ jobs'[j].rows = jobs[j].rows /\ jobs'[j].seen = jobs[j].seen
      BY <1>1, <2>1 DEF CheckMechanism, TypeOK, Job
    <3>2. recordTidy \cup jobs[j].seen \subseteq Stored'
      BY <1>4 DEF CacheWithinTable, SeenStored
    <3> QED
      BY <1>2, <1>4, <3>1, <3>2 DEF BatchIsMissing, Sent
  <2>2. CASE ~CheckMechanism(j)
    <3>1. Sent(j)' => /\ Sent(j)
                      /\ jobs'[j].batch = jobs[j].batch
                      /\ jobs'[j].rows = jobs[j].rows
                      /\ jobs'[j].seen = jobs[j].seen
      BY <1>1, <2>2 DEF Sent, Step, Alive, GotUserIds, GotAttendance, DbSelect,
         DbInsert, DbInsertFails, Answer, AddDetail, TypeOK, Job
    <3> QED
      BY <1>2, <1>4, <3>1 DEF BatchIsMissing, Sent
  <2> QED
    BY <2>1, <2>2
<1>9. AppliedStored'
  <2>1. CASE DbInsert(j)
    <3>1. jobs'[j].batch = jobs[j].batch
      BY <1>1, <2>1 DEF DbInsert, TypeOK, Job
    <3>2. \A p \in jobs[j].batch : p \in Punches /\ table'[p] > 0
      BY <1>1, <2>1 DEF DbInsert, TypeOK, Job
    <3> QED
      BY <1>2, <1>4, <3>1, <3>2 DEF AppliedStored, Applied, Stored
  <2>2. CASE ~DbInsert(j)
    <3>1. Applied(j)' => Applied(j)
      BY <1>1, <2>2 DEF Applied, Step, Alive, GotUserIds, GotAttendance,
         DbSelect, CheckMechanism, DbInsertFails, Answer, AddDetail, TypeOK, Job
    <3> QED
      BY <1>2, <1>4, <1>5, <3>1 DEF AppliedStored, Applied
  <2> QED
    BY <2>1, <2>2
<1>10. LoggedApplied'
  <2>1. jobs'[j].log = "inserted" => Applied(j) \/ jobs[j].log = "inserted"
    BY <1>1 DEF Step, Alive, Applied, GotUserIds, GotAttendance, DbSelect,
       CheckMechanism, DbInsert, DbInsertFails, Answer, AddDetail, TypeOK, Job
  <2> QED
    BY <1>2, <1>5, <2>1 DEF LoggedApplied
<1> QED
  BY <1>3, <1>6, <1>7, <1>8, <1>9, <1>10

LEMMA InvNext == ImportInv /\ [Next]_vars => ImportInv'
<1> SUFFICES ASSUME ImportInv, [Next]_vars PROVE ImportInv'
  OBVIOUS
<1>1. TypeOK /\ TypeOK' /\ day - 1 \in Nat /\ yesterday \in Nat
  BY TypeNext DEF ImportInv, TypeOK
<1>2. CASE \E d \in Nat : NewJob(d) /\ UNCHANGED <<recordTidy, table>>
  BY <1>1, <1>2, InvNewJob
<1>3. CASE \E j \in JobIds : Step(j)
  BY <1>1, <1>3, InvStep
<1>4. CASE UNCHANGED <<table, jobs, started>> /\ recordTidy' \in {recordTidy, {}}
  BY <1>1, <1>4 DEF ImportInv, CacheWithinTable, FreshJobs, SeenStored,
     SeenAfter, BatchIsMissing, AppliedStored, LoggedApplied, Sent, Applied,
     Stored
<1> QED
  BY <1>1, <1>2, <1>3, <1>4 DEF Next, Clock, Start, Main, Runs, Crash, vars

\* What imports saw, remember and sent stays true of the table (runs, addDetail).
THEOREM ImportInvariant == Spec => []ImportInv
BY InvInit, InvNext, PTL DEF Spec

---------------------------------------------------------------------------

\* What recordTidy holds, and so what checkMechanism may suppress, is in the
\* table: imports of any days, overlapping or not, crashed or not.
THEOREM CacheIsSound == Spec => []CacheWithinTable
<1>1. ImportInv => CacheWithinTable
  BY DEF ImportInv
<1> QED
  BY <1>1, ImportInvariant, PTL

\* An import that logs a number of rows (addDetail), or had none to insert,
\* leaves its whole download in the table.
THEOREM ReportsAreTrue == Spec => []ReportedRowsStored
<1>1. ImportInv => ReportedRowsStored
  BY DEF ImportInv, ReportedRowsStored, BatchIsMissing, AppliedStored,
     LoggedApplied, Sent
<1> QED
  BY <1>1, ImportInvariant, PTL

\* Imports that do not race never store a punch twice (checkMechanism).
THEOREM DuplicatesOnlyByRace == Spec => []DuplicatesNeedARace
<1>1. ImportInv => DuplicatesNeedARace
  BY DEF ImportInv, DuplicatesNeedARace, SeenAfter, BatchIsMissing, Sent,
     Applied
<1> QED
  BY <1>1, ImportInvariant, PTL

---------------------------------------------------------------------------
(* A race that is lost loses nothing.  The downloads of one day are the    *)
(* same and an INSERT is applied as a whole, so a day is in the table whole *)
(* or not at all: an INSERT that meets one of its rows there meets all.    *)

Downloaded(j) == jobs[j].stage \in {"select", "seen", "insert", "ack", "done"}

RowsOfDay == \A j \in JobIds : Downloaded(j) => jobs[j].rows = Attendance(jobs[j].day)
BatchInRows == \A j \in JobIds : Sent(j) => jobs[j].batch \subseteq jobs[j].rows
DayStoredWhole ==
  \A p, q \in Punches : DayOf[p] = DayOf[q] /\ p \in Stored => q \in Stored
RejectedSent == \A j \in JobIds : jobs[j].answer = "rejected" => Sent(j)

RaceInv == /\ RowsOfDay /\ BatchInRows /\ DayStoredWhole
           /\ RejectedSent /\ LostRaceLosesNothing

LEMMA RaceInit == Init => RaceInv
BY DEF Init, NoJob, RaceInv, RowsOfDay, BatchInRows, DayStoredWhole,
   RejectedSent, LostRaceLosesNothing, Downloaded, Sent, Stored

\* A step of one import (Step).
LEMMA RaceStep ==
  ASSUME ImportInv, RaceInv, TypeOK', NEW j \in JobIds, Step(j)
  PROVE  RaceInv'
<1>1. jobs[j] \in Job /\ jobs \in [JobIds -> Job] /\ TypeOK
  BY DEF ImportInv, TypeOK
<1>2. \A i \in JobIds : i # j => jobs'[i] = jobs[i]
  BY <1>1 DEF Step, GotUserIds, GotAttendance, DbSelect, CheckMechanism,
     DbInsert, DbInsertFails, Answer, AddDetail
<1>3. Stored \subseteq Stored'
  <2>1. \A p \in Punches : table[p] > 0 => table'[p] > 0
    BY <1>1 DEF Step, GotUserIds, GotAttendance, DbSelect, CheckMechanism,
       DbInsert, DbInsertFails, Answer, AddDetail, TypeOK
  <2> QED
    BY <2>1 DEF Stored
<1>4. RowsOfDay'
  <2>1. CASE GotAttendance(j)
    <3>1. jobs'[j].rows = Attendance(jobs[j].day) /\ jobs'[j].day = jobs[j].day
      BY <1>1, <2>1 DEF GotAttendance, Job
    <3>2. \A d : Attendance(d)' = Attendance(d)
      BY DEF Attendance
    <3> QED
      BY <1>2, <3>1, <3>2 DEF RaceInv, RowsOfDay, Downloaded
  <2>2. CASE ~GotAttendance(j)
    <3>1. Downloaded(j)' => /\ Downloaded(j)
                            /\ jobs'[j].rows = jobs[j].rows
                            /\ jobs'[j].day = jobs[j].day
      BY <1>1, <2>2 DEF Downloaded, Step, Alive, GotUserIds, DbSelect,
         CheckMechanism, DbInsert, DbInsertFails, Answer, AddDetail, Job
    <3>2. \A d : Attendance(d)' = Attendance(d)
      BY DEF Attendance
    <3> QED
      BY <1>2, <3>1, <3>2 DEF RaceInv, RowsOfDay, Downloaded
  <2> QED
    BY <2>1, <2>2
<1>5. BatchInRows'
  <2>1. Sent(j)' => jobs'[j].batch \subseteq jobs'[j].rows
    BY <1>1 DEF RaceInv, BatchInRows, Sent, Step, Alive, GotUserIds, GotAttendance,
       DbSelect, CheckMechanism, DbInsert, DbInsertFails, Answer, AddDetail, Job
  <2> QED
    BY <1>2, <2>1 DEF RaceInv, BatchInRows, Sent
<1>6. DayStoredWhole'
  <2>1. CASE DbInsert(j)
    <3>1. jobs[j].rows = Attendance(jobs[j].day) /\ jobs[j].batch \subseteq jobs[j].rows
          /\ jobs[j].rows \ jobs[j].batch \subseteq Stored
      BY <2>1 DEF DbInsert, RaceInv, RowsOfDay, BatchInRows, Downloaded, Sent,
         ImportInv, BatchIsMissing
    <3>2. \A p \in Punches : p \in Stored' <=> p \in Stored \/ p \in jobs[j].batch
      BY <1>1, <2>1 DEF DbInsert, Stored, TypeOK
    <3> QED
      BY <3>1, <3>2 DEF RaceInv, DayStoredWhole, Attendance
  <2>2. CASE ~DbInsert(j)
    <3>1. table' = table
      BY <2>2 DEF Step, GotUserIds, GotAttendance, DbSelect, CheckMechanism,
         DbInsertFails, Answer, AddDetail
    <3> QED
      BY <3>1 DEF RaceInv, DayStoredWhole, Stored
  <2> QED
    BY <2>1, <2>2
<1>7. LostRaceLosesNothing'
  <2> SUFFICES ASSUME jobs'[j].answer = "rejected"
               PROVE  jobs'[j].rows \subseteq Stored'
    BY <1>2, <1>3 DEF RaceInv, LostRaceLosesNothing
  <2>1. CASE DbInsertFails(j) /\ Rejected(j)
    <3>1. jobs[j].rows = Attendance(jobs[j].day) /\ jobs[j].batch \subseteq jobs[j].rows
          /\ jobs[j].rows \ jobs[j].batch \subseteq Stored
      BY <2>1 DEF DbInsertFails, RaceInv, RowsOfDay, BatchInRows, Downloaded, Sent,
         ImportInv, BatchIsMissing
    <3>2. jobs'[j].rows = jobs[j].rows
      BY <1>1, <2>1 DEF DbInsertFails, Answer, Job
    <3>3. CASE jobs[j].batch = {}
      BY <1>3, <3>1, <3>2, <3>3
    <3>4. CASE jobs[j].batch \cap Stored # {}
      BY <1>3, <3>1, <3>2, <3>4 DEF RaceInv, DayStoredWhole, Attendance
    <3> QED
      BY <2>1, <3>3, <3>4 DEF Rejected
  <2>2. CASE ~(DbInsertFails(j) /\ Rejected(j))
    <3>1. jobs[j].answer = "rejected" /\ Sent(j)
      BY <1>1, <2>2 DEF RaceInv, RejectedSent, Step, Alive, GotUserIds,
         GotAttendance, DbSelect, CheckMechanism, DbInsert, DbInsertFails,
         Answer, AddDetail, Job
    <3>2. jobs'[j].rows = jobs[j].rows
      BY <1>1, <2>2, <3>1 DEF Sent, Step, Alive, GotUserIds, GotAttendance,
         DbSelect, CheckMechanism, DbInsert, DbInsertFails, Answer, AddDetail,
         Job
    <3> QED
      BY <1>3, <3>1, <3>2 DEF RaceInv, LostRaceLosesNothing
  <2> QED
    BY <2>1, <2>2
<1>8. RejectedSent'
  <2>1. jobs'[j].answer = "rejected" => Sent(j)'
    BY <1>1 DEF RaceInv, RejectedSent, Sent, Step, Alive, GotUserIds,
       GotAttendance, DbSelect, CheckMechanism, DbInsert, DbInsertFails, Answer,
       AddDetail, Job
  <2> QED
    BY <1>2, <2>1 DEF RaceInv, RejectedSent, Sent
<1> QED
  BY <1>4, <1>5, <1>6, <1>7, <1>8 DEF RaceInv

LEMMA RaceNext == ImportInv /\ RaceInv /\ [Next]_vars => RaceInv'
<1> SUFFICES ASSUME ImportInv, RaceInv, [Next]_vars PROVE RaceInv'
  OBVIOUS
<1>1. TypeOK /\ TypeOK' /\ day - 1 \in Nat /\ yesterday \in Nat
  BY TypeNext DEF ImportInv, TypeOK
<1>2. CASE \E d \in Nat : NewJob(d) /\ UNCHANGED table
  <2>1. PICK d \in Nat : NewJob(d) /\ UNCHANGED table
    BY <1>2
  <2>2. PICK n \in JobIds : n = started + 1
    BY <1>1, <2>1, NewJobType
  <2>3. /\ jobs'[n] = [NoJob EXCEPT !.stage = "uids", !.asked = d]
        /\ \A j \in JobIds : j # n => jobs'[j] = jobs[j]
    BY <1>1, <2>1, <2>2, NewJobType
  <2>4. jobs'[n].stage = "uids" /\ jobs'[n].answer = "none"
    BY <2>3 DEF NoJob
  <2>5. \A j \in JobIds : Downloaded(j)' \/ Sent(j)' => jobs'[j] = jobs[j]
    BY <2>3, <2>4 DEF Downloaded, Sent
  <2>6. Stored' = Stored
    BY <2>1 DEF Stored
  <2>7. \A j \in JobIds : (Downloaded(j)' => Downloaded(j)) /\ (Sent(j)' => Sent(j))
    BY <2>5 DEF Downloaded, Sent
  <2>8. RowsOfDay' /\ BatchInRows'
    BY <2>5, <2>7 DEF RaceInv, RowsOfDay, BatchInRows, Attendance
  <2>9. DayStoredWhole'
    BY <2>6 DEF RaceInv, DayStoredWhole
  <2>10. LostRaceLosesNothing'
    BY <2>3, <2>4, <2>6 DEF RaceInv, LostRaceLosesNothing
  <2>11. RejectedSent'
    BY <2>3, <2>4 DEF RaceInv, RejectedSent, Sent
  <2> QED
    BY <2>8, <2>9, <2>10, <2>11 DEF RaceInv
<1>3. CASE \E j \in JobIds : Step(j)
  BY <1>1, <1>3, RaceStep
<1>4. CASE UNCHANGED <<table, jobs>>
  BY <1>4 DEF RaceInv, RowsOfDay, BatchInRows, DayStoredWhole, RejectedSent,
     LostRaceLosesNothing,
     Downloaded, Sent, Stored, Attendance
<1> QED
  BY <1>1, <1>2, <1>3, <1>4 DEF Next, Clock, Start, Main, Runs, Crash, vars

\* An import whose INSERT the database rejects finds its whole download stored,
\* whichever of the racing imports a unique key let through (addDetail).
THEOREM LostRacesAreHarmless == Spec => []LostRaceLosesNothing
<1>1. RaceInv => LostRaceLosesNothing
  BY DEF RaceInv
<1>2. Spec => []RaceInv
  BY RaceInit, RaceNext, ImportInvariant, PTL DEF Spec
<1> QED
  BY <1>1, <1>2, PTL

---------------------------------------------------------------------------
(* The day of an import.  The global `yesterday' is written when the       *)
(* process starts and when its timer fires; with prompt answers no import  *)
(* of this process is waiting at either moment.                            *)

NoneWaits == \A j \in JobIds : ~Waiting(j)

DayInv ==
  Prompt =>
    /\ ImportsItsDay
    /\ \A j \in JobIds : Alive(j, "uids") => jobs[j].asked = yesterday
    /\ process # "up" => NoneWaits
    /\ process = "up" /\ phase = "six" /\ ~ticked => NoneWaits

LEMMA DayInit == Init => DayInv
BY DEF Init, DayInv, ImportsItsDay, NoneWaits, Waiting, Alive, NoJob

\* An import that is added while none waits takes the day in the global, and
\* is added only when this 06:00:00 is dealt with (Main, Runs).
LEMMA DayNewJob ==
  ASSUME TypeOK, FreshJobs, DayInv, NewJob(yesterday'), yesterday' \in Nat,
         yesterday' = yesterday \/ NoneWaits,
         process' = "up", phase' = "six" => ticked', dead' = dead
  PROVE  DayInv'
<1>0. PICK n \in JobIds : n = started + 1
  BY NewJobType
<1>1. /\ jobs'[n] = [NoJob EXCEPT !.stage = "uids", !.asked = yesterday']
      /\ \A j \in JobIds : j # n => jobs'[j] = jobs[j]
  BY <1>0, NewJobType
<1>2. jobs'[n].stage = "uids" /\ jobs'[n].asked = yesterday'
  BY <1>1 DEF NoJob
<1>3. ASSUME Prompt, NEW j \in JobIds, Alive(j, "uids")'
      PROVE  jobs'[j].asked = yesterday'
  BY <1>1, <1>2, <1>3 DEF DayInv, NoneWaits, Waiting, Alive
<1> QED
  BY <1>1, <1>2, <1>3 DEF DayInv, ImportsItsDay

LEMMA DayStep ==
  ASSUME TypeOK, DayInv, NEW j \in JobIds, Step(j)
  PROVE  DayInv'
<1>1. /\ \A i \in JobIds : i # j => jobs'[i] = jobs[i]
      /\ UNCHANGED <<phase, ticked, process, yesterday, dead>>
  BY DEF Step, GotUserIds, GotAttendance, DbSelect, CheckMechanism, DbInsert,
     DbInsertFails, Answer, AddDetail, TypeOK
<1>2. jobs[j] \in Job /\ jobs \in [JobIds -> Job]
  BY DEF TypeOK
<1>3. /\ jobs'[j].asked = jobs[j].asked
      /\ jobs'[j].stage # "uids" /\ jobs[j].stage # "none"
      /\ jobs[j].stage = "uids" => jobs'[j].day = yesterday /\ j \notin dead
      /\ jobs[j].stage # "uids" => jobs'[j].day = jobs[j].day
      /\ Waiting(j)' => Waiting(j)
  BY <1>1, <1>2 DEF Step, Alive, Waiting, GotUserIds, GotAttendance, DbSelect,
     CheckMechanism, DbInsert, DbInsertFails, Answer, AddDetail, Job
<1>4. \A i \in JobIds : i # j => /\ Waiting(i)' <=> Waiting(i)
                                 /\ Alive(i, "uids")' <=> Alive(i, "uids")
  BY <1>1 DEF Waiting, Alive
<1>5. NoneWaits => NoneWaits'
  BY <1>3, <1>4 DEF NoneWaits
<1>6. ASSUME Prompt PROVE ImportsItsDay'
  BY <1>1, <1>3, <1>6 DEF DayInv, ImportsItsDay, Alive
<1> QED
  BY <1>1, <1>3, <1>4, <1>5, <1>6 DEF DayInv, Alive

LEMMA DayNext == ImportInv /\ DayInv /\ [Next]_vars => DayInv'
<1> SUFFICES ASSUME ImportInv, DayInv, [Next]_vars PROVE DayInv'
  OBVIOUS
<1>0. TypeOK /\ FreshJobs /\ day - 1 \in Nat /\ yesterday \in Nat
  BY DEF ImportInv, TypeOK
<1>1. CASE Clock
  BY <1>1 DEF Clock, DayInv, ImportsItsDay, NoneWaits, Waiting, Alive
<1>2. CASE Start
  BY <1>2 DEF Start, DayInv, ImportsItsDay, NoneWaits, Waiting, Alive
<1>3. CASE Main
  <2>1. NewJob(yesterday')
    BY <1>3 DEF Main
  <2> QED
    BY <1>0, <1>3, <2>1, DayNewJob DEF Main
<1>4. CASE Runs
  <2>1. NewJob(yesterday') /\ (Prompt => NoneWaits)
    BY <1>4 DEF Runs, DayInv
  <2>2. CASE Prompt
    BY <1>0, <1>4, <2>1, <2>2, DayNewJob DEF Runs
  <2>3. CASE ~Prompt
    BY <2>3 DEF DayInv
  <2> QED
    BY <2>2, <2>3
<1>5. CASE Crash
  <2>1. NoneWaits'
    BY <1>0, <1>5, ConstantsAssumption
       DEF Crash, NoneWaits, Waiting, FreshJobs, JobIds, TypeOK,
           ConstantsAssumption
  <2> QED
    BY <1>5, <2>1 DEF Crash, DayInv, ImportsItsDay, NoneWaits, Waiting, Alive
<1>6. CASE \E j \in JobIds : Step(j)
  BY <1>0, <1>6, DayStep
<1>7. CASE UNCHANGED vars
  BY <1>7 DEF vars, DayInv, ImportsItsDay, NoneWaits, Waiting, Alive
<1> QED
  BY <1>1, <1>2, <1>3, <1>4, <1>5, <1>6, <1>7 DEF Next

\* While answers are prompt, no import reads another day from the shared
\* global than the one it was started for (run, runs).
THEOREM EachImportsItsDay == Spec => []ImportsItsDay
<1>1. ImportInv /\ DayInv => ImportsItsDay
  BY DEF DayInv, ImportsItsDay
<1> QED
  BY ImportInvariant, DayInit, DayNext, <1>1, PTL DEF Spec
=============================================================================
