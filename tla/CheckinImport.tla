--------------------------- MODULE CheckinImport ---------------------------
(***************************************************************************)
(* The attendance importer, src/AutoGetMachineDatetime.js.                 *)
(*                                                                         *)
(* The process imports the punches of "yesterday" once when it starts      *)
(* (Main, run) and then every day when its one-second timer sees 06:00:00  *)
(* (runs).  An import is a chain of asynchronous calls: ask the clock      *)
(* machine for its users, download the day's attendance, SELECT what the   *)
(* table holds (checkMechanism), INSERT what is missing (addDetail).       *)
(* Imports share the globals `yesterday' and `recordTidy', and nothing     *)
(* keeps two of them from running at once.                                 *)
(*                                                                         *)
(* A database call is two steps, the server evaluating it and the callback *)
(* seeing its result, so that the calls of two imports interleave.  A      *)
(* punch (cr01, cr02) is a value; the text of the download, the encoding   *)
(* of the form and the fixed columns cr03..cr08 are left out.  The array   *)
(* recordTidy is read only for membership and is a set here.               *)
(***************************************************************************)
EXTENDS Integers

CONSTANTS
  Punches,      \* the (cr01, cr02) pairs the clock machine ever holds
  DayOf,        \* the day of each punch
  LastDay,      \* bound: the calendar is days 1 .. LastDay
  MaxJobs,      \* bound: imports started, over all runs of the process
  KeyChoices,   \* may the table reject a second row for the same punch?
  MayFail,      \* may the clock machine or the database fail a call?
  MaySkip,      \* may the drifting timer miss the second 06:00:00?
  Prompt        \* do all answers arrive before the next 06:00:00?

ASSUME ConstantsAssumption ==
  /\ LastDay \in Nat
  /\ MaxJobs \in Nat
  /\ DayOf \in [Punches -> Nat]
  /\ {MayFail, MaySkip, Prompt} \cup KeyChoices \subseteq BOOLEAN

VARIABLES
  day, phase,   \* the wall clock: "early" (before six), "six", "late"
  ticked,       \* has the timer callback run in this second 06:00:00?
  process,      \* "down", "main" (Main awaits the users), "up" (timer armed)
  yesterday,    \* the global of the same name
  recordTidy,   \* the global of the same name: punches ever SELECTed
  uniqueKey,    \* has the table a unique key?  (its schema is not in the code)
  table,        \* checkinrecord: how many rows each punch has
  jobs,         \* the imports, in the order they were started
  started,      \* how many of them were started
  dead          \* those whose process is gone

vars == <<day, phase, ticked, process, yesterday, recordTidy, uniqueKey, table,
          jobs, started, dead>>

JobIds == 1 .. MaxJobs
Stages == {"none", "uids", "download", "select", "seen", "insert", "ack",
           "done"}
Answers == {"none", "applied", "rejected", "failed"}
Logs == {"none", "inserted", "finished"}

Stored == {p \in Punches : table[p] > 0}
Attendance(d) == {p \in Punches : DayOf[p] = d}
Waiting(j) == jobs[j].stage \notin {"none", "done"} /\ j \notin dead

NoJob == [stage |-> "none", asked |-> 0, day |-> 0, rows |-> {}, seen |-> {},
          batch |-> {}, answer |-> "none", log |-> "none", after |-> {}]

Job == [stage : Stages, asked : Nat, day : Nat, rows : SUBSET Punches,
        seen : SUBSET Punches, batch : SUBSET Punches, answer : Answers,
        log : Logs, after : SUBSET JobIds]

TypeOK ==
  /\ day \in Nat \ {0} /\ phase \in {"early", "six", "late"} /\ ticked \in BOOLEAN
  /\ process \in {"down", "main", "up"}
  /\ yesterday \in Nat
  /\ recordTidy \subseteq Punches
  /\ uniqueKey \in BOOLEAN
  /\ table \in [Punches -> Nat]
  /\ started \in 0 .. MaxJobs
  /\ dead \subseteq JobIds
  /\ jobs \in [JobIds -> Job]

Init ==
  /\ day = 1 /\ phase = "early" /\ ticked = FALSE
  /\ process = "down" /\ yesterday = 0 /\ recordTidy = {}
  /\ uniqueKey \in KeyChoices /\ table = [p \in Punches |-> 0]
  /\ jobs = [j \in JobIds |-> NoJob] /\ started = 0 /\ dead = {}

---------------------------------------------------------------------------
(* The wall clock and the process.                                         *)

\* Time passes.  Without MaySkip the armed timer sees every 06:00:00; with
\* Prompt no answer is still awaited when 06:00:00 comes.
Clock ==
  /\ \/ /\ phase = "early" /\ phase' = "six" /\ day' = day /\ ticked' = FALSE
        /\ Prompt => process # "main" /\ \A j \in JobIds : ~Waiting(j)
     \/ /\ phase = "six" /\ phase' = "late" /\ UNCHANGED <<day, ticked>>
        /\ process = "up" => ticked \/ MaySkip
     \/ /\ phase = "late" /\ day < LastDay
        /\ phase' = "early" /\ day' = day + 1 /\ UNCHANGED ticked
  /\ UNCHANGED <<process, yesterday, recordTidy, uniqueKey, table, jobs,
                 started, dead>>

\* The module is loaded: the globals are set and Main asks for the users.
Start ==
  /\ process = "down"
  /\ process' = "main" /\ yesterday' = day - 1 /\ recordTidy' = {}
  /\ UNCHANGED <<uniqueKey, day, phase, ticked, table, jobs, started, dead>>

\* An import is added, waiting for the users; `asked' is the day in the global
\* when it is started (what runs announces as the day to import).
NewJob(d) ==
  /\ started < MaxJobs
  /\ started' = started + 1
  /\ jobs' = [jobs EXCEPT ![started + 1] = [NoJob EXCEPT !.stage = "uids",
                                                         !.asked = d]]

\* Mutant of Main: the timer is armed, the import at startup is forgotten.
MainArmsOnly ==
  /\ process = "main"
  /\ process' = "up" /\ ticked' = (phase = "six" \/ ticked)
  /\ UNCHANGED <<uniqueKey, day, phase, yesterday, recordTidy, table, jobs,
                 started, dead>>

\* Main has the users: it calls run, which asks for them again, and arms the
\* timer, whose first callback is a second away.
Main ==
  /\ process = "main"
  /\ NewJob(yesterday)
  /\ process' = "up" /\ ticked' = (phase = "six" \/ ticked)
  /\ UNCHANGED <<uniqueKey, day, phase, yesterday, recordTidy, table, dead>>

\* Mutant of Runs: the global keeps the date of the last import.
RunsKeepsYesterday ==
  /\ process = "up" /\ phase = "six" /\ ~ticked
  /\ ticked' = TRUE
  /\ NewJob(day - 1)
  /\ UNCHANGED <<uniqueKey, day, phase, process, yesterday, recordTidy, table,
                 dead>>

\* The timer callback in the second 06:00:00.
Runs ==
  /\ process = "up" /\ phase = "six" /\ ~ticked
  /\ ticked' = TRUE
  /\ yesterday' = day - 1
  /\ NewJob(day - 1)
  /\ UNCHANGED <<uniqueKey, day, phase, process, recordTidy, table, dead>>

---------------------------------------------------------------------------
(* One import, callback by callback.                                       *)

Alive(j, stage) == jobs[j].stage = stage /\ j \notin dead

\* The users arrive: the global `yesterday' is read only now.
GotUserIds(j) ==
  /\ Alive(j, "uids")
  /\ jobs' = [jobs EXCEPT ![j].stage = "download", ![j].day = yesterday]
  /\ UNCHANGED <<uniqueKey, day, phase, ticked, process, yesterday,
                 recordTidy, table, started, dead>>

\* The attendance of the day arrives and the SELECT is sent.
GotAttendance(j) ==
  /\ Alive(j, "download")
  /\ jobs' = [jobs EXCEPT ![j].stage = "select",
                          ![j].rows = Attendance(jobs[j].day)]
  /\ UNCHANGED <<uniqueKey, day, phase, ticked, process, yesterday,
                 recordTidy, table, started, dead>>

\* The database evaluates the SELECT (`after' records whose INSERTs it saw).
Applied(i) == jobs[i].stage \in {"ack", "done"} /\ jobs[i].answer = "applied"

DbSelect(j) ==
  /\ Alive(j, "select")
  /\ jobs' = [jobs EXCEPT ![j].stage = "seen", ![j].seen = Stored,
                          ![j].after = {i \in JobIds : Applied(i)}]
  /\ UNCHANGED <<uniqueKey, day, phase, ticked, process, yesterday,
                 recordTidy, table, started, dead>>

\* Mutant of CheckMechanism: the rows about to be inserted are remembered too.
CheckRemembersBatch(j) ==
  /\ Alive(j, "seen")
  /\ recordTidy' = recordTidy \cup jobs[j].seen \cup jobs[j].rows
  /\ jobs' = [jobs EXCEPT ![j].stage = "insert",
                          ![j].batch = jobs[j].rows \ (recordTidy \cup jobs[j].seen)]
  /\ UNCHANGED <<uniqueKey, day, phase, ticked, process, yesterday, table,
                 started, dead>>

\* Mutant of CheckMechanism: the filter runs before the rows are remembered.
CheckFiltersFirst(j) ==
  /\ Alive(j, "seen")
  /\ recordTidy' = recordTidy \cup jobs[j].seen
  /\ jobs' = [jobs EXCEPT ![j].stage = "insert",
                          ![j].batch = jobs[j].rows \ recordTidy]
  /\ UNCHANGED <<uniqueKey, day, phase, ticked, process, yesterday, table,
                 started, dead>>

\* checkMechanism's callback: remember all rows seen, keep the rows of the
\* download that are not remembered, and send them in one INSERT (addDetail).
CheckMechanism(j) ==
  /\ Alive(j, "seen")
  /\ recordTidy' = recordTidy \cup jobs[j].seen
  /\ jobs' = [jobs EXCEPT ![j].stage = "insert",
                          ![j].batch = jobs[j].rows \ recordTidy']
  /\ UNCHANGED <<uniqueKey, day, phase, ticked, process, yesterday, table,
                 started, dead>>

\* The database evaluates the INSERT, all rows or none.  An empty VALUES list
\* is a syntax error.  The INSERT of a dead process is already on its way.
Rejected(j) == jobs[j].batch = {} \/ (uniqueKey /\ jobs[j].batch \cap Stored # {})

DbInsert(j) ==
  /\ jobs[j].stage = "insert" /\ ~Rejected(j)
  /\ table' = [p \in Punches |-> IF p \in jobs[j].batch THEN table[p] + 1
                                                        ELSE table[p]]
  /\ jobs' = [jobs EXCEPT ![j].stage = "ack", ![j].answer = "applied"]
  /\ UNCHANGED <<uniqueKey, day, phase, ticked, process, yesterday,
                 recordTidy, started, dead>>

Answer(j, answer) ==
  jobs' = [jobs EXCEPT ![j].stage = "ack", ![j].answer = answer]

DbInsertFails(j) ==
  /\ jobs[j].stage = "insert"
  /\ \/ Rejected(j) /\ Answer(j, "rejected")
     \/ MayFail /\ Answer(j, "failed")
  /\ UNCHANGED <<uniqueKey, day, phase, ticked, process, yesterday,
                 recordTidy, table, started, dead>>

\* Mutant of AddDetail: the error of the INSERT is not looked at.
AddDetailIgnoresError(j) ==
  /\ Alive(j, "ack")
  /\ jobs' = [jobs EXCEPT ![j].stage = "done", ![j].log = "inserted"]
  /\ UNCHANGED <<uniqueKey, day, phase, ticked, process, yesterday,
                 recordTidy, table, started, dead>>

\* addDetail's callback logs the number of rows, or on an error that the
\* writing is finished.  The answer to an INSERT that was applied may be lost.
AddDetail(j) ==
  /\ Alive(j, "ack")
  /\ \/ /\ jobs[j].answer = "applied"
        /\ jobs' = [jobs EXCEPT ![j].stage = "done", ![j].log = "inserted"]
     \/ /\ jobs[j].answer # "applied" \/ MayFail
        /\ jobs' = [jobs EXCEPT ![j].stage = "done", ![j].log = "finished"]
  /\ UNCHANGED <<uniqueKey, day, phase, ticked, process, yesterday,
                 recordTidy, table, started, dead>>

\* A failed call of the clock machine has no `res' and a failed SELECT no
\* `rows': the callback throws, nothing catches it and the process is gone.
Crash ==
  /\ MayFail
  /\ \/ process = "main"
     \/ \E j \in JobIds : \/ Alive(j, "uids") \/ Alive(j, "download")
                          \/ Alive(j, "select")
  /\ process' = "down"
  /\ dead' = 1 .. started
  /\ UNCHANGED <<uniqueKey, day, phase, ticked, yesterday, recordTidy, table,
                 jobs, started>>

Step(j) == \/ GotUserIds(j) \/ GotAttendance(j) \/ DbSelect(j)
           \/ CheckMechanism(j) \/ DbInsert(j) \/ DbInsertFails(j)
           \/ AddDetail(j)

Next == \/ Clock \/ Start \/ Main \/ Runs \/ Crash
        \/ \E j \in JobIds : Step(j)

Spec == Init /\ [][Next]_vars

\* Time passes, the process is started, and every call is answered.
Fairness == /\ WF_vars(Clock) /\ WF_vars(Start) /\ WF_vars(Main) /\ WF_vars(Runs)
            /\ \A j \in JobIds : WF_vars(Step(j))

LiveSpec == Spec /\ Fairness

---------------------------------------------------------------------------
(* Properties.                                                             *)

\* The memory that suppresses rows only holds rows the table holds.  It is
\* shared by all imports and never cleared (recordTidy).
CacheWithinTable == recordTidy \subseteq Stored

\* An import that logs a number of rows, or that had nothing to insert, leaves
\* every punch it downloaded in the table: what checkMechanism left out was
\* there, what it kept was inserted.
ReportedRowsStored ==
  \A j \in JobIds :
    jobs[j].stage = "done" /\ (jobs[j].log = "inserted" \/ jobs[j].batch = {})
      => jobs[j].rows \subseteq Stored

\* Two imports insert the same punch only when they raced: neither SELECT was
\* evaluated after the other's INSERT (checkMechanism suffices for imports that
\* do not overlap, across crashes and restarts too).
DuplicatesNeedARace ==
  \A i, j \in JobIds :
    i # j /\ Applied(i) /\ Applied(j) /\ jobs[i].batch \cap jobs[j].batch # {}
      => i \notin jobs[j].after /\ j \notin jobs[i].after

\* An import whose INSERT the database rejects - as a whole, because a unique key
\* holds one of its rows, or because it has none - finds all its rows stored: who
\* loses the race of two imports loses no row (checkMechanism, addDetail).
LostRaceLosesNothing ==
  \A j \in JobIds : jobs[j].answer = "rejected" => jobs[j].rows \subseteq Stored

\* While every answer arrives before the next 06:00:00, an import reads from
\* the shared global the day it was started for.
ImportsItsDay ==
  \A j \in JobIds : jobs[j].stage \notin {"none", "uids"} /\ Prompt
                      => jobs[j].day = jobs[j].asked

\* While the process is up, the punches of the day before are eventually
\* stored, when no call fails, no tick is missed and answers are prompt: the
\* import at startup and the one at 06:00:00 leave no day out (Main, runs).
EveryDayStored ==
  \A d \in 0 .. LastDay - 1 :
    (process # "down" /\ day = d + 1) ~> (Attendance(d) \subseteq Stored)
=============================================================================
