-------------------------------- MODULE Grade --------------------------------
(***************************************************************************)
(* testtool grade (golang/basics/tools/testtool/commands): the tasks that  *)
(* the last commit changed are tested one after the other, and what came   *)
(* out is reported to a server that may refuse, or record the report and   *)
(* lose its answer.  A name is a number, in the order of the names; a file *)
(* knows its first directory, and a watched path is the set of the files   *)
(* that begin with it.                                                     *)
(***************************************************************************)
EXTENDS Listing

CONSTANTS Tasks,      \* names of tasks
          Files,      \* records [dir |-> ..]
          Schedules,  \* contents of .deadlines.yml: sequences of groups
          MaxTries    \* attempts of reportTestResults: 3

GradeAssumption ==
  /\ Tasks \subseteq Nat \ {0} /\ MaxTries \in Nat \ {0}
  /\ \A s \in Schedules : s \in Seq([dates : {"valid", "broken"}, tasks : Seq([name : Tasks, watch : SUBSET Files])])

VARIABLES pc, deadlines, changed,  \* the file of groups, what git says has changed
          todo,                    \* the tasks left
          testFailed, failed,      \* the local variables of grade
          tries,                   \* attempts to report this task
          verdicts,                \* what testSubmission said of each task tested
          reports                  \* what the server recorded: <<task, failed>>

vars == <<pc, deadlines, changed, todo, testFailed, failed, tries, verdicts, reports>>

Init ==
  /\ pc = "start" /\ deadlines \in Schedules /\ changed \in SUBSET Files
  /\ todo = <<>> /\ testFailed = FALSE /\ failed = FALSE /\ tries = 0
  /\ verdicts = [t \in Tasks |-> "untested"] /\ reports = {}

\* Deadlines.Tasks; FindTask, whose first match is all that findChangedTasks uses.
AllTasks == FlattenSeq([g \in DOMAIN deadlines |-> deadlines[g].tasks])
FindTask(name) == SelectInSeq(AllTasks, LAMBDA t : t.name = name)

\* The tasks a file belongs to, by its directory or as one of those watched.
\* Mutant: only by its directory.
MutantTouched(f) == {AllTasks[i].name : i \in {FindTask(f.dir)} \ {0}}
Touched(f) == {AllTasks[i].name : i \in {FindTask(f.dir)} \ {0}}
              \cup {t.name : t \in {x \in ToSet(AllTasks) : f \in x.watch}}

\* git diff-tree: its output ends with a newline, so the last name is the empty one.
NoName == [dir |-> 0]
ListChangedFiles == changed \cup {NoName}
FindChangedTasks == Ranked(UNION {Touched(f) : f \in ListChangedFiles}, LAMBDA m, n : m < n)

\* loadDeadlines checks every date.
Valid == \A g \in DOMAIN deadlines : deadlines[g].dates = "valid"

Exit(code) == pc' = code

\* git or the file of deadlines may fail.
Start ==
  /\ pc = "start" /\ UNCHANGED <<deadlines, changed, testFailed, failed, tries, verdicts, reports>>
  /\ \/ Exit("exit 1") /\ UNCHANGED todo
     \/ Valid /\ pc' = "test" /\ todo' = FindChangedTasks

(***************************************************************************)
(* testSubmission: passed, a TestFailedError, or any other error, which is *)
(* not reported.  That the group is not open yet is only logged.           *)
(***************************************************************************)
Test(v) ==
  /\ pc = "test" /\ todo # <<>> /\ verdicts' = [verdicts EXCEPT ![Head(todo)] = v]
  /\ failed' = (failed \/ v # "passed") /\ testFailed' = (v = "failed") /\ tries' = 0
  /\ IF v = "error" THEN todo' = Tail(todo) /\ UNCHANGED pc ELSE pc' = "report" /\ UNCHANGED todo
  /\ UNCHANGED <<deadlines, changed, reports>>

\* log.Fatal inside testSubmission, where a copy, a list or the sandbox fails.
TestDies ==
  /\ pc = "test" /\ todo # <<>> /\ Exit("fatal")
  /\ UNCHANGED <<deadlines, changed, todo, testFailed, failed, tries, verdicts, reports>>

Record == reports' = reports \cup {<<Head(todo), testFailed>>}

\* reportTestResults: one attempt that succeeds.
Reported ==
  /\ pc = "report" /\ Record /\ todo' = Tail(todo) /\ pc' = "test"
  /\ UNCHANGED <<deadlines, changed, testFailed, failed, tries, verdicts>>

\* One that fails, whether the server recorded it or not; the last one is fatal.
ReportFails ==
  /\ pc = "report" /\ (Record \/ UNCHANGED reports) /\ tries' = tries + 1
  /\ IF tries' = MaxTries THEN Exit("fatal") ELSE UNCHANGED pc
  /\ UNCHANGED <<deadlines, changed, todo, testFailed, failed, verdicts>>

Finish ==
  /\ pc = "test" /\ todo = <<>> /\ Exit(IF failed THEN "exit 1" ELSE "exit 0")
  /\ UNCHANGED <<deadlines, changed, todo, testFailed, failed, tries, verdicts, reports>>

Next == Start \/ (\E v \in {"passed", "failed", "error"} : Test(v)) \/ TestDies \/ Reported \/ ReportFails \/ Finish

Spec == Init /\ [][Next]_vars

-----------------------------------------------------------------------------
\* The tasks a commit concerns: those with a changed file of theirs.
Concerned == {t \in ToSet(AllTasks) : \E f \in changed : f.dir = t.name \/ f \in t.watch}

(***************************************************************************)
(* However the server fails, what it recorded of a task is what its test   *)
(* said.  grade exits with 0 only if every task concerned passed and the   *)
(* server knows; it leaves no task concerned untested unless it could not  *)
(* start or died, in a test or of a report, and then all before the task   *)
(* it died at are errors or known to the server.                           *)
(***************************************************************************)
GradesAreTrue ==
  /\ \A r \in reports : verdicts[r[1]] = IF r[2] THEN "failed" ELSE "passed"
  /\ pc = "exit 0" => \A t \in Concerned : <<t.name, FALSE>> \in reports
  /\ pc \in {"test", "report", "fatal"} => \A t \in Concerned :
       \/ verdicts[t.name] = "error"
       \/ t.name \in ToSet(todo)
       \/ <<t.name, verdicts[t.name] = "failed">> \in reports
=============================================================================
