------------------------------ MODULE Submission ------------------------------
(***************************************************************************)
(* testtool check-task (commands/test_submission.go, sandbox.go): a        *)
(* temporary repository is put together from the student's files and the   *)
(* teacher's, its programs and tests are built and run, and the coverage   *)
(* and the linter looked at.  A repository maps a path to a file of        *)
(* Listing; whose says in the temporary one whether it is the student's or *)
(* the teacher's.  What the commands it runs return is arbitrary.          *)
(***************************************************************************)
EXTENDS Listing

CONSTANTS Students, Privates,  \* repositories
          Config,              \* paths of go.mod, go.sum and .golangci.yml
          Profiles,            \* profiles of coverage a test may leave
          Short                \* the <<covered, total>> that are a whole percentage whose float64
                               \* falls below it: 57.0 / 100.0 * 100.0 = 56.99999999999999

VARIABLES pc, student, private,
          tmp, whose,    \* the temporary repository
          coverage,      \* what getCoverageRequirements said
          bins, tests,   \* packages still to be built, tests still to be run
          profiles,      \* profiles of the tests that have run
          verdict,       \* what testSubmission returns
          ran            \* history: <<package, how it ran>> of all that passed

vars  == <<pc, student, private, tmp, whose, coverage, bins, tests, profiles, verdict, ran>>
repos == <<student, private, tmp, whose>>

Files(repo) == {repo[x] : x \in DOMAIN repo}

\* Of the teacher's files, a file that students must not change is one of any build, and
\* a test is one of the build that runs the tests, unless it belongs to the solution.
SubmissionAssumption ==
  /\ \A r \in Students \cup Privates : IsFiniteSet(DOMAIN r) /\ \A x \in DOMAIN r : x \in Nat /\ r[x].name = x
  /\ \A r \in Privates : /\ WellTagged(Files(r)) /\ Config \subseteq DOMAIN r
                         /\ \A f \in Files(r) : /\ "change" \in f.bars => IsGo(f) /\ f.wants = {}
                                                /\ f.kind = "test" => "private" \notin f.bars
  /\ \A p \in Profiles : IsFiniteSet(DOMAIN p) /\ \A b \in DOMAIN p : b.stmts \in Nat /\ p[b] \in Nat
  /\ Short \subseteq Nat \X (Nat \ {0})

Init ==
  /\ pc = "tests" /\ student \in Students /\ private \in Privates
  /\ tmp = student /\ whose = [x \in DOMAIN student |-> "student"]
  /\ coverage = NoCoverage /\ bins = {} /\ tests = {} /\ profiles = <<>> /\ verdict = "none" /\ ran = {}

\* rsync of some of the teacher's files replaces what is there.
\* Mutant: it leaves what is there.
MutantCopy(S) == /\ tmp' = [x \in DOMAIN tmp \cup S |-> IF x \in DOMAIN tmp THEN tmp[x] ELSE private[x]]
                 /\ whose' = [x \in DOMAIN tmp' |-> IF x \in DOMAIN tmp THEN whose[x] ELSE "teacher"]
Copy(S) == /\ tmp' = [x \in DOMAIN tmp \cup S |-> IF x \in S THEN private[x] ELSE tmp[x]]
           /\ whose' = [x \in DOMAIN tmp' |-> IF x \in S THEN "teacher" ELSE whose[x]]
CopyFiles(from, to, S) ==
  pc = from /\ pc' = to /\ Copy(S) /\ UNCHANGED <<student, private, coverage, bins, tests, profiles, verdict, ran>>
Named(S) == {f.name : f \in S}

CopyTests     == CopyFiles("tests", "protected", Named(ToSet(ListTestFiles(Files(private)))))
CopyProtected == CopyFiles("protected", "testdata", Named(ListProtectedFiles(Files(private))))
CopyTestdata  == CopyFiles("testdata", "config", {f.name : f \in {g \in Files(private) : g.kind = "testdata"}})
CopyConfig    == CopyFiles("config", "list", Config)

\* runTests: what coverage is asked for, and the packages, which are the teacher's
\* when no coverage is.
List ==
  LET req == GetCoverageRequirements(Files(private))
      from == IF req.enabled THEN Files(tmp) ELSE Files(private)
  IN  /\ pc = "list" /\ pc' = "build" /\ coverage' = req
      /\ bins' = Binaries(from) \cup TestPkgs(from) /\ tests' = TestPkgs(from)
      /\ UNCHANGED <<repos, profiles, verdict, ran>>

\* Errors that are no TestFailedError, and those that are.
Return(v) == pc' = "over" /\ verdict' = v

Build(p) ==
  /\ pc = "build" /\ p \in bins /\ UNCHANGED <<repos, coverage, tests, profiles, ran>>
  /\ \/ Return("error") /\ UNCHANGED bins
     \/ bins' = bins \ {p} /\ UNCHANGED <<pc, verdict>>

Built == pc = "build" /\ bins = {} /\ pc' = "next" /\ UNCHANGED <<repos, coverage, bins, tests, profiles, verdict, ran>>

\* A run of a test binary as the user nobody: it passes, or is a failed test.
\* The package under test is the first of those left.
Current == CHOOSE p \in tests : TRUE
Passes(from, to, how) ==
  /\ pc = from /\ tests # {} /\ pc' = to /\ ran' = ran \cup {<<Current, how>>}
  /\ UNCHANGED <<repos, coverage, bins, verdict>>
Fails == /\ pc \in {"next", "race", "bench"} /\ tests # {} /\ Return("failed")
         /\ UNCHANGED <<repos, coverage, bins, tests, profiles, ran>>

\* As root each run is given to the user nobody; without one that is log.Fatal.
SandboxFails ==
  /\ pc \in {"next", "race", "bench"} /\ tests # {} /\ pc' = "dead"
  /\ UNCHANGED <<repos, coverage, bins, tests, profiles, verdict, ran>>

\* The plain run may leave a profile.
RunTest ==
  /\ Passes("next", "race", "test") /\ UNCHANGED tests
  /\ IF coverage.enabled THEN \E f \in Profiles : profiles' = Append(profiles, f) ELSE UNCHANGED profiles
RunRace == Passes("race", "bench", "race") /\ UNCHANGED <<tests, profiles>>

\* Benchmarks; without any, nothing is compared.
\* Mutant: that ends all the testing.
MutantRunBench ==
  \/ Passes("bench", "next", "bench") /\ tests' = {} /\ UNCHANGED profiles
  \/ Passes("bench", "compare", "bench") /\ UNCHANGED <<tests, profiles>>
RunBench ==
  \/ Passes("bench", "next", "bench") /\ tests' = tests \ {Current} /\ UNCHANGED profiles
  \/ Passes("bench", "compare", "bench") /\ UNCHANGED <<tests, profiles>>

\* compareToBaseline: the teacher's own benchmark fails, or the student's is worse.
Compare ==
  /\ pc = "compare" /\ UNCHANGED <<repos, coverage, bins, profiles, ran>>
  /\ \/ Return("error") /\ UNCHANGED tests
     \/ pc' = "next" /\ tests' = tests \ {Current} /\ UNCHANGED verdict

\* The quotient is compared as a float64, which is exact enough but for the whole
\* percentages; with no statement at all it is zero.
Poor(percent) ==
  LET c == CalCoverage(profiles) IN
  \/ 100 * c[1] < percent * c[2]
  \/ 100 * c[1] = percent * c[2] /\ c \in Short
  \/ c[2] = 0 /\ 0 < percent

\* A profile that is missing or cannot be parsed is an error.
CheckCoverage ==
  /\ pc = "next" /\ tests = {} /\ UNCHANGED <<repos, coverage, bins, tests, profiles, ran>>
  /\ \/ coverage.enabled /\ Return("error")
     \/ coverage.enabled /\ Poor(coverage.percent) /\ Return("uncovered")
     \/ ~(coverage.enabled /\ Poor(coverage.percent)) /\ pc' = "lint" /\ UNCHANGED verdict

Lint ==
  /\ pc = "lint" /\ UNCHANGED <<repos, coverage, bins, tests, profiles, ran>>
  /\ \/ Return("error") \/ Return("passed")

\* Preparations that fail are log.Fatal.
Fatal ==
  /\ pc \in {"tests", "protected", "testdata", "config", "list"} /\ pc' = "dead"
  /\ UNCHANGED <<repos, coverage, bins, tests, profiles, verdict, ran>>

Next == \/ CopyTests \/ CopyProtected \/ CopyTestdata \/ CopyConfig \/ List \/ Built
        \/ (\E p \in bins : Build(p)) \/ Fails \/ RunTest \/ RunRace \/ RunBench \/ Compare
        \/ CheckCoverage \/ Lint \/ Fatal \/ SandboxFails

Spec == Init /\ [][Next]_vars

-----------------------------------------------------------------------------
TypeOK ==
  /\ pc \in {"tests", "protected", "testdata", "config", "list", "build", "next", "race", "bench",
             "compare", "lint", "over", "dead"}
  /\ verdict \in {"none", "passed", "failed", "uncovered", "error"} /\ whose \in [DOMAIN tmp -> {"student", "teacher"}]

\* The teacher's tests, protected files, data and configuration, by their paths.
Teachers == {f.name : f \in {g \in Files(private) :
  \/ g.kind \in {"test", "testdata"} /\ "solution" \notin g.wants
  \/ "change" \in g.bars \/ g.name \in Config}}
\* The blocks of all profiles, and those that some test ran: what they cover is as many
\* of all statements as the first comment asks for, or just as many.
Blocks == UNION {DOMAIN profiles[i] : i \in DOMAIN profiles}
Hit    == {b \in Blocks : \E i \in DOMAIN profiles : b \in DOMAIN profiles[i] /\ profiles[i][b] > 0}
EnoughIsCovered ==
  IF Stmts(Blocks) = 0 THEN coverage.percent = 0 ELSE 100 * Stmts(Hit) >= coverage.percent * Stmts(Blocks)
RoundedDown == 100 * Stmts(Hit) = coverage.percent * Stmts(Blocks) /\ <<Stmts(Hit), Stmts(Blocks)>> \in Short

(***************************************************************************)
(* What is built and run is the teacher's wherever the teacher has a say,  *)
(* whatever the student's repository holds; what passes has passed every   *)
(* test of the teacher's, plainly, under the race detector and with        *)
(* benchmarks; and its tests together cover enough.  What is refused for   *)
(* its coverage covers too little, or just enough and is rounded down.     *)
(***************************************************************************)
PassedMeansTested ==
  /\ pc \notin {"tests", "protected", "testdata", "config", "dead"} => \A x \in Teachers : whose[x] = "teacher"
  /\ verdict = "passed" =>
       /\ \A f \in Files(private) : f.kind = "test" /\ "solution" \notin f.wants =>
            \A how \in {"test", "race", "bench"} : <<f.pkg, how>> \in ran
       /\ coverage.enabled => EnoughIsCovered
  /\ verdict = "uncovered" => coverage.enabled /\ (~EnoughIsCovered \/ RoundedDown)
=============================================================================
