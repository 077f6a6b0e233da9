------------------------------- MODULE Listing -------------------------------
(***************************************************************************)
(* golang/basics/tools/testtool/commands/list.go and coverage.go: which    *)
(* files of a repository are tests, protected or private, which packages   *)
(* have a binary or a test, and how much coverage a problem demands.       *)
(*                                                                         *)
(* A file is a record: name (a number, in the order of the paths), kind    *)
(* ("go", "test" for _test.go, "proto", "other"), pkg, main (package       *)
(* main), wants and bars (the tags its go:build line needs, and those that *)
(* leave it out), listed (a line of .private names it), comments.          *)
(***************************************************************************)
EXTENDS Integers, Sequences, FiniteSets, SequencesExt, FiniteSetsExt, Functions

IsGo(f) == f.kind \in {"go", "test"}

\* Sorting: the k-th element has k - 1 before it.
Ranked(S, Before(_, _)) ==
  [k \in 1..Cardinality(S) |-> CHOOSE x \in S : Cardinality({y \in S : Before(y, x)}) = k - 1]
Sorted(S) == Ranked(S, LAMBDA f, g : f.name < g.name)

GetPackageFiles(repo, tags) == {f \in repo : IsGo(f) /\ f.wants \subseteq tags /\ f.bars \cap tags = {}}

ListTestFiles(repo) == Sorted({f \in GetPackageFiles(repo, {"private"}) : f.kind = "test"})

\* How files of a course are tagged: a file for teachers only needs private, solution or
\* both and nothing else, and a line of change says which files students must not change.
WellTagged(repo) ==
  /\ IsFiniteSet(repo) /\ \A f \in repo : f.name \in Nat /\ \A g \in repo : f.name = g.name => f = g
  /\ \A f \in repo :
       \/ f.wants = {}
       \/ IsGo(f) /\ f.wants \subseteq {"private", "solution"} /\ f.bars \cap {"private", "solution"} = {}
       \/ f.kind = "proto" /\ f.wants = {"solution"}

ListProtectedFiles(repo) == GetPackageFiles(repo, {}) \ GetPackageFiles(repo, {"change"})

\* Each file is found once, with 1, by its tags, and once, with 2, by a line of .private.
InOrder(found) ==
  LET sorted == Ranked(found, LAMBDA x, y : x[1].name < y[1].name \/ (x[1] = y[1] /\ x[2] < y[2]))
  IN  [k \in DOMAIN sorted |-> sorted[k][1]]
\* Mutant: of the tags, only private is given.
MutantListPrivateFiles(repo) ==
  LET tagged == GetPackageFiles(repo, {"private"}) \ GetPackageFiles(repo, {})
      protos == {f \in repo : f.kind = "proto" /\ "solution" \in f.wants}
  IN  InOrder(((tagged \cup protos) \X {1}) \cup ({f \in repo : f.listed} \X {2}))
ListPrivateFiles(repo) ==
  LET tagged == GetPackageFiles(repo, {"private", "solution"}) \ GetPackageFiles(repo, {})
      protos == {f \in repo : f.kind = "proto" /\ "solution" \in f.wants}
  IN  InOrder(((tagged \cup protos) \X {1}) \cup ({f \in repo : f.listed} \X {2}))

\* testtool list-private-files: their names, a line each.
RunListPrivateFiles(repo) == [i \in DOMAIN ListPrivateFiles(repo) |-> ListPrivateFiles(repo)[i].name]

Binaries(repo) == {f.pkg : f \in {g \in GetPackageFiles(repo, {"private"}) : g.main /\ g.kind = "go"}}
TestPkgs(repo) == {f.pkg : f \in ToSet(ListTestFiles(repo))}

-----------------------------------------------------------------------------
\* A comment [parts |-> .., percent |-> ..] has a number of parts, and a percentage
\* unless the last part is no number.
NoNumber    == -1000
NoCoverage  == [enabled |-> FALSE, percent |-> 0, packages |-> {}]
Demands(c)  == c.parts = 2 /\ c.percent \in 0..100

\* The first comment of the first test file that has one.
GetCoverageRequirements(repo) ==
  LET all == FlattenSeq([i \in DOMAIN ListTestFiles(repo) |-> ListTestFiles(repo)[i].comments])
      i   == SelectInSeq(all, Demands)
  IN  IF i = 0 THEN NoCoverage
      ELSE [enabled |-> TRUE, percent |-> all[i].percent, packages |-> all[i].packages]

\* A profile maps blocks, each with its number of statements, to how often they ran.
\* Mutant: what a block counts in one profile replaces the count of an earlier one.
MutantCounts(profiles) ==
  LET last == profiles[Len(profiles)] IN
  [b \in UNION {DOMAIN profiles[i] : i \in DOMAIN profiles} |-> IF b \in DOMAIN last THEN last[b] ELSE 0]
Counts(profiles) ==
  [b \in UNION {DOMAIN profiles[i] : i \in DOMAIN profiles} |->
     SumFunction([i \in {j \in DOMAIN profiles : b \in DOMAIN profiles[j]} |-> profiles[i][b]])]
Stmts(S) == SumFunction([b \in S |-> b.stmts])

\* <<covered, total>>: the two numbers whose quotient it returns in percent.
CalCoverage(profiles) ==
  LET counts == Counts(profiles)
  IN  <<Stmts({b \in DOMAIN counts : counts[b] > 0}), Stmts(DOMAIN counts)>>
=============================================================================
