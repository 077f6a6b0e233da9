------------------------------- MODULE GitFame -------------------------------
(***************************************************************************)
(* golang/gitfame/gitfame/cmd/gitfame/main.go and its packages filters,    *)
(* languages, stats, repo and output: the files of a revision are          *)
(* filtered, blamed one after the other and counted.  A glob is the set of *)
(* the names it matches.                                                   *)
(*                                                                         *)
(* Of a file blame reads the chunks from the output of git blame           *)
(* --porcelain.  A name is a record [id, n, exact, lower]: n is the number *)
(* of its words; exact and lower are its places among the names in order,  *)
(* as they are and in small letters.  A line of output has a number of     *)
(* fields, a key (what it begins with) and its rest; a header has four     *)
(* fields, or three when it goes on with the lines of the one before.      *)
(***************************************************************************)
EXTENDS Integers, Sequences, SequencesExt, FiniteSets, FiniteSetsExt

CONSTANTS Commits,    \* sha -> [author, committer]
          Repos,      \* sequences of files [name, ext, blamed, empty, bad]: of a bad one git blame
                      \* fails, or git log if it is empty
          Flags,      \* records [orderBy, format, useCommitter, exts, langs, exclude, restrict],
                      \* the last four as sequences of pieces: <<x>>, or <<>> for one of blanks
          LangDefs    \* the table of languages: a sequence of [name, exts]

VARIABLES pc, repo, flags,
          files, i,     \* the files left by the filters, the one to be blamed
          chunks, stats, printed

vars == <<pc, repo, flags, files, i, chunks, stats, printed>>

NoName == [id |-> "", n |-> 0, exact |-> 0, lower |-> 0]
NoSha  == "no commit"

\* Output of git for a file whose lines are of the commits in the sequence blamed: what
\* is known of a commit is told once.
Header(sha, n)    == <<[fields |-> IF n = 0 THEN 3 ELSE 4, key |-> sha, name |-> NoName, count |-> n]>>
Person(key, name) == <<[fields |-> 1 + name.n, key |-> key, name |-> name, count |-> 0]>>
Text(words)       == <<[fields |-> words, key |-> "text", name |-> NoName, count |-> 0]>>
Porcelain(blamed) ==
  LET Run(k)   == IF k > 1 /\ blamed[k - 1] = blamed[k] THEN 0
                  ELSE CHOOSE n \in 1..Len(blamed) : /\ \A j \in k..k + n - 1 : j \in DOMAIN blamed /\ blamed[j] = blamed[k]
                                                     /\ k + n \in DOMAIN blamed => blamed[k + n] # blamed[k]
      First(k) == \A j \in 1..k - 1 : blamed[j] # blamed[k]
      c(k)     == Commits[blamed[k]]
      Known(k) == Person("author", c(k).author) \o Person("committer", c(k).committer) \o Text(4)
      Line(k)  == Header(blamed[k], Run(k)) \o (IF First(k) THEN Known(k) ELSE <<>>) \o Text(k % 5)
  IN  FlattenSeq([k \in DOMAIN blamed |-> Line(k)])

-----------------------------------------------------------------------------
\* The state of parsePorcelainBlame; last is lastAuthorForCommit.
Parser == [chunks |-> <<>>, last |-> [s \in {} |-> NoName], commit |-> NoSha, author |-> NoName,
           committer |-> NoName, count |-> 0, inBlock |-> FALSE]

PickAuthorOrCommitter(author, committer, useCommitter) ==
  LET first  == IF useCommitter THEN committer ELSE author
      second == IF useCommitter THEN author ELSE committer
  IN  IF first # NoName THEN first ELSE second

\* Mutant: the name of a commit is not remembered.
MutantFlushBlock(s, file, useCommitter) ==
  LET name == PickAuthorOrCommitter(s.author, s.committer, useCommitter)
  IN  [Parser EXCEPT !.chunks = IF s.inBlock /\ name # NoName
         THEN Append(s.chunks, [commit |-> s.commit, name |-> name, lines |-> s.count, file |-> file]) ELSE s.chunks]
FlushBlock(s, file, useCommitter) ==
  LET told == PickAuthorOrCommitter(s.author, s.committer, useCommitter)
      name == IF told = NoName /\ s.commit \in DOMAIN s.last THEN s.last[s.commit] ELSE told
      chunk == [commit |-> s.commit, name |-> name, lines |-> s.count, file |-> file]
  IN  IF ~s.inBlock THEN s
      ELSE IF name = NoName THEN [Parser EXCEPT !.chunks = s.chunks, !.last = s.last]
      ELSE [Parser EXCEPT !.chunks = Append(s.chunks, chunk),
                          !.last = [x \in DOMAIN s.last \cup {s.commit} |-> IF x = s.commit THEN name ELSE s.last[x]]]

\* Any line of four fields counts as a header, whatever it is.
Block(s, line, file, useCommitter) ==
  IF s.inBlock /\ line.key = s.commit THEN [s EXCEPT !.count = @ + line.count]
  ELSE [FlushBlock(s, file, useCommitter) EXCEPT
          !.commit = line.key, !.count = line.count, !.author = NoName, !.committer = NoName, !.inBlock = TRUE]

ParseLine(s, line, file, useCommitter) ==
  IF line.fields = 4 THEN Block(s, line, file, useCommitter)
  ELSE IF line.key = "author" /\ s.author = NoName THEN [s EXCEPT !.author = line.name]
  ELSE IF line.key = "committer" /\ s.committer = NoName THEN [s EXCEPT !.committer = line.name]
  ELSE s

ParsePorcelainBlame(output, file, useCommitter) ==
  FlushBlock(FoldLeft(LAMBDA s, line : ParseLine(s, line, file, useCommitter), Parser, output), file, useCommitter).chunks

\* A file without lines belongs to the commit that changed it last, which git log tells;
\* that git log fails is not told, and leaves no chunk.
BlameEmptyFile(f, useCommitter) ==
  LET c == Commits[f.empty] IN
  IF f.bad THEN <<>>
  ELSE <<[commit |-> f.empty, name |-> IF useCommitter THEN c.committer ELSE c.author, lines |-> 0, file |-> f.name]>>
BlameFails(f) == f.bad /\ f.blamed # <<>>
BlameFile(f, useCommitter) ==
  IF f.blamed = <<>> THEN BlameEmptyFile(f, useCommitter)
  ELSE ParsePorcelainBlame(Porcelain(f.blamed), f.name, useCommitter)

-----------------------------------------------------------------------------
Init ==
  /\ pc = "validate" /\ repo \in Repos /\ flags \in Flags
  /\ files = <<>> /\ i = 1 /\ chunks = <<>> /\ stats = <<>> /\ printed = <<>>

Orders  == {"lines", "commits", "files"}
Formats == {"tabular", "csv", "json", "json-lines"}

Exit(why) == pc' = why /\ UNCHANGED <<repo, flags, files, i, chunks, stats, printed>>

ValidateFlags ==
  /\ pc = "validate"
  /\ Exit(IF flags.orderBy \in Orders /\ flags.format \in Formats THEN "list" ELSE "error")

\* Not a repository, no such revision, no list of files.
Fails == pc = "list" /\ Exit("error")
\* The table of languages is looked for relative to the working directory.
LoadFails == pc = "list" /\ Exit("no table")

\* Of a flag the pieces between commas that are not blank.
SplitComma(arg) == ToSet(FlattenSeq(arg))

\* Of two definitions with the same name the later one stays.
BuildLanguageMap(defs) ==
  [l \in {defs[j].name : j \in DOMAIN defs} |-> defs[SelectLastInSeq(defs, LAMBDA d : d.name = l)].exts]

\* An extension belongs to one of the user's languages; those unknown are warned of.
IsExtensionInLanguageSet(ext, langs, langMap) == \E l \in langs \cap DOMAIN langMap : ext \in langMap[l]
Matches(f, globs) == \E g \in globs : f.name \in g

\* Each filter only where its flag is given.
\* Mutant: a file is left out only if every pattern says so.
MutantExcluded(f, globs) == globs # {} /\ \A g \in globs : f.name \in g
Excluded(f, globs) == Matches(f, globs)
Apply(fs, cfg, langMap) == SelectSeq(fs, LAMBDA f :
  /\ cfg.exts # {} => f.ext \in cfg.exts
  /\ cfg.langs # {} => IsExtensionInLanguageSet(f.ext, cfg.langs, langMap)
  /\ ~Excluded(f, cfg.exclude)
  /\ cfg.restrict # {} => Matches(f, cfg.restrict))

ListFilesWith(langDefs) ==
  /\ pc = "list" /\ pc' = "blame"
  /\ files' = Apply(repo, [exts |-> SplitComma(flags.exts), langs |-> SplitComma(flags.langs),
                           exclude |-> SplitComma(flags.exclude), restrict |-> SplitComma(flags.restrict)],
                    BuildLanguageMap(langDefs))
  /\ UNCHANGED <<repo, flags, i, chunks, stats, printed>>
ListFiles == ListFilesWith(LangDefs)

\* A file that cannot be blamed is warned of and left out.
Blame ==
  /\ pc = "blame" /\ i <= Len(files) /\ i' = i + 1
  /\ chunks' = (IF BlameFails(files[i]) THEN chunks ELSE chunks \o BlameFile(files[i], flags.useCommitter))
  /\ UNCHANGED <<pc, repo, flags, files, stats, printed>>

-----------------------------------------------------------------------------
\* stats.Calculate, and stats.Sort with its ties; names in small letters are numbers here.
\* Mutant: chunks are counted as commits.
MutantOf(name, cs) ==
  LET mine == {j \in DOMAIN cs : cs[j].name = name} IN
  [name |-> name, lines |-> MapThenSumSet(LAMBDA j : cs[j].lines, mine),
   commits |-> Cardinality(mine), files |-> Cardinality({cs[j].file : j \in mine})]
Of(name, cs) ==
  LET mine == {j \in DOMAIN cs : cs[j].name = name} IN
  [name |-> name, lines |-> MapThenSumSet(LAMBDA j : cs[j].lines, mine),
   commits |-> Cardinality({cs[j].commit : j \in mine}), files |-> Cardinality({cs[j].file : j \in mine})]
Calculate(cs) == {Of(name, cs) : name \in {cs[j].name : j \in DOMAIN cs}}

SortKey(s) == CASE flags.orderBy = "commits" -> <<s.commits, s.lines, s.files>>
             [] flags.orderBy = "files" -> <<s.files, s.lines, s.commits>>
             [] OTHER -> <<s.lines, s.commits, s.files>>
Before(a, b) ==
  LET differ == {k \in 1..3 : SortKey(a)[k] # SortKey(b)[k]} IN
  IF differ = {} THEN a.name.lower < b.name.lower ELSE SortKey(a)[Min(differ)] > SortKey(b)[Min(differ)]

CalculateAndSort ==
  /\ pc = "blame" /\ i > Len(files) /\ pc' = "print"
  /\ stats' = SetToSortSeq(Calculate(chunks), Before)
  /\ UNCHANGED <<repo, flags, files, i, chunks, printed>>

\* output.PrintResults: every format shows the rows in their order; stdout may fail.
PrintResults ==
  /\ pc = "print" /\ UNCHANGED <<repo, flags, files, i, chunks, stats>>
  /\ \/ printed' = stats /\ pc' = "done"
     \/ UNCHANGED printed /\ pc' = "error"

Next == ValidateFlags \/ Fails \/ LoadFails \/ ListFiles \/ Blame \/ CalculateAndSort \/ PrintResults

Spec == Init /\ [][Next]_vars

\* docker/lab4/gitfame: the same packages, built into an image.  Its main.go takes the
\* table of languages from the binary, so that it cannot be missing.
LoadEmbeddedLanguages == LangDefs

InitInImage   == Init
RunEInImage   == ValidateFlags
ListInImage   == Fails \/ ListFilesWith(LoadEmbeddedLanguages)
BlameInImage  == Blame
ReportInImage == CalculateAndSort \/ PrintResults

NextInImage == RunEInImage \/ ListInImage \/ BlameInImage \/ ReportInImage

-----------------------------------------------------------------------------
\* What README.md of gitfame asks for: the files that no flag excludes, where unknown
\* languages exclude none; the commits their lines and the empty ones are of; for each
\* person the sums; and the order.
Asked(arg) == {x[1] : x \in ToSet(arg) \ {<<>>}}
KnownLanguages == {d \in ToSet(LangDefs) : d.name \in Asked(flags.langs)}
Wanted == {f \in ToSet(repo) :
  /\ Asked(flags.exts) = {} \/ f.ext \in Asked(flags.exts)
  /\ KnownLanguages = {} \/ \E d \in KnownLanguages : f.ext \in d.exts
  /\ f.name \notin UNION Asked(flags.exclude)
  /\ Asked(flags.restrict) = {} \/ f.name \in UNION Asked(flags.restrict)}
Person_(sha)   == IF flags.useCommitter THEN Commits[sha].committer ELSE Commits[sha].author
CommitsOf(f)   == IF f.blamed = <<>> THEN {f.empty} ELSE ToSet(f.blamed)
Row(p, fs) ==
  [name |-> p, lines |-> MapThenSumSet(LAMBDA f : Cardinality({j \in DOMAIN f.blamed : Person_(f.blamed[j]) = p}), fs),
   commits |-> Cardinality({c \in UNION {CommitsOf(f) : f \in fs} : Person_(c) = p}),
   files |-> Cardinality({f \in fs : \E c \in CommitsOf(f) : Person_(c) = p})]
RowsOf(fs) == {Row(p, fs) : p \in {Person_(c) : c \in UNION {CommitsOf(f) : f \in fs}}}

\* The key (lines, commits, files) with the field asked for moved to the front; where all
\* are equal the smaller name comes first.
Key(r) == [j \in 1..3 |-> r[(<<flags.orderBy>> \o SelectSeq(<<"lines", "commits", "files">>, LAMBDA x : x # flags.orderBy))[j]]]
Above(a, b) ==
  LET differ == {j \in 1..3 : Key(a)[j] # Key(b)[j]} IN
  IF differ = {} THEN a.name.exact < b.name.exact ELSE Key(a)[Min(differ)] > Key(b)[Min(differ)]

\* What the code does not do as README.md has it: somebody's name has three words, and the
\* line that tells it looks like a header; all languages asked for are unknown, and every
\* file is left out; two people tie whose names are in another order in small letters.
ThreeWords(c) == Commits[c].author.n = 3 \/ Commits[c].committer.n = 3
OnlyUnknownLanguages == Asked(flags.langs) # {} /\ KnownLanguages = {}
CaseMatters(a, b) == Key(a) = Key(b) /\ ((a.name.exact < b.name.exact) # (a.name.lower < b.name.lower))

(***************************************************************************)
(* README.md: every line of the wanted files is counted for whoever the    *)
(* last commit that touched it is of, and nothing else is; in the order    *)
(* asked for.  The three cases above are left out.                         *)
(***************************************************************************)
CountsAreRight ==
  LET fs == {f \in Wanted : ~f.bad} IN
  pc = "done" /\ ~OnlyUnknownLanguages /\ (\A f \in fs : \A c \in CommitsOf(f) : ~ThreeWords(c)) =>
    /\ ToSet(printed) = RowsOf(fs) /\ Len(printed) = Cardinality(RowsOf(fs))
    /\ \A a, b \in DOMAIN printed : a < b => Above(printed[a], printed[b]) \/ CaseMatters(printed[a], printed[b])

(***************************************************************************)
(* README.md: to every line belongs the last commit that modified it, and  *)
(* lines are counted for every author.  Those of an author whose name has  *)
(* three words are not, so this does not hold.                             *)
(***************************************************************************)
EveryLineIsCounted == pc = "done" /\ ~OnlyUnknownLanguages => ToSet(printed) = RowsOf({f \in Wanted : ~f.bad})
=============================================================================
