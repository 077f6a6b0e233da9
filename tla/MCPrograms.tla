------------------------------ MODULE MCPrograms ------------------------------
(***************************************************************************)
(* The programs, those of MCServices and MCTools among them, for TLC.      *)
(* They share no state, so each behaviour exercises one of them, which the *)
(* variable part names.  What it leaves of v1 to v13 stays 0, and          *)
(* UrlShortener's requests are absent.  Of programs that only compute, v1  *)
(* is the input: an initial state each.                                    *)
(***************************************************************************)
EXTENDS MCServices, MCTools

-----------------------------------------------------------------------------
\* Rules of the firewall: one of each kind for "list", a second set for the same path,
\* one for another path, and a file that does not compile.
Rule(e) == [endpoint |-> e, forbidUA |-> {}, forbidHeaders |-> <<>>, requireHeaders |-> {},
            maxReqLen |-> None, maxRespLen |-> None, forbidCodes |-> <<>>,
            forbidReqRE |-> {}, forbidRespRE |-> {}]
Limits  == [Rule("list") EXCEPT !.maxReqLen = 2, !.maxRespLen = 1, !.forbidCodes = <<201, 201>>]
Agents  == [Rule("list") EXCEPT !.forbidUA = {"python"}, !.requireHeaders = {"type"}, !.forbidRespRE = {"admin"}]
Paths   == [Rule("login") EXCEPT !.forbidReqRE = {"dots"}, !.forbidHeaders = <<[name |-> "type", texts |-> {"html"}]>>]
NoColon == [Rule("list") EXCEPT !.forbidHeaders = <<[name |-> "type", texts |-> None]>>]
SomeConfigs == {<<>>, <<Limits, Agents, Paths>>, <<Paths, Agents>>, <<Limits, NoColon>>}

\* An empty first header counts as missing, and each one may be forbidden.
Type(value)  == [name |-> "type", value |-> value]
SomeRequests == [path : {"list", "login"}, ua : {None, "python"}, len : {1, 3}, body : {"dots", "text"},
             headers : {<<>>, <<Type("html")>>, <<Type("json"), Type("html")>>, <<Type(Empty), Type("json")>>}]
SomeResponses == {[code |-> c, len |-> n, body |-> b] : c \in {200, 201}, n \in {1, 2}, b \in {"admin", "text"}}

\* Tasks 1 and 2, and a group that is not open; 2 watches the file of 3's directory.
Group(d, ts) == [dates |-> d, tasks |-> ts]
Task(n, w)   == [name |-> n, watch |-> w]
SomeFiles    == {[dir |-> 1], [dir |-> 2], [dir |-> 3], [dir |-> 9]}
SomeSchedules == {<<Group("valid", <<Task(1, {}), Task(2, {[dir |-> 9]})>>), Group("valid", <<Task(3, {[dir |-> 1]})>>)>>,
                 <<Group("valid", <<Task(2, {}), Task(2, {[dir |-> 3]})>>)>>,
                 <<Group("broken", <<Task(1, {})>>)>>}

\* Files of the course: plain, tagged in each way, listed in .private, and both.
File(n, kind, wants, bars) ==
  [name |-> n, kind |-> kind, pkg |-> 1, main |-> FALSE, wants |-> wants, bars |-> bars, listed |-> FALSE, comments |-> <<>>]
Plain    == File(1, "go", {}, {})
Template == File(2, "go", {}, {"solution"})
Answer   == File(3, "go", {"solution"}, {})
Hidden   == File(4, "test", {"private", "solution"}, {})
Proto    == File(5, "proto", {"solution"}, {})
Notes    == [File(6, "other", {}, {}) EXCEPT !.listed = TRUE]
Both     == [File(7, "go", {"private"}, {}) EXCEPT !.listed = TRUE]
SomeCourses == {{Plain, Template, Answer, Hidden}, {Plain, Template, Proto, Notes}, {Plain, Hidden, Both}}

\* A problem with tests of two packages, protected and data files and a program, and
\* what a student may have instead: other tests, another go.mod, no protected file.
Asks(p)   == <<[parts |-> 2, percent |-> p, packages |-> {1}]>>
ATest(n, pkg, comments) == [File(n, "test", {}, {}) EXCEPT !.pkg = pkg, !.comments = comments]
Problem   == 2 :> ATest(2, 2, <<>>) @@ 3 :> File(3, "go", {}, {"change"}) @@ 4 :> File(4, "go", {"solution"}, {})
             @@ 5 :> File(5, "testdata", {}, {}) @@ 6 :> File(6, "other", {}, {})
             @@ 7 :> [File(7, "go", {}, {}) EXCEPT !.pkg = 3, !.main = TRUE]
SomePrivates == {1 :> ATest(1, 1, c) @@ Problem :
                c \in {<<>>, <<[parts |-> 3, percent |-> 10, packages |-> {}]>> \o Asks(75), Asks(101), Asks(58)}}
SomeStudents == {8 :> File(8, "go", {}, {"solution"}),
              1 :> ATest(1, 1, Asks(0)) @@ 3 :> File(3, "go", {}, {}) @@ 6 :> File(6, "other", {}, {}) @@ 9 :> ATest(9, 4, <<>>)}
Block(n)  == [id |-> n, stmts |-> n]
SomeProfiles == {<<>>, Block(1) :> 1 @@ Block(3) :> 0, Block(1) :> 0 @@ Block(3) :> 2, Block(29) :> 1 @@ Block(21) :> 0}
\* With up to 100 statements, as IEEE 754 rounds.
FallShort == {<<29, 50>>, <<29, 100>>, <<57, 100>>, <<58, 100>>}

\* Words that rest on others, redefine themselves, others or an operation, and errors.
SomeLines == {<<"1", "2">>, <<"foo">>, <<"bar", "over">>, <<"-", "dup">>, <<"*", "swap">>, <<"0", "/">>, <<"drop", "+">>,
              <<":", "foo", "1", ";">>, <<":", "foo", "foo", "dup", ";">>, <<":", "bar", "foo", "swap", ";">>,
              <<":", "swap", "bar", ";">>, <<":", "bar", "swap", "none", ";">>, <<":", "1", "2", ";">>, <<":", "foo", "1">>, <<":", "x">>}

\* Up to two files of up to two lines; only a line that is not empty can be unfinished.
SomeTexts == {f \in [lines : SeqOf({0, 1, 2}, 2), open : BOOLEAN] : f.open => f.lines # <<>> /\ f.lines[Len(f.lines)] # 0}
SomeUnsorted == SeqOf(SomeTexts, 2)

\* Bytes of two bits.
SomePlains     == {<<{}, {0}, {1}>>, <<{0, 1}, {0, 1}, {0}>>}
SomeKeyStreams == {<<{0}, {1}, {0, 1}>>, <<{}, {0, 1}, {0}>>}

\* Four people: one committed for others, one has a name of three words, and one a name
\* that is first in small letters and last as it is.
Ann  == [id |-> "ann", n |-> 1, exact |-> 4, lower |-> 1]
Anna == [id |-> "Anna Maria Lopez", n |-> 3, exact |-> 1, lower |-> 2]
Bob  == [id |-> "Bob B", n |-> 2, exact |-> 2, lower |-> 3]
Eve  == [id |-> "Eve", n |-> 1, exact |-> 3, lower |-> 4]
Commits == "a" :> [author |-> Ann, committer |-> Ann] @@ "b" :> [author |-> Bob, committer |-> Ann]
           @@ "c" :> [author |-> Bob, committer |-> Bob] @@ "d" :> [author |-> Anna, committer |-> Ann]
           @@ "e" :> [author |-> Eve, committer |-> Bob]
Blamed  == {<<>>, <<"a">>, <<"b", "b", "a", "b">>, <<"c", "a", "a", "e">>, <<"a", "d", "c">>}
Source(n, ext, blamed) == [name |-> n, ext |-> ext, blamed |-> blamed, empty |-> "b", bad |-> FALSE]
Sources == {<<Source(1, ".go", x), Source(2, ".h", y), [Source(3, ".md", z) EXCEPT !.bad = (z # <<"c", "c">>)]>> :
              x, y \in Blamed, z \in {<<>>, <<"a">>, <<"c", "c">>}}
Default == [orderBy |-> "lines", format |-> "tabular", useCommitter |-> FALSE, exts |-> <<>>, langs |-> <<>>, exclude |-> <<>>, restrict |-> <<>>]
FlagSets == {Default, [Default EXCEPT !.orderBy = "commits", !.useCommitter = TRUE], [Default EXCEPT !.orderBy = "files", !.format = "json"],
             [Default EXCEPT !.format = "xml"], [Default EXCEPT !.exts = <<<<".go">>, <<>>, <<".md">>>>], [Default EXCEPT !.langs = <<<<"C">>, <<"D">>>>], [Default EXCEPT !.langs = <<<<"D">>>>],
             [Default EXCEPT !.exclude = <<<<{1}>>, <<{2, 3}>>>>], [Default EXCEPT !.restrict = <<<<{1, 2}>>, <<{}>>>>, !.exclude = <<<<{2}>>>>],
             [Default EXCEPT !.restrict = <<<<>>, <<>>>>]}
Languages == <<[name |-> "C", exts |-> {".c", ".h"}], [name |-> "Go", exts |-> {".go"}], [name |-> "C++", exts |-> {".h"}]>>

\* Fields with a tag, of the same name, slices and not, and requests that fit or do not.
Field(name, tag, kind, slice) == [name |-> name, tag |-> tag, kind |-> kind, slice |-> slice]
SomeStructs == {<<Field("a", "", "int", FALSE), Field("b", "x", "string", TRUE), Field("c", "", "bool", TRUE)>>,
                <<Field("a", "", "string", FALSE), Field("b", "a", "int", TRUE), Field("c", "b", "bool", FALSE)>>}
Given   == SeqOf({"1", "true", "word"}, 2)
SomeForms == UNION {[S -> Given] : S \in {{}, {"a", "x"}, {"a", "b"}, {"b", "c"}}}

Ks         == {-1000, 0, 1, 2, 31}
Times      == {[valid |-> TRUE, symbols |-> <<"2", "3", ":", "5", "9", ":", "4", "7">>],
               [valid |-> TRUE, symbols |-> <<"0", "1", ":", "5", "8", ":", "0", "6">>],
               [valid |-> FALSE, symbols |-> <<"2", "5", ":", "0", "0", ":", "0", "0">>]}

-----------------------------------------------------------------------------
Fame      == INSTANCE GitFame WITH Repos <- Sources, Flags <- FlagSets, LangDefs <- Languages, pc <- v1, repo <- v2,
                                   flags <- v3, files <- v4, i <- v5, chunks <- v6, stats <- v7, printed <- v8
Clock     == INSTANCE DigitalClock WITH pc <- v1, k <- v2, time <- v3, code <- v4, symbols <- v5, w <- v6, h <- v7,
                                        cyan <- v8, offset <- v9, n <- v10
Small     == INSTANCE Exercises

\* Inputs of the programs that only compute.
Guests == {g \in [from : 1..4, to : 1..4] : g.from < g.to}
Pieces == {<<"a">>, <<"}">>, <<"{", "}">>, <<"{", "0", "}">>, <<"{", "2", "}">>}
Numbers == {s * (1000000 * a + 1000 * b + c) : s \in {1, -1}, a, b, c \in {0, 1, 19, 40, 100, 711}} \cup {-2000000000, 2147483647} \cup 0..120
Logs    == {[j \in 1..n |-> ToString(j)] : n \in {1, 9, 10, 11, 12}}
Inputs(kind) ==
  CASE kind = "courses" -> UNION {[S -> SeqOf(1..3, 2)] : S \in {1..3, {1, 2}}}
    [] kind = "guests" -> SeqOf(Guests, 3)
    [] kind = "lines" -> SeqOf([lines : SeqOf({"a", "b", ""}, 2) \ {<<>>}, ended : BOOLEAN], 2)
    [] kind = "map" -> [1..3 -> {"x", "y", "z"}]
    [] kind = "bytes" -> SeqOf(Small!Bytes, 5)
    [] kind = "format" -> SeqOf(Pieces, 4)
    [] kind = "number" -> Numbers
    [] kind = "letter" -> Small!Notifications(Logs)
    [] kind = "private" -> Courses

NoShortener == /\ pc = [p \in Procs |-> "absent"] /\ asked = [p \in Procs |-> Empty] /\ req = Whole(Empty)
               /\ mu = Free /\ urlToKey = NoMap /\ keyToURL = NoMap
               /\ key = asked /\ answer = [p \in Procs |-> NoAnswer]

InitProgram ==
  \/ part = "middleware" /\ Chain!Init /\ v11 = 0 /\ v12 = 0 /\ v13 = 0
  \/ part = "firewall" /\ Wall!Init /\ v9 = 0 /\ v10 = 0 /\ v11 = 0 /\ v12 = 0 /\ v13 = 0
  \/ part = "grade" /\ Tool!Init /\ v10 = 0 /\ v11 = 0 /\ v12 = 0 /\ v13 = 0
  \/ part = "export" /\ Exporter!Init
  \/ part = "submission" /\ Checker!Init /\ v12 = 0 /\ v13 = 0
  \/ part = "forth" /\ Words!Init /\ v5 = 0 /\ v6 = 0 /\ v7 = 0 /\ v8 = 0 /\ v9 = 0 /\ v10 = 0 /\ v11 = 0 /\ v12 = 0 /\ v13 = 0
  \/ part = "sort" /\ Sorter!Init /\ v12 = 0 /\ v13 = 0
  \/ part = "lru" /\ Lru!Init /\ v6 = 0 /\ v7 = 0 /\ v8 = 0 /\ v9 = 0 /\ v10 = 0 /\ v11 = 0 /\ v12 = 0 /\ v13 = 0
  \/ part = "image" /\ Fame!InitInImage /\ v9 = 0 /\ v10 = 0 /\ v11 = 0 /\ v12 = 0 /\ v13 = 0
  \/ part = "gitfame" /\ Fame!Init /\ v9 = 0 /\ v10 = 0 /\ v11 = 0 /\ v12 = 0 /\ v13 = 0
  \/ part = "clock" /\ Clock!Init /\ v11 = 0 /\ v12 = 0 /\ v13 = 0
  \/ part = "cipher" /\ Otp!Init /\ v9 = 0 /\ v10 = 0 /\ v11 = 0 /\ v12 = 0 /\ v13 = 0
  \/ part = "reflect" /\ Tags!Init /\ v7 = 0 /\ v8 = 0 /\ v9 = 0 /\ v10 = 0 /\ v11 = 0 /\ v12 = 0 /\ v13 = 0
  \/ /\ part \in {"courses", "guests", "lines", "map", "bytes", "format", "number", "letter", "private"} /\ v1 \in Inputs(part)
     /\ v2 = 0 /\ v3 = 0 /\ v4 = 0 /\ v5 = 0 /\ v6 = 0 /\ v7 = 0 /\ v8 = 0 /\ v9 = 0 /\ v10 = 0 /\ v11 = 0 /\ v12 = 0 /\ v13 = 0

InitAll == \/ part = "shortener" /\ Init /\ v1 = 0 /\ v2 = 0 /\ v3 = 0 /\ v4 = 0 /\ v5 = 0 /\ v6 = 0 /\ v7 = 0 /\ v8 = 0 /\ v9 = 0 /\ v10 = 0 /\ v11 = 0 /\ v12 = 0 /\ v13 = 0
           \/ NoShortener /\ InitProgram

NextProgram ==
  /\ UNCHANGED <<part, vars>>
  /\ \/ part = "middleware" /\ Chain!Next /\ UNCHANGED <<v11, v12, v13>>
     \/ part = "firewall" /\ Wall!Next /\ UNCHANGED <<v9, v10, v11, v12, v13>>
     \/ part = "grade" /\ Tool!Next /\ UNCHANGED <<v10, v11, v12, v13>>
     \/ part = "export" /\ Exporter!Next
     \/ part = "submission" /\ Checker!Next /\ UNCHANGED <<v12, v13>>
     \/ part = "forth" /\ Words!Next /\ UNCHANGED <<v5, v6, v7, v8, v9, v10, v11, v12, v13>>
     \/ part = "sort" /\ Sorter!Next /\ UNCHANGED <<v12, v13>>
     \/ part = "lru" /\ Lru!Next /\ UNCHANGED <<v6, v7, v8, v9, v10, v11, v12, v13>>
     \/ part = "image" /\ Fame!NextInImage /\ UNCHANGED <<v9, v10, v11, v12, v13>>
     \/ part = "gitfame" /\ Fame!Next /\ UNCHANGED <<v9, v10, v11, v12, v13>>
     \/ part = "clock" /\ Clock!Next /\ UNCHANGED <<v11, v12, v13>>
     \/ part = "cipher" /\ Otp!Next /\ UNCHANGED <<v9, v10, v11, v12, v13>>
     \/ part = "reflect" /\ Tags!Next /\ UNCHANGED <<v7, v8, v9, v10, v11, v12, v13>>

NextAll == NextProgram \/ (part = "shortener" /\ Next /\ UNCHANGED <<part, vs>>)

SpecAll == InitAll /\ [][NextAll]_allVars

-----------------------------------------------------------------------------
\* GitFame and its image: the rows are those of the files wanted, in the order asked for.
CountsAreRight == part \in {"gitfame", "image"} => Fame!CountsAreRight
\* GitFame: every line of these files is counted for somebody.
EveryLineIsCounted == part = "gitfame" => Fame!EveryLineIsCounted

=============================================================================
