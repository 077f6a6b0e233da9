------------------------------ MODULE Exercises ------------------------------
(***************************************************************************)
(* Programs without state of golang/basics, golang/interfaces and          *)
(* golang/helloworld, as operators: hogwarts (the order of courses),       *)
(* hotelbusiness (guests by day), wordcount, and those that turn a text    *)
(* into another: reverse and spacecollapse on UTF-8, varfmt, speller, and  *)
(* the letter of ciletters.                                                *)
(***************************************************************************)
EXTENDS Integers, Sequences, SequencesExt, FiniteSets, FiniteSetsExt

-----------------------------------------------------------------------------
\* hogwarts: prereqs maps some courses to the sequences of their prerequisites.
Named(prereqs) == DOMAIN prereqs \cup UNION {ToSet(prereqs[c]) : c \in DOMAIN prereqs}

\* Mutant: a course is done before its prerequisites.
RECURSIVE MutantDFS(_, _, _)
MutantDFS(course, prereqs, s) ==
  IF s.panic \/ s.node[course] # "white" THEN s
  ELSE FoldLeft(LAMBDA t, p : MutantDFS(p, prereqs, t),
                [s EXCEPT !.node[course] = "black", !.result = Append(@, course)],
                IF course \in DOMAIN prereqs THEN prereqs[course] ELSE <<>>)

RECURSIVE DFS(_, _, _)
DFS(course, prereqs, s) ==
  LET before == IF course \in DOMAIN prereqs THEN prereqs[course] ELSE <<>>
      t      == FoldLeft(LAMBDA x, p : DFS(p, prereqs, x), [s EXCEPT !.node[course] = "gray"], before)
  IN  IF s.panic \/ s.node[course] = "black" THEN s
      ELSE IF s.node[course] = "gray" THEN [s EXCEPT !.panic = TRUE]
      ELSE IF t.panic THEN t
      ELSE [t EXCEPT !.node[course] = "black", !.result = Append(@, course)]

\* The map is walked in an arbitrary order.
GetCourseList(prereqs, order) ==
  FoldLeft(LAMBDA s, c : IF s.panic \/ s.node[c] # "white" THEN s ELSE DFS(c, prereqs, s),
           [node |-> [c \in Named(prereqs) |-> "white"], result |-> <<>>, panic |-> FALSE], order)

\* The courses each course needs, directly or not.
RECURSIVE Needs(_)
Needs(edges) ==
  LET next == edges \cup UNION {{<<e[1], f[2]>> : f \in {g \in edges : g[1] = e[2]}} : e \in edges}
  IN  IF next = edges THEN edges ELSE Needs(next)
Edges(prereqs) == UNION {{<<c, d>> : d \in ToSet(prereqs[c])} : c \in DOMAIN prereqs}

(***************************************************************************)
(* README.md of hogwarts: every course comes after all that it needs, once *)
(* each; a circle of courses is a panic, and only that, in whatever order  *)
(* the courses are looked at.                                              *)
(***************************************************************************)
CoursesInOrder(prereqs) ==
  LET needs == Needs(Edges(prereqs)) IN
  \A order \in SetToSeqs(DOMAIN prereqs) :
    LET list == GetCourseList(prereqs, order) IN
    IF \E c \in Named(prereqs) : <<c, c>> \in needs THEN list.panic
    ELSE /\ ~list.panic /\ ToSet(list.result) = Named(prereqs) /\ IsInjective(list.result)
         /\ \A i, j \in DOMAIN list.result : <<list.result[i], list.result[j]>> \in needs => j < i

-----------------------------------------------------------------------------
\* hotelbusiness: guests are [from, to]; departures of a day come before arrivals.
Events(guests) ==
  SortSeq(FlattenSeq([i \in DOMAIN guests |-> <<[day |-> guests[i].from, diff |-> 1], [day |-> guests[i].to, diff |-> -1]>>]),
          LAMBDA a, b : a.day < b.day \/ (a.day = b.day /\ a.diff < b.diff))

\* Mutant: every event is reported.
MutantAfter(s, ev, i) ==
  LET cnt == s.cnt + ev[i].diff IN
  [cnt |-> cnt, old |-> cnt, load |-> Append(s.load, [start |-> ev[i].day, count |-> cnt])]
\* After event i: the day is reported when it is over and has changed the number.
After(s, ev, i) ==
  LET cnt == s.cnt + ev[i].diff IN
  IF (i < Len(ev) /\ ev[i + 1].day = ev[i].day) \/ cnt = s.old THEN [s EXCEPT !.cnt = cnt]
  ELSE [cnt |-> cnt, old |-> cnt, load |-> Append(s.load, [start |-> ev[i].day, count |-> cnt])]
ComputeLoad(guests) ==
  LET ev == Events(guests) IN
  FoldLeft(LAMBDA s, i : After(s, ev, i), [cnt |-> 0, old |-> 0, load |-> <<>>], [i \in DOMAIN ev |-> i]).load

\* README.md of hotelbusiness: the days on which the number of guests at dinner changes.
LoadIsRight(guests, days) ==
  LET At(d)    == Cardinality({i \in DOMAIN guests : guests[i].from <= d /\ d < guests[i].to})
      Changes  == {d \in days : At(d) # At(d - 1)}
      load     == ComputeLoad(guests)
  IN  /\ {load[i].start : i \in DOMAIN load} = Changes
      /\ \A i \in DOMAIN load : load[i].count = At(load[i].start) /\ (i > 1 => load[i - 1].start < load[i].start)

-----------------------------------------------------------------------------
\* wordcount: a file [lines, ended], ended when a line break follows the last line;
\* strings.Split then finds an empty line after it.
Pieces(f) == IF f.ended THEN Append(f.lines, "") ELSE f.lines
\* Mutant: the counts of a file replace those of the files before.
MutantWordCount(m, f) == [x \in DOMAIN m \cup ToSet(Pieces(f)) |-> Cardinality({i \in DOMAIN Pieces(f) : Pieces(f)[i] = x})]
WordCount(m, f) ==
  LET s == Pieces(f) IN
  [x \in DOMAIN m \cup ToSet(s) |-> (IF x \in DOMAIN m THEN m[x] ELSE 0) + Cardinality({i \in DOMAIN s : s[i] = x})]
Printed(files) ==
  LET m == FoldLeft(WordCount, [x \in {} |-> 0], files) IN {<<m[x], x>> : x \in {y \in DOMAIN m : m[y] >= 2}}

\* README.md of wordcount: the lines that all files together have at least twice, with
\* their numbers; what follows the last line break counts as an empty line.
DuplicatesAreCounted(files) ==
  LET all  == FlattenSeq([i \in DOMAIN files |-> files[i].lines])
      N(x) == Cardinality({i \in DOMAIN all : all[i] = x})
  IN  {p \in Printed(files) : p[2] # ""} = {<<N(x), x>> : x \in {y \in ToSet(all) : y # "" /\ N(y) >= 2}}

-----------------------------------------------------------------------------
\* UTF-8 (package unicode/utf8).  A byte is a letter "a", a space " ", the lead of two
\* or three bytes, or a continuation; two bytes make a letter and three a wide space.
Bytes   == {"a", " ", "lead2", "lead3", "more"}
Invalid == "U+FFFD"
Size(s) == CASE s[1] = "lead2" /\ Len(s) >= 2 /\ s[2] = "more" -> 2
             [] s[1] = "lead3" /\ Len(s) >= 3 /\ s[2] = "more" /\ s[3] = "more" -> 3
             [] OTHER -> 1
DecodeRune(s) ==
  [size |-> Size(s), rune |-> CASE Size(s) = 2 -> "letter" [] Size(s) = 3 -> "wide"
                                [] s[1] \in {"a", " "} -> s[1] [] OTHER -> Invalid]
\* From the last byte that may begin a rune; what ends before the end is not one.
DecodeLastRune(s) ==
  LET lasts == {i \in Max({1, Len(s) - 3})..Len(s) : s[i] # "more"}
      r     == DecodeRune(SubSeq(s, Max(lasts), Len(s)))
  IN  IF lasts # {} /\ Max(lasts) + r.size = Len(s) + 1 THEN r ELSE [size |-> 1, rune |-> Invalid]
RECURSIVE Runes(_)
Runes(s) == IF s = <<>> THEN <<>> ELSE <<DecodeRune(s).rune>> \o Runes(SubSeq(s, DecodeRune(s).size + 1, Len(s)))

\* Mutant: byte by byte.
MutantReverse(s) == [i \in DOMAIN s |-> DecodeRune(<<s[Len(s) + 1 - i]>>).rune]
RECURSIVE ReverseRunes(_)
ReverseRunes(s) ==
  IF s = <<>> THEN <<>>
  ELSE LET last == DecodeLastRune(s) IN <<last.rune>> \o ReverseRunes(SubSeq(s, 1, Len(s) - last.size))

IsSpace(r) == r \in {" ", "wide"}
CollapseSpaces(s) ==
  FoldLeft(LAMBDA t, r : IF ~IsSpace(r) THEN [out |-> Append(t.out, r), isPrevNotSpace |-> TRUE]
                         ELSE IF t.isPrevNotSpace THEN [out |-> Append(t.out, " "), isPrevNotSpace |-> FALSE] ELSE t,
           [out |-> <<>>, isPrevNotSpace |-> TRUE], Runes(s)).out

(***************************************************************************)
(* README.md of utf8: whatever the bytes, broken ones included, Reverse,   *)
(* which decodes from the end, finds the runes that decoding from the      *)
(* front finds; and CollapseSpaces puts one space for each run of spaces.  *)
(***************************************************************************)
RunesAreKept(s) ==
  LET runes == Runes(s) IN
  /\ ReverseRunes(s) = [i \in DOMAIN runes |-> runes[Len(runes) + 1 - i]]
  /\ CollapseSpaces(s) = FlattenSeq([i \in DOMAIN runes |->
       IF ~IsSpace(runes[i]) THEN <<runes[i]>> ELSE IF i > 1 /\ IsSpace(runes[i - 1]) THEN <<>> ELSE <<" ">>])

-----------------------------------------------------------------------------
\* varfmt: a format is a sequence of characters, an argument its text.
Panic  == <<"panic">>
Digit  == [c \in {"0", "1", "2"} |-> CASE c = "0" -> 0 [] c = "1" -> 1 [] OTHER -> 2]
Atoi(cs) == IF cs = <<>> \/ \E i \in DOMAIN cs : cs[i] \notin DOMAIN Digit THEN -1
            ELSE FoldLeft(LAMBDA n, c : 10 * n + Digit[c], 0, cs)

\* Mutant: counted from one.
MutantIndexOf(cs, cnt) == IF cs = <<>> THEN cnt + 1 ELSE Atoi(cs)
IndexOf(cs, cnt) == IF cs = <<>> THEN cnt ELSE Atoi(cs)
RECURSIVE Format(_, _, _)
Format(f, args, cnt) ==
  LET end == SelectInSeq(f, LAMBDA c : c = "}")
      arg == IndexOf(SubSeq(f, 2, end - 1), cnt)
      And(s, t) == IF t = Panic THEN Panic ELSE s \o t
  IN  IF f = <<>> THEN <<>>
      ELSE IF Head(f) # "{" THEN And(<<Head(f)>>, Format(Tail(f), args, cnt))
      ELSE IF end = 0 \/ arg < 0 \/ arg >= Len(args) THEN Panic
      ELSE And(args[arg + 1], Format(SubSeq(f, end + 1, Len(f)), args, cnt + 1))
Sprintf(f, args) == Format(f, args, 0)

\* README.md of varfmt: of a format put together from texts and placeholders, the i-th
\* placeholder without a number stands for argument i, all placeholders counted, and
\* one with a number for that argument.
PlaceholdersAreReplaced(pieces, args) ==
  LET isPlace(p) == p[1] = "{"
      Number(i)  == IF Len(pieces[i]) > 2 THEN Digit[pieces[i][2]] ELSE Len(SelectSeq(SubSeq(pieces, 1, i - 1), isPlace))
  IN  Sprintf(FlattenSeq(pieces), args) =
        IF \E i \in DOMAIN pieces : isPlace(pieces[i]) /\ Number(i) >= Len(args) THEN Panic
        ELSE FlattenSeq([i \in DOMAIN pieces |-> IF isPlace(pieces[i]) THEN args[Number(i) + 1] ELSE pieces[i]])

-----------------------------------------------------------------------------
\* speller: a text is the sequence of its words; a hyphen is one too.
ones  == <<"zero", "one", "two", "three", "four", "five", "six", "seven", "eight", "nine">>
teens == <<"ten", "eleven", "twelve", "thirteen", "fourteen", "fifteen", "sixteen", "seventeen", "eighteen", "nineteen">>
tensNames == <<"", "", "twenty", "thirty", "forty", "fifty", "sixty", "seventy", "eighty", "ninety">>

SpellUnder100(n) ==
  CASE n < 10 -> <<ones[n + 1]>>
    [] n \in 10..19 -> <<teens[n - 9]>>
    [] n >= 20 /\ n % 10 = 0 -> <<tensNames[n \div 10 + 1]>>
    [] OTHER -> <<tensNames[n \div 10 + 1], "-", ones[(n % 10) + 1]>>
SpellUnder1000(n) ==
  (IF n >= 100 THEN <<ones[n \div 100 + 1], "hundred">> ELSE <<>>)
  \o (IF n % 100 > 0 THEN SpellUnder100(n % 100) ELSE <<>>)
\* Mutant: a scale is named although there is nothing of it.
MutantScale(n, name) == Append(SpellUnder1000(n), name)
Scale(n, name) == IF n = 0 THEN <<>> ELSE Append(SpellUnder1000(n), name)
Spell(n) ==
  LET m == IF n < 0 THEN -n ELSE n IN
  IF n = 0 THEN <<"zero">>
  ELSE (IF n < 0 THEN <<"minus">> ELSE <<>>)
       \o Scale(m \div 1000000000, "billion") \o Scale((m % 1000000000) \div 1000000, "million")
       \o Scale((m % 1000000) \div 1000, "thousand") \o SpellUnder1000(m % 1000)

\* What the words of English mean.
Worth  == [zero |-> 0, one |-> 1, two |-> 2, three |-> 3, four |-> 4, five |-> 5, six |-> 6, seven |-> 7, eight |-> 8,
           nine |-> 9, ten |-> 10, eleven |-> 11, twelve |-> 12, thirteen |-> 13, fourteen |-> 14, fifteen |-> 15,
           sixteen |-> 16, seventeen |-> 17, eighteen |-> 18, nineteen |-> 19, twenty |-> 20, thirty |-> 30,
           forty |-> 40, fifty |-> 50, sixty |-> 60, seventy |-> 70, eighty |-> 80, ninety |-> 90]
Factor == [thousand |-> 1000, million |-> 1000000, billion |-> 1000000000]

(***************************************************************************)
(* README.md of speller: read aloud, the words make the number; zero is no *)
(* part of another number, a hyphen stands between tens and ones and only  *)
(* there, and a scale or a hundred follows the number it multiplies.       *)
(***************************************************************************)
SpellIsRead(n) ==
  LET ws == Spell(n)
      Hear(t, w) == CASE w \in DOMAIN Worth -> [t EXCEPT !.part = @ + Worth[w]]
                      [] w = "hundred" -> [t EXCEPT !.part = 100 * @]
                      [] w \in DOMAIN Factor -> [sum |-> t.sum + Factor[w] * t.part, part |-> 0]
                      [] OTHER -> t
      heard == FoldLeft(Hear, [sum |-> 0, part |-> 0], ws)
      Is(i, S) == i \in DOMAIN ws /\ ws[i] \in DOMAIN Worth /\ Worth[ws[i]] \in S
  IN  /\ (IF ws[1] = "minus" THEN -1 ELSE 1) * (heard.sum + heard.part) = n
      /\ \A i \in DOMAIN ws :
           /\ ws[i] = "zero" => Len(ws) = 1
           /\ ws[i] = "minus" => i = 1
           /\ ws[i] = "-" => Is(i - 1, 20..90) /\ Is(i + 1, 1..9)
           /\ Is(i, 0..90) => ~Is(i - 1, 0..90)
           /\ ws[i] = "hundred" => Is(i - 1, 1..9)
           /\ ws[i] \in DOMAIN Factor => Is(i - 1, 1..90) \/ (i > 1 /\ ws[i - 1] = "hundred")

-----------------------------------------------------------------------------
\* ciletters: a notification [status, jobs], each job [name, log]; a log is a sequence
\* of lines, one empty line if there are no more.
\* Mutant: the first ten lines.
MutantIndent(log) == SubSeq(log, 1, IF Len(log) > 10 THEN 10 ELSE Len(log))
Indent(log) == IF Len(log) > 10 THEN SubSeq(log, Len(log) - 9, Len(log)) ELSE log
\* type Notification: what is the same in every letter is left out.
Notifications(logs) ==
  [status : {"ok", "failed"}, jobs : SeqOf([name : {"lint"}, log : logs], 2)]

\* The lines of the letter; each job follows an empty line, the first one does not.
MakeLetter(n) ==
  <<IF n.status = "ok" THEN "passed" ELSE "has failed", "project", "branch", "hash", "author">>
  \o FlattenSeq([i \in DOMAIN n.jobs |-> (IF i = 1 THEN <<>> ELSE <<"">>) \o <<n.jobs[i].name>> \o Indent(n.jobs[i].log)])

\* README.md of ciletters: of every failed job the letter shows the end of its log, the
\* last line of which is the one above the next job.
LetterShowsTheEnds(n) ==
  LET letter == MakeLetter(n)
      At(i) == 6 + FoldLeft(LAMBDA sum, j : sum + 2 + (IF Len(j.log) > 10 THEN 10 ELSE Len(j.log)), 0, SubSeq(n.jobs, 1, i - 1))
  IN  \A i \in DOMAIN n.jobs :
        /\ letter[At(i)] = n.jobs[i].name
        /\ \A k \in 1..10 : k <= Len(n.jobs[i].log) => letter[At(i + 1) - 1 - k] = n.jobs[i].log[Len(n.jobs[i].log) + 1 - k]
=============================================================================
