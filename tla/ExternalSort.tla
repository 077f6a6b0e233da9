----------------------------- MODULE ExternalSort -----------------------------
(***************************************************************************)
(* golang/interfaces/externalsort/sort.go: Sort sorts each file in place   *)
(* and merges the files line by line, with a heap that holds the next line *)
(* of each.  A file is the sequence of its lines, which are numbers; line  *)
(* 0 is the empty one.  Whether the last line of a file ends with a line   *)
(* break decides whether ReadLine returns it with an error.  Any error of  *)
(* a read is taken for the end of the file.                                *)
(***************************************************************************)
EXTENDS Naturals, Sequences, Functions

CONSTANTS Inputs,     \* contents of the files: sequences of [lines, open]
          Fragments   \* what the beginning or the rest of a line may be

\* Only a line that is not empty can be unfinished.
ExternalSortAssumption ==
  /\ \A input \in Inputs : /\ input \in Seq([lines : Seq(Nat), open : BOOLEAN])
                            /\ \A f \in DOMAIN input : LET last == Len(input[f].lines) IN
                                 input[f].open => last > 0 /\ input[f].lines[last] # 0
  /\ Fragments \subseteq Nat

VARIABLES pc, i,           \* where Sort is, and at which file
          files,           \* the files: [lines, open], open when the last line has no line break
          lines, written,  \* the lines read and sorted, and how many of them are back in the file
          pos,             \* of each reader of Merge: lines read
          heap,            \* set of <<line, index of its reader>>
          out,             \* what was written to w
          origin,          \* history: the files at the start
          failed,          \* history: files of which a read failed; bound: one of each
          torn             \* readers whose next read begins inside a line

vars    == <<pc, i, files, lines, written, pos, heap, out, origin, failed, torn>>
merging == <<pos, heap, out, torn>>
history == <<origin, failed>>

Init ==
  /\ pc = "open" /\ i = 1 /\ origin \in Inputs /\ files = origin /\ lines = <<>> /\ written = 0
  /\ pos = [r \in DOMAIN files |-> 0] /\ heap = {} /\ out = <<>>
  /\ failed = {} /\ torn = {}

\* ReadLine after k lines of f: the line, and whether it comes with an error; after
\* the last one the empty line, with an error.
\* Mutant: an unfinished last line is thrown away.
MutantReadLine(f, k) ==
  IF k < Len(f.lines) /\ ~(f.open /\ k = Len(f.lines) - 1)
  THEN [line |-> f.lines[k + 1], err |-> FALSE] ELSE [line |-> 0, err |-> TRUE]
ReadLine(f, k) ==
  IF k < Len(f.lines) THEN [line |-> f.lines[k + 1], err |-> f.open /\ k = Len(f.lines) - 1]
                      ELSE [line |-> 0, err |-> TRUE]

\* Sort reads a whole file: the lines until the first error, whose line counts
\* unless it is empty.
ReadAll(f) ==
  LET n   == CHOOSE k \in 0..Len(f.lines) : ReadLine(f, k).err /\ \A j \in 0..k - 1 : ~ReadLine(f, j).err
      all == IF ReadLine(f, n).line = 0 THEN n ELSE n + 1
  IN  [k \in 1..all |-> ReadLine(f, k - 1).line]

\* sort.Strings: the same lines in order.
InOrder(s)     == \A a, b \in DOMAIN s : a < b => s[a] <= s[b]
SortStrings(s) == {t \in {[k \in DOMAIN s |-> s[b[k]]] : b \in Bijection(DOMAIN s, DOMAIN s)} : InOrder(t)}

\* Opening, creating and writing may fail, and Sort returns the error.
Fail == pc \in {"open", "create", "write", "merge"} /\ pc' = "error" /\ UNCHANGED <<i, files, lines, written, merging, history>>

\* A read that fails after k lines, and x of the next one, ends the file there.
ReadShort(f, k, x) == SubSeq(f.lines, 1, k) \o (IF x = 0 THEN <<>> ELSE <<x>>)

ReadFile ==
  /\ pc = "open" /\ i <= Len(files) /\ pc' = "create" /\ UNCHANGED <<i, files, written, merging, origin>>
  /\ \/ lines' \in SortStrings(ReadAll(files[i])) /\ UNCHANGED failed
     \/ /\ failed' = failed \cup {i}
        /\ \E k \in 0..Len(files[i].lines) - 1, x \in Fragments : lines' \in SortStrings(ReadShort(files[i], k, x))

\* os.Create empties the file.
Create ==
  /\ pc = "create" /\ pc' = "write" /\ files' = [files EXCEPT ![i] = [lines |-> <<>>, open |-> FALSE]]
  /\ written' = 0 /\ UNCHANGED <<i, lines, merging, history>>

\* Write: the line, then the line break; it may end between the two.
WriteLine ==
  LET more == Append(files[i].lines, lines[written + 1]) IN
  /\ pc = "write" /\ written < Len(lines) /\ UNCHANGED <<i, lines, merging, history>>
  /\ \/ files' = [files EXCEPT ![i].lines = more] /\ written' = written + 1 /\ UNCHANGED pc
     \/ /\ lines[written + 1] # 0 /\ files' = [files EXCEPT ![i] = [lines |-> more, open |-> TRUE]]
        /\ pc' = "error" /\ UNCHANGED written

NextFile ==
  /\ pc = "write" /\ written = Len(lines) /\ pc' = "open" /\ i' = i + 1
  /\ UNCHANGED <<files, lines, written, merging, history>>

\* The next line of reader r, or what is left of it, goes into the heap.
Refill(r, rest) ==
  LET next == ReadLine(files[r], pos[r]) IN
  /\ pos' = [pos EXCEPT ![r] = IF @ < Len(files[r].lines) THEN @ + 1 ELSE @]
  /\ \E x \in (IF r \in torn THEN Fragments ELSE {next.line}) :
        heap' = rest \cup (IF next.err /\ x = 0 THEN {} ELSE {<<x, r>>})
  /\ torn' = torn \ {r} /\ UNCHANGED failed

\* A read that fails: what there is of the line counts, and if it is nothing the reader
\* is not read again.
RefillFails(r, rest) ==
  /\ r \notin failed /\ pos[r] < Len(files[r].lines) /\ failed' = failed \cup {r} /\ UNCHANGED pos
  /\ \E x \in Fragments : /\ heap' = rest \cup (IF x = 0 THEN {} ELSE {<<x, r>>})
                          /\ torn' = IF x = 0 THEN torn ELSE torn \cup {r}

\* Merge: the first line of each reader.
Fill ==
  /\ pc = "open" /\ i > Len(files) /\ UNCHANGED <<files, lines, written, out, origin>>
  /\ IF i > 2 * Len(files) THEN pc' = "merge" /\ UNCHANGED <<i, pos, heap, torn, failed>>
     ELSE /\ i' = i + 1 /\ UNCHANGED pc
          /\ Refill(i - Len(files), heap) \/ RefillFails(i - Len(files), heap)

\* heap.Pop gives one of the smallest.
\* Mutant: a reader whose line is written is not read again.
MutantPop ==
  /\ pc = "merge" /\ UNCHANGED <<i, files, lines, written, pos, torn, pc, history>>
  /\ \E item \in heap : /\ \A x \in heap : item[1] <= x[1]
                        /\ out' = Append(out, item[1]) /\ heap' = heap \ {item}
Pop ==
  /\ pc = "merge" /\ UNCHANGED <<i, files, lines, written, pc, origin>>
  /\ \E item \in heap : /\ \A x \in heap : item[1] <= x[1]
                        /\ out' = Append(out, item[1])
                        /\ Refill(item[2], heap \ {item}) \/ RefillFails(item[2], heap \ {item})

Merged == pc = "merge" /\ heap = {} /\ pc' = "nil" /\ UNCHANGED <<i, files, lines, written, merging, history>>

Next == Fail \/ ReadFile \/ Create \/ WriteLine \/ NextFile \/ Fill \/ Pop \/ Merged

Spec == Init /\ [][Next]_vars

-----------------------------------------------------------------------------
\* s has the lines of t, each as often.
Permutes(s, t) == \E b \in Bijection(DOMAIN s, DOMAIN t) : \A k \in DOMAIN s : s[k] = t[b[k]]
\* Where the lines were at the start: <<file, line>>.
Places == UNION {{f} \X DOMAIN origin[f].lines : f \in DOMAIN origin}

(***************************************************************************)
(* README.md of externalsort: all lines come out, in order, an unfinished  *)
(* last line too.  At any moment no line is lost that Sort has not to      *)
(* write back yet, also when it fails half-way, and what is out is sorted  *)
(* and not above what is still in the heap.  All this where no read fails: *)
(* one that does is taken for the end of the file, and lines get lost.     *)
(***************************************************************************)
SortedAndComplete == failed = {} =>
  /\ pc = "nil" => \E b \in Bijection(DOMAIN out, Places) :
                      \A a \in DOMAIN out : out[a] = origin[b[a][1]].lines[b[a][2]]
  /\ InOrder(out) /\ \A a \in DOMAIN out : \A x \in heap : out[a] <= x[1]
  /\ \A f \in DOMAIN files : i # f \/ pc \notin {"write", "error"} => Permutes(files[f].lines, origin[f].lines)
=============================================================================
