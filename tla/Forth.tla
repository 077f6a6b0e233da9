-------------------------------- MODULE Forth --------------------------------
(***************************************************************************)
(* golang/basics/forth/eval.go and main.go: a line evaluates words on a    *)
(* stack or defines a new word, whose body is bound to instructions then   *)
(* and there.  A line is its sequence of lower-case tokens; an instruction *)
(* is a number or the name of an operation of the table builtins.          *)
(***************************************************************************)
EXTENDS Integers, Sequences, SequencesExt, TLC

CONSTANTS Lines,     \* what a user may type
          Width,     \* bits of an integer
          MaxLines   \* bound: lines typed

\* What main reads: an input that has ended reads as the empty line, for ever.
Typed == Lines \cup {<<"">>}

ForthAssumption == \A line \in Typed : line \in Seq(STRING) /\ line # <<>>

VARIABLES stack, words,  \* the evaluator
          out,           \* what Process came to, "exit" after the command bye
          log            \* history: the definitions made, with their tokens

vars == <<stack, words, out, log>>

Init == stack = <<>> /\ words = [w \in {} |-> <<>>] /\ out = "start" /\ log = <<>>

\* strconv.Atoi; other strings are no numbers.
Atoi     == "0" :> 0 @@ "1" :> 1 @@ "2" :> 2
IsNumber(t) == t \in DOMAIN Atoi
Builtins == {"+", "-", "*", "/", "dup", "drop", "swap", "over"}

-----------------------------------------------------------------------------
\* Integers of Go: what does not fit is cut off, and division rounds to zero.
Wrap(x) == ((x + 2 ^ (Width - 1)) % 2 ^ Width) - 2 ^ (Width - 1)
Quotient(a, b) ==
  LET Abs(x) == IF x < 0 THEN -x ELSE x
      q == Abs(a) \div Abs(b)
  IN  IF (a < 0) = (b < 0) THEN q ELSE -q

\* pop and push: n numbers are taken off, and new ones put on.
PopPush(s, n, new) == SubSeq(s, 1, Len(s) - n) \o new

\* One instruction, on r = [stack, ok]; after an error nothing more happens, but what
\* was popped is gone.
Execute(r, op) ==
  LET s    == r.stack
      n    == Len(s)
      Done(taken, new) == [stack |-> PopPush(s, taken, new), ok |-> TRUE]
      a    == s[n - 1]
      b    == s[n]
  IN  IF ~r.ok THEN r
      ELSE IF IsNumber(op) THEN Done(0, <<Atoi[op]>>)
      ELSE IF n < (IF op \in {"dup", "drop"} THEN 1 ELSE 2) THEN [r EXCEPT !.ok = FALSE]
      ELSE CASE op = "+" -> Done(2, <<Wrap(a + b)>>)
             [] op = "-" -> Done(2, <<Wrap(a - b)>>)
             [] op = "*" -> Done(2, <<Wrap(a * b)>>)
             [] op = "/" -> IF b = 0 THEN [stack |-> PopPush(s, 1, <<>>), ok |-> FALSE]
                                     ELSE Done(2, <<Wrap(Quotient(a, b))>>)
             [] op = "dup"  -> Done(0, <<b>>)
             [] op = "drop" -> Done(1, <<>>)
             [] op = "swap" -> Done(2, <<b, a>>)
             [] op = "over" -> Done(0, <<a>>)
RunAll(r, ops) == FoldLeft(Execute, r, ops)

\* A token of a line that is evaluated: a number, else a user's word, else an operation.
Evaluate(r, t) ==
  IF ~r.ok THEN r
  ELSE IF IsNumber(t) THEN Execute(r, t)
  ELSE IF t \in DOMAIN words THEN RunAll(r, words[t])
  ELSE IF t \in Builtins THEN Execute(r, t)
  ELSE [r EXCEPT !.ok = FALSE]

EvaluateLine(line) ==
  LET r == FoldLeft(Evaluate, [stack |-> stack, ok |-> TRUE], line)
  IN  stack' = r.stack /\ out' = (IF r.ok THEN "ok" ELSE "error") /\ UNCHANGED <<words, log>>

-----------------------------------------------------------------------------
\* makeDefinition: a token that is a user's word and an operation stands for both,
\* and one that is unknown for nothing.
\* Mutant: a token stands for itself, whatever it comes to mean.
MutantBind(t) == <<t>>
Bind(t) == IF IsNumber(t) THEN <<t>>
           ELSE (IF t \in DOMAIN words THEN words[t] ELSE <<>>) \o (IF t \in Builtins THEN <<t>> ELSE <<>>)
MakeDefinition(tokens) == FlattenSeq([i \in DOMAIN tokens |-> Bind(tokens[i])])

\* Lines that begin with a colon; without a semicolon the slice is out of range.
EndsDefinition(t) == t = ";"
Define(line) ==
  LET end  == SelectInSubSeq(line, 3, Len(line), EndsDefinition)
      body == SubSeq(line, 3, end - 1)
  IN  /\ UNCHANGED stack
      /\ IF Len(line) < 3 \/ IsNumber(line[2]) THEN out' = "error" /\ UNCHANGED <<words, log>>
         ELSE IF end = 0 THEN out' = "panic" /\ UNCHANGED <<words, log>>
         ELSE /\ out' = "ok" /\ log' = Append(log, [name |-> line[2], body |-> body])
              /\ words' = [w \in DOMAIN words \cup {line[2]} |->
                             IF w = line[2] THEN MakeDefinition(body) ELSE words[w]]

Process(line) == IF line[1] = ":" THEN Define(line) ELSE EvaluateLine(line)

Running == out \notin {"exit", "panic"}
ReadLine == Running /\ Len(log) < MaxLines /\ Len(stack) < MaxLines /\ \E line \in Typed : Process(line)
Bye      == Running /\ out' = "exit" /\ UNCHANGED <<stack, words, log>>

Next == ReadLine \/ Bye

Spec == Init /\ [][Next]_vars

-----------------------------------------------------------------------------
\* What a token meant when k definitions had been made: what the last of them under
\* that name was made of, each token as it stood before, or itself.
Meaning[k \in 0..Len(log)] == [t \in STRING |->
  LET earlier == {j \in 1..k : log[j].name = t}
      last    == CHOOSE j \in earlier : \A i \in earlier : i <= j
      body    == log[last].body
  IN  IF IsNumber(t) THEN <<t>>
      ELSE IF earlier # {} THEN FlattenSeq([i \in DOMAIN body |-> Meaning[last - 1][body[i]]])
      ELSE IF t \in Builtins THEN <<t>> ELSE <<>>]

\* Definition k uses an operation the user has redefined before.
Overrides(k) == \E t \in ToSet(log[k].body) \cap Builtins, j \in 1..k - 1 : log[j].name = t

(***************************************************************************)
(* Test "no redefinition": a word keeps the meaning its tokens had when it *)
(* was defined, whatever is redefined later, operations and itself         *)
(* included; as long as no redefined operation occurs in a definition.     *)
(***************************************************************************)
WordsKeepTheirMeaning ==
  (\A k \in DOMAIN log : ~Overrides(k)) => \A w \in DOMAIN words : words[w] = Meaning[Len(log)][w]
=============================================================================
