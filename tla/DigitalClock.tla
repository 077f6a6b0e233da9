----------------------------- MODULE DigitalClock -----------------------------
(***************************************************************************)
(* golang/http/digitalclock: a request for a picture of a time, in which   *)
(* every pixel of the symbols becomes a square of k by k.  A time is a     *)
(* sequence of symbols; rows and columns count from zero.                  *)
(***************************************************************************)
EXTENDS Integers, Sequences, SequencesExt, FiniteSetsExt

CONSTANTS Ks,     \* values of the parameter k; NoNumber where it is missing or none
          Times   \* values of the parameter time: [valid, symbols]; valid if time.Parse takes it

VARIABLES pc, k, time,
          code,      \* status of the response, 0 before there is one
          symbols,   \* what is drawn
          w, h,      \* size of the image
          cyan,      \* the pixels painted: <<x, y>>; all others are white
          offset, n  \* offsetX, and the symbol that is painted there

vars == <<pc, k, time, code, symbols, w, h, cyan, offset, n>>

NoNumber == -1000

\* symbols.go: two pixels thick, digits are made of segments: <<rows, columns>>.
Top == <<1..2, 1..6>>  Middle == <<5..6, 1..6>>  Bottom == <<9..10, 1..6>>
UpLeft == <<1..6, 1..2>>  UpRight == <<1..6, 5..6>>  LowLeft == <<5..10, 1..2>>  LowRight == <<5..10, 5..6>>
Segments(c) ==
  CASE c = "0" -> {Top, Bottom, UpLeft, UpRight, LowLeft, LowRight}
    [] c = "1" -> {UpRight, LowRight}
    [] c = "2" -> {Top, UpRight, Middle, LowLeft, Bottom}
    [] c = "3" -> {Top, UpRight, Middle, LowRight, Bottom}
    [] c = "4" -> {UpLeft, UpRight, Middle, LowRight}
    [] c = "5" -> {Top, UpLeft, Middle, LowRight, Bottom}
    [] c = "6" -> {Top, UpLeft, Middle, LowLeft, LowRight, Bottom}
    [] c = "7" -> {Top, UpRight, LowRight}
    [] c = "8" -> {Top, UpLeft, UpRight, Middle, LowLeft, LowRight, Bottom}
    [] c = "9" -> {Top, UpLeft, UpRight, Middle, LowRight}
    [] c = ":" -> {<<4..5, 1..2>>, <<7..8, 1..2>>}
Height   == 12
Width(c) == IF c = ":" THEN 4 ELSE 8
Lit(c)   == {<<x, y>> \in (0..Width(c) - 1) \X (0..Height - 1) : \E s \in Segments(c) : y \in s[1] /\ x \in s[2]}

\* What the zero time of package time reads, of as many symbols as all times here.
Midnight(s) == [j \in DOMAIN s |-> IF s[j] = ":" THEN ":" ELSE "0"]

Init ==
  /\ pc = "parse" /\ k \in Ks /\ time \in Times /\ code = 0 /\ symbols = <<>>
  /\ w = 0 /\ h = 0 /\ cyan = {} /\ offset = 0 /\ n = 1

Refuse == /\ pc = "parse" /\ k \notin 1..30 /\ code' = 400 /\ pc' = "over"
          /\ UNCHANGED <<k, time, symbols, w, h, cyan, offset, n>>

\* That the time does not parse is ignored: it reads as zero then, also when it is missing.
NewImage ==
  LET s == IF time.valid THEN time.symbols ELSE Midnight(time.symbols) IN
  /\ pc = "parse" /\ k \in 1..30 /\ pc' = "paint" /\ symbols' = s
  /\ w' = k * FoldLeft(LAMBDA sum, c : sum + Width(c), 0, s) /\ h' = k * Height
  /\ UNCHANGED <<k, time, code, cyan, offset, n>>

Paint ==
  /\ pc = "paint" /\ n <= Len(symbols) /\ n' = n + 1 /\ offset' = offset + Width(symbols[n]) * k
  /\ cyan' = cyan \cup {<<offset + p[1] * k + dx, p[2] * k + dy>> : p \in Lit(symbols[n]), dx \in 0..k - 1, dy \in 0..k - 1}
  /\ UNCHANGED <<pc, k, time, code, symbols, w, h>>

Encode == /\ pc = "paint" /\ n > Len(symbols) /\ code' = 200 /\ pc' = "over"
          /\ UNCHANGED <<k, time, symbols, w, h, cyan, offset, n>>

Next == Refuse \/ NewImage \/ Paint \/ Encode

Spec == Init /\ [][Next]_vars

-----------------------------------------------------------------------------
\* Column x of the symbols put side by side, unscaled: <<symbol, column in it>>.
Columns(s) == FlattenSeq([j \in DOMAIN s |-> [x \in 1..Width(s[j]) |-> <<s[j], x - 1>>]])

(***************************************************************************)
(* README.md: a k that is no number from 1 to 30 is refused, and for a     *)
(* valid time the picture is the symbols of that time side by side, k      *)
(* times as large, within its bounds.  Of a time that is not valid nothing *)
(* is said: README.md wants it refused, and the code draws midnight.       *)
(***************************************************************************)
PictureIsScaledTime ==
  LET columns == Columns(time.symbols) IN
  /\ pc = "over" /\ k \notin 1..30 => code = 400
  /\ pc = "over" /\ k \in 1..30 /\ time.valid =>
       /\ code = 200 /\ w = k * Len(columns) /\ h = k * Height
       /\ \A x \in 0..w - 1, y \in 0..h - 1 :
            LET col == columns[x \div k + 1] IN <<x, y>> \in cyan <=> <<col[2], y \div k>> \in Lit(col[1])
       /\ cyan \subseteq (0..w - 1) \X (0..h - 1)
=============================================================================
