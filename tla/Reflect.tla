------------------------------- MODULE Reflect -------------------------------
(***************************************************************************)
(* golang/reflect: structtags fills the fields of a struct from the        *)
(* parameters of a request; reversemap turns a map round.  Go walks maps   *)
(* in an arbitrary order.                                                  *)
(***************************************************************************)
EXTENDS Integers, Sequences, SequencesExt, Functions, FiniteSets

CONSTANTS Structs,  \* sequences of fields [name, tag, kind, slice]
          Forms,    \* name -> sequence of values
          Ints, Bools  \* the values strconv takes for integers, and for booleans

NoName == ""   \* no tag, no parameter

\* A Go field has a name.
ReflectAssumption ==
  /\ \A s \in Structs : s \in Seq([name : STRING \ {NoName}, tag : STRING, kind : STRING, slice : BOOLEAN])
  /\ \A f \in Forms : \A name \in DOMAIN f : f[name] \in Seq(STRING)

VARIABLES struct, form, left,  \* left: names of form that are still to come
          value,               \* of each field: the values it holds, one or none unless it is a slice
          error,               \* the name Unpack stopped at, NoName when there is none
          done

vars == <<struct, form, left, value, error, done>>

Init ==
  /\ struct \in Structs /\ form \in Forms /\ left = DOMAIN form
  /\ value = [i \in DOMAIN struct |-> <<>>] /\ error = NoName /\ done = FALSE

\* The tag, else the name in small letters; the last field of a name is the one meant.
NameOf(f) == IF f.tag # NoName THEN f.tag ELSE f.name
\* Mutant: a field with a tag is known by its name too.
MutantField(name) == SelectLastInSeq(struct, LAMBDA f : f.name = name \/ f.tag = name)
Field(name) == SelectLastInSeq(struct, LAMBDA f : NameOf(f) = name)

\* populate takes the value, or is an error.
Takes(kind, x) == kind = "string" \/ (kind = "int" /\ x \in Ints) \/ (kind = "bool" /\ x \in Bools)

\* The values of one name, up to the first that is an error.  A field that is no
\* slice keeps the last.
Fill(name) ==
  LET i    == Field(name)
      f    == struct[i]
      xs   == form[name]
      bad  == SelectInSeq(xs, LAMBDA x : ~Takes(f.kind, x))
      good == IF bad = 0 THEN xs ELSE SubSeq(xs, 1, bad - 1)
      kept == IF f.slice THEN value[i] \o good ELSE IF good = <<>> THEN value[i] ELSE <<good[Len(good)]>>
  IN  /\ value' = [value EXCEPT ![i] = kept]
      /\ error' = (IF bad = 0 THEN NoName ELSE name) /\ done' = (bad # 0)

UnpackNext == \E name \in left :
  /\ ~done /\ left' = left \ {name} /\ UNCHANGED <<struct, form>>
  /\ IF Field(name) = 0 THEN UNCHANGED <<value, error, done>> ELSE Fill(name)

Return == left = {} /\ ~done /\ done' = TRUE /\ UNCHANGED <<struct, form, left, value, error>>

\* ParseForm may fail; nothing is filled then.
ParseFails == left = DOMAIN form /\ ~done /\ done' = TRUE /\ error' = "form" /\ UNCHANGED <<struct, form, left, value>>

Next == UnpackNext \/ Return \/ ParseFails

Spec == Init /\ [][Next]_vars

-----------------------------------------------------------------------------
\* What the parameters say of field i, in whatever order they come.
Said(i) ==
  LET f  == struct[i]
      xs == IF NameOf(f) \in DOMAIN form THEN form[NameOf(f)] ELSE <<>>
  IN  IF \E j \in DOMAIN struct : j > i /\ NameOf(struct[j]) = NameOf(f) THEN <<>>
      ELSE IF f.slice \/ xs = <<>> THEN xs ELSE <<xs[Len(xs)]>>
Convertible == \A i \in DOMAIN struct : \A j \in DOMAIN Said(i) :
  NameOf(struct[i]) \in DOMAIN form => \A x \in ToSet(form[NameOf(struct[i])]) : Takes(struct[i].kind, x)

(***************************************************************************)
(* Unpack without an error has filled every field with what the request    *)
(* says of it, whatever the order; it is an error exactly when some value  *)
(* does not fit, and then nothing is in a field that does not belong there.*)
(***************************************************************************)
FieldsAreFilled ==
  /\ done /\ error = NoName => Convertible /\ \A i \in DOMAIN struct : value[i] = Said(i)
  /\ done /\ error \notin {NoName, "form"} => ~Convertible
  /\ \A i \in DOMAIN struct : \A x \in ToSet(value[i]) :
       Takes(struct[i].kind, x) /\ NameOf(struct[i]) \in DOMAIN form /\ x \in ToSet(form[NameOf(struct[i])])

-----------------------------------------------------------------------------
\* ReverseMap: SetMapIndex for each key in some order; of several keys with one value
\* the last wins.
ReverseMap(m, order) == [x \in ToSet([i \in DOMAIN order |-> m[order[i]]]) |-> order[SelectLastInSeq(order, LAMBDA k : m[k] = x)]]

\* README.md of reversemap: distinct values lead back to their keys.
ReversedTwiceIsTheSame(m) == \A order \in SetToSeqs(DOMAIN m) :
  /\ IsInjective(m) => \A k \in DOMAIN m : ReverseMap(m, order)[m[k]] = k
  /\ DOMAIN ReverseMap(m, order) = {m[k] : k \in DOMAIN m}
  /\ \A x \in DOMAIN ReverseMap(m, order) : m[ReverseMap(m, order)[x]] = x
=============================================================================
