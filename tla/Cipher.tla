-------------------------------- MODULE Cipher --------------------------------
(***************************************************************************)
(* golang/interfaces/otp/cipher.go: a writer that encrypts a stream and a  *)
(* reader that decrypts it, each with its own source of the same key       *)
(* stream.  A byte is the set of its bits that are one.  Calls hand over   *)
(* pieces of any length; the stream below takes or gives any part of a     *)
(* piece, and the user stops writing after an error.                       *)
(***************************************************************************)
EXTENDS Naturals, Sequences, SequencesExt

CONSTANTS Bits,          \* of a byte
          Plains, Keys   \* messages, and key streams as long as they are

CipherAssumption ==
  /\ Plains \subseteq Seq(SUBSET Bits) /\ Keys \subseteq Seq(SUBSET Bits)
  /\ \A p \in Plains, k \in Keys : Len(p) <= Len(k)

VARIABLES plain, key,
          sent,      \* bytes of plain given to Write
          used,      \* bytes of the key stream the writer has taken
          stream,    \* what the stream below has got
          failed,    \* it has refused a part
          got,       \* what Read has returned so far
          taken      \* bytes of the key stream the reader has taken

vars == <<plain, key, sent, used, stream, failed, got, taken>>

Init ==
  /\ plain \in Plains /\ key \in Keys /\ sent = 0 /\ used = 0 /\ stream = <<>>
  /\ failed = FALSE /\ got = <<>> /\ taken = 0

\* Exclusive or.
Xor(x, y) == (x \ y) \cup (y \ x)

\* n bytes from position at, with the bytes of the key from position from.
\* Mutant: each call begins the key stream anew.
MutantApply(bytes, from) == [i \in DOMAIN bytes |-> Xor(bytes[i], key[i])]
Apply(bytes, from) == [i \in DOMAIN bytes |-> Xor(bytes[i], key[from + i])]

\* Write encrypts a copy of all it is given; the stream below may take less of it.
Write == \E n \in 1..Len(plain) - sent :
  LET buf == Apply(SubSeq(plain, sent + 1, sent + n), used) IN
  \E m \in 0..n :
    /\ ~failed /\ failed' = (m < n) /\ stream' = stream \o SubSeq(buf, 1, m)
    /\ sent' = sent + n /\ used' = used + n /\ UNCHANGED <<plain, key, got, taken>>

\* Read takes as many bytes of the key as the stream below gave it, which may be none.
Read == \E n \in 0..Len(stream) - Len(got) :
  /\ got' = got \o Apply(SubSeq(stream, Len(got) + 1, Len(got) + n), taken)
  /\ taken' = taken + n /\ UNCHANGED <<plain, key, sent, used, stream, failed>>

Next == Write \/ Read

Spec == Init /\ [][Next]_vars

-----------------------------------------------------------------------------
(***************************************************************************)
(* README.md of otp: what is read is what was written, however the calls   *)
(* cut it up, and up to where the stream below stopped.                    *)
(***************************************************************************)
ReadsWhatWasWritten == IsPrefix(got, plain) /\ (~failed => Len(stream) = sent)
=============================================================================
