---------------------------- MODULE ServicesProofs ----------------------------
(* Proofs about the servers, the cache and the streams of MCServices, for  *)
(* any requests, rules, capacities, keys, files and messages.  They use of *)
(* a part only its own variables.                                          *)
EXTENDS MCServices, FiniteSetsExt, SequenceTheorems, FiniteSetTheorems, WellFoundedInduction, TLAPS

-----------------------------------------------------------------------------
\* Numbers and sequences.

\* A set of naturals that is not empty has a least element.  A proof by induction takes
\* the least number for which what it claims would fail.
LEMMA LeastOf == ASSUME NEW S \in SUBSET Nat, S # {} PROVE Min(S) \in S /\ \A n \in S : Min(S) <= n
<1>1. PICK z \in S : TRUE
  OBVIOUS
<1> DEFINE T == {0..n : n \in {k \in S : k <= z}}
<1>2. IsWellFoundedOn(StrictSubsetOrdering(0..z), SUBSET (0..z))
  <2>1. IsFiniteSet(0..z)
    BY FS_Interval
  <2>2. FiniteSubsetsOf(0..z) = SUBSET (0..z)
    BY <2>1, FS_FiniteSubsetsOfFinite
  <2>3. IsWellFoundedOn(StrictSubsetOrdering(0..z), FiniteSubsetsOf(0..z))
    BY FS_StrictSubsetOrderingWellFounded
  <2>4. QED BY <2>2, <2>3
<1>3. T # {} /\ T \subseteq SUBSET (0..z)
  BY <1>1
<1>4. PICK A \in T : \A B \in T : ~(<<B, A>> \in StrictSubsetOrdering(0..z))
  <2> HIDE DEF T
  <2>1. QED BY <1>2, <1>3, WFMin
<1>5. PICK m \in S : m <= z /\ A = 0..m
  BY <1>4
<1>6. \A n \in S : m <= n
  <2>1. SUFFICES ASSUME NEW n \in S, n < m PROVE FALSE
    BY <1>5
  <2>2. (0..n) \in T /\ n <= z
    BY <1>5, <2>1
  <2>3. (0..n) \in SUBSET (0..z) /\ A \in SUBSET (0..z) /\ 0..n \subseteq A /\ 0..n # A
    BY <1>3, <1>5, <2>1, <2>2
  <2>4. <<0..n, A>> \in StrictSubsetOrdering(0..z)
    BY <2>3 DEF StrictSubsetOrdering
  <2>5. QED BY <1>4, <2>2, <2>4
<1>7. QED BY <1>5, <1>6 DEF Min

\* A function on 1..n is a sequence of length n.
LEMMA FunctionIsSeq == ASSUME NEW S, NEW n \in Nat, NEW f \in [1..n -> S]
                       PROVE  f \in Seq(S) /\ Len(f) = n
<1>1. f \in Seq(S)
  BY SeqDef
<1>2. Len(f) \in Nat /\ 1..Len(f) = 1..n
  BY <1>1, LenProperties
<1>3. QED BY <1>1, <1>2

-----------------------------------------------------------------------------
\* UrlShortener.

UrlAnswers == [code : {0, 400, 404}] \cup [code : {302}, url : Strings]
             \cup [code : {200}, url : Strings, key : Keys \cup {Empty}]

UrlTypes ==
  /\ pc \in [Procs -> {"idle", "decoding", "lock", "fresh", "half", "reply", "over"}]
  /\ key \in [Procs -> Keys \cup {Empty}]
  /\ asked \in [Procs -> URLs \cup {Empty}] /\ req \in Strings
  /\ DOMAIN keyToURL \subseteq Keys
  /\ \A k \in DOMAIN keyToURL : keyToURL[k] \in Strings
  /\ DOMAIN urlToKey \subseteq Strings
  /\ \A u \in DOMAIN urlToKey : urlToKey[u] \in Keys
  /\ answer \in [Procs -> UrlAnswers]

\* Who is between FindsNone and StoreURL holds mu.
InSection == \A p \in Procs : pc[p] \in {"fresh", "half"} => mu = p

\* The keys of urlToKey are in keyToURL, but for the one that is being stored.
MapsAgree ==
  /\ mu = Free => \A u \in DOMAIN urlToKey : urlToKey[u] \in DOMAIN keyToURL
  /\ \A p \in Procs :
       /\ pc[p] = "fresh" => \A u \in DOMAIN urlToKey : urlToKey[u] \in DOMAIN keyToURL
       /\ pc[p] = "half"  => /\ key[p] \in Keys \ DOMAIN keyToURL
                             /\ \A u \in DOMAIN urlToKey : urlToKey[u] \in DOMAIN keyToURL \cup {key[p]}

\* A key that is or will be in a response redirects.
GivenWork == \A p \in Procs :
  /\ pc[p] = "reply" => key[p] \in DOMAIN keyToURL
  /\ Shortened(p) => answer[p].key \in DOMAIN keyToURL

UrlInv == UrlTypes /\ InSection /\ MapsAgree /\ GivenWork

LEMMA UrlInit == UrlShortenerAssumption /\ Init => UrlInv
BY DEF UrlShortenerAssumption, Init, UrlInv, UrlTypes, InSection, MapsAgree, GivenWork, Shortened,
       NoMap, NoAnswer, Whole, Strings, UrlAnswers

\* Put keeps the types of keys and values.
LEMMA PutTyped ==
  ASSUME NEW S, NEW T, NEW f, NEW x \in S, NEW y \in T,
         DOMAIN f \subseteq S, \A z \in DOMAIN f : f[z] \in T
  PROVE  /\ DOMAIN Put(f, x, y) \subseteq S
         /\ \A z \in DOMAIN Put(f, x, y) : Put(f, x, y)[z] \in T
BY DEF Put

LEMMA UrlNextTypes == UrlShortenerAssumption /\ UrlInv /\ [Next]_vars => UrlTypes'
<1> SUFFICES ASSUME UrlShortenerAssumption, UrlInv, [Next]_vars PROVE UrlTypes'
  OBVIOUS
<1> USE DEF UrlInv, UrlTypes, vars, maps
<1>1. ASSUME NEW p \in Procs, DecodeFails(p) PROVE UrlTypes'
  BY <1>1 DEF DecodeFails, Respond, Goto, UrlAnswers
<1>2. ASSUME NEW p \in Procs, DecodeNothing(p) PROVE UrlTypes'
  BY <1>2 DEF DecodeNothing, Goto
<1>3. ASSUME NEW p \in Procs, Decode(p) PROVE UrlTypes'
  <2>1. req' \in Strings
    BY <1>3 DEF Decode, Strings
  <2>2. QED BY <1>3, <2>1 DEF Decode, Goto
<1>4. ASSUME NEW p \in Procs, FindKey(p) PROVE UrlTypes'
  BY <1>4 DEF FindKey, Goto
<1>5. ASSUME NEW p \in Procs, FindsNone(p) PROVE UrlTypes'
  BY <1>5 DEF FindsNone, Goto
<1>6. ASSUME NEW p \in Procs, StoreKey(p) PROVE UrlTypes'
  <2>1. PICK k \in Keys \ DOMAIN keyToURL :
           key' = [key EXCEPT ![p] = k] /\ urlToKey' = Put(urlToKey, req, k)
    BY <1>6 DEF StoreKey
  <2>2. /\ DOMAIN urlToKey' \subseteq Strings
        /\ \A u \in DOMAIN urlToKey' : urlToKey'[u] \in Keys
    BY <2>1, PutTyped
  <2>3. QED BY <1>6, <2>1, <2>2 DEF StoreKey, Goto
<1>7. ASSUME NEW p \in Procs, StoreURL(p) PROVE UrlTypes'
  <2>1. key[p] \in Keys
    BY <1>7 DEF StoreURL, Goto, MapsAgree
  <2> DEFINE new == Put(keyToURL, key[p], req)
  <2>2. DOMAIN new \subseteq Keys /\ \A k \in DOMAIN new : new[k] \in Strings
    <3>1. /\ req \in Strings /\ DOMAIN keyToURL \subseteq Keys
          /\ \A k \in DOMAIN keyToURL : keyToURL[k] \in Strings
      OBVIOUS
    <3> HIDE DEF UrlInv, UrlTypes
    <3>2. QED BY <2>1, <3>1, PutTyped
  <2>3. keyToURL' = new
    BY <1>7 DEF StoreURL
  <2>4. QED BY <1>7, <2>2, <2>3 DEF StoreURL, Goto
<1>8. ASSUME NEW p \in Procs, Reply(p) PROVE UrlTypes'
  BY <1>8 DEF Reply, Respond, Goto, UrlAnswers
<1>9. ASSUME NEW p \in Procs, NEW k \in Keys, Go(p, k) PROVE UrlTypes'
  BY <1>9 DEF Go, Respond, Goto, UrlAnswers
<1>10. CASE UNCHANGED vars
  BY <1>10
<1>11. QED
  BY <1>1, <1>2, <1>3, <1>4, <1>5, <1>6, <1>7, <1>8, <1>9, <1>10 DEF Next

LEMMA UrlNext == UrlShortenerAssumption /\ UrlInv /\ [Next]_vars => UrlInv'
<1> SUFFICES ASSUME UrlShortenerAssumption, UrlInv, [Next]_vars PROVE UrlInv'
  OBVIOUS
<1>0. UrlTypes'
  BY UrlNextTypes
<1> USE DEF UrlShortenerAssumption, UrlInv, InSection, MapsAgree, GivenWork, Shortened, vars, maps
<1>1. ASSUME NEW p \in Procs,
             DecodeFails(p) \/ DecodeNothing(p) \/ Decode(p) \/ FindsNone(p) \/ \E k \in Keys : Go(p, k)
      PROVE  UrlInv'
  <2>1. UNCHANGED maps /\ UNCHANGED key
    BY <1>1 DEF DecodeFails, DecodeNothing, Decode, FindsNone, Go
  <2>2. InSection'
    BY <1>1 DEF DecodeFails, DecodeNothing, Decode, FindsNone, Go, Respond, Goto, UrlTypes
  <2>3. MapsAgree'
    BY <1>1, <2>1 DEF DecodeFails, DecodeNothing, Decode, FindsNone, Go, Respond, Goto, UrlTypes
  <2>4. GivenWork'
    BY <1>1, <2>1 DEF DecodeFails, DecodeNothing, Decode, FindsNone, Go, Respond, Goto, UrlTypes
  <2>5. QED BY <1>0, <2>2, <2>3, <2>4
<1>2. ASSUME NEW p \in Procs, FindKey(p) PROVE UrlInv'
  BY <1>0, <1>2 DEF FindKey, Goto, UrlTypes
<1>3. ASSUME NEW p \in Procs, StoreKey(p) PROVE UrlInv'
  <2>1. PICK k \in Keys \ DOMAIN keyToURL :
           key' = [key EXCEPT ![p] = k] /\ urlToKey' = Put(urlToKey, req, k)
    BY <1>3 DEF StoreKey
  <2>2. mu = p /\ mu' = p /\ p # Free
    BY <1>3 DEF StoreKey, Goto
  <2>3. \A u \in DOMAIN urlToKey' : urlToKey'[u] \in DOMAIN keyToURL \cup {k}
    BY <1>3, <2>1 DEF StoreKey, Goto, Put
  <2>4. InSection' /\ MapsAgree'
    BY <1>3, <2>1, <2>2, <2>3 DEF StoreKey, Goto, UrlTypes
  <2>5. GivenWork'
    BY <1>3, <2>1 DEF StoreKey, Goto, UrlTypes
  <2>6. QED BY <1>0, <2>4, <2>5
<1>4. ASSUME NEW p \in Procs, StoreURL(p) PROVE UrlInv'
  <2>1. DOMAIN keyToURL' = DOMAIN keyToURL \cup {key[p]}
    BY <1>4 DEF StoreURL, Put
  <2>2. \A q \in Procs \ {p} : pc[q] \notin {"fresh", "half"}
    BY <1>4 DEF StoreURL, Goto
  <2>3. \A u \in DOMAIN urlToKey : urlToKey[u] \in DOMAIN keyToURL'
    BY <1>4, <2>1 DEF StoreURL, Goto
  <2>4. InSection' /\ MapsAgree'
    BY <1>4, <2>2, <2>3 DEF StoreURL, Goto, UrlTypes
  <2>5. GivenWork'
    BY <1>4, <2>1 DEF StoreURL, Goto, UrlTypes
  <2>6. QED BY <1>0, <2>4, <2>5
<1>5. ASSUME NEW p \in Procs, Reply(p) PROVE UrlInv'
  BY <1>0, <1>5 DEF Reply, Respond, Goto, UrlTypes
<1>6. CASE UNCHANGED vars
  BY <1>0, <1>6
<1>7. QED
  BY <1>1, <1>2, <1>3, <1>4, <1>5, <1>6 DEF Next

\* No step takes a key away or gives it another target.
LEMMA StepKeepsKeys == UrlInv /\ UrlInv' /\ [Next]_vars => [KeepsKeys]_vars
<1> SUFFICES ASSUME UrlInv, UrlInv', Next PROVE KeepsKeys
  OBVIOUS
<1>1. \A k \in DOMAIN keyToURL : k \in DOMAIN keyToURL' /\ keyToURL'[k] = keyToURL[k]
  <2>1. ASSUME NEW p \in Procs, StoreURL(p)
        PROVE  \A k \in DOMAIN keyToURL : k \in DOMAIN keyToURL' /\ keyToURL'[k] = keyToURL[k]
    BY <2>1 DEF StoreURL, Goto, UrlInv, MapsAgree, Put
  <2>2. CASE keyToURL' = keyToURL
    BY <2>2
  <2>3. QED
    BY <2>1, <2>2 DEF Next, DecodeFails, DecodeNothing, Decode, FindKey, FindsNone, StoreKey, Reply, Go, maps
<1>2. mu' = Free => Range(urlToKey') \subseteq DOMAIN keyToURL'
  BY DEF UrlInv, MapsAgree, Range
<1>3. QED BY <1>1, <1>2 DEF KeepsKeys, UrlInv, GivenWork

(***************************************************************************)
(* Whatever requests run at once, a key that was handed out redirects from *)
(* then on, to the same target, and the two maps agree when mu is free.    *)
(***************************************************************************)
THEOREM ShortenedKeysWork == ASSUME UrlShortenerAssumption PROVE Spec => KeysAreForGood
<1>1. Init => UrlInv
  BY UrlInit
<1>2. UrlInv /\ [Next]_vars => UrlInv'
  BY UrlNext
<1>3. QED BY <1>1, <1>2, StepKeepsKeys, PTL DEF Spec, KeysAreForGood

-----------------------------------------------------------------------------
\* Middleware.  v1 is pc, v2 token, v3 id, v4 status, v5 pattern, v6 sent, v7 cnt, v8 log,
\* v9 metrics, v10 shown.

Started == {"auth", "handler", "gauge", "gauge panicking", "log", "log panicking"}
Answers == Codes \cup {401, 500}
LogLines == [id : Nat, msg : {"started", "finished", "panicked"}, status : Answers]

ChainTypes ==
  /\ v1 \in [Two -> {"new", "begin", "answered", "dropped"} \cup Started]
  /\ v2 \in [Two -> {"none", "invalid", "failing", "valid"}]
  /\ v3 \in [Two -> Nat] /\ v4 \in [Two -> Answers] /\ v5 \in [Two -> Chain!Routes]
  /\ v6 \in [Two -> Answers \cup {0}] /\ v7 \in Nat /\ v8 \in Seq(LogLines)
  /\ v9 \in [Chain!Routes -> Nat] /\ v10 \in [Chain!Routes -> Nat]

\* An id is that of one request, and no line has an id that is still to be taken.
IdsDiffer ==
  /\ \A p \in Two : v3[p] <= v7 /\ (v3[p] = 0 <=> v1[p] = "new")
  /\ \A p, q \in Two : v3[p] = v3[q] /\ v3[p] # 0 => p = q
  /\ \A k \in 1..Len(v8) : v8[k].id <= v7

\* How many lines a request has so far, and which.
HasLines(p) ==
  /\ v1[p] \in {"new", "begin"} => Chain!Lines(p) = {}
  /\ v1[p] \in Started => \E a \in DOMAIN v8 : Chain!Lines(p) = {a} /\ v8[a].msg = "started"
  /\ p \in Chain!Over => \E a, b \in DOMAIN v8 :
       /\ Chain!Lines(p) = {a, b} /\ a < b /\ v8[a].msg = "started"
       /\ v8[b].msg = IF v1[p] = "answered" THEN "finished" ELSE "panicked"
       /\ v1[p] = "answered" => v8[b].status = v6[p]

\* What requestlog believes was sent is what was sent, or will be.
StatusIsSent == \A p \in Two :
  /\ v4[p] = IF v6[p] = 0 THEN 200 ELSE v6[p]
  /\ v1[p] \in {"new", "begin", "auth"} => v6[p] = 0 /\ v5[p] = NoPattern

ChainInv == ChainTypes /\ IdsDiffer /\ (\A p \in Two : HasLines(p)) /\ StatusIsSent
            /\ Chain!CountedOnce /\ Chain!NobodyUnknown

LEMMA Steps == \A m, n \in Nat : n <= n /\ n + 1 \in Nat /\ (m <= n => m <= n + 1)
OBVIOUS

LEMMA LogIds == ChainTypes => DOMAIN v8 = 1..Len(v8) /\ \A k \in DOMAIN v8 : v8[k].id \in Nat
<1> SUFFICES ASSUME ChainTypes PROVE DOMAIN v8 = 1..Len(v8) /\ \A k \in DOMAIN v8 : v8[k].id \in Nat
  OBVIOUS
<1>1. DOMAIN v8 = 1..Len(v8) /\ \A k \in DOMAIN v8 : v8[k] \in LogLines
  BY DEF ChainTypes
<1>2. QED BY <1>1 DEF LogLines

\* The requests the gauge has counted under the route r.
CountedAs(r) == {q \in Chain!Over \cup Chain!At({"log", "log panicking"}) : v5[q] = r}

LEMMA ChainCardinality == ASSUME NEW S PROVE Chain!Cardinality(S) = Cardinality(S)
BY DEF Chain!Cardinality, Cardinality, Chain!IsFiniteSet, IsFiniteSet

LEMMA CountedIs == Chain!CountedOnce <=> \A r \in Chain!Routes : v9[r] = Cardinality(CountedAs(r)) /\ v10[r] <= v9[r]
<1>1. \A r : Chain!Cardinality(CountedAs(r)) = Cardinality(CountedAs(r))
  BY ChainCardinality
<1>2. Chain!CountedOnce <=> \A r \in Chain!Routes : v9[r] = Chain!Cardinality(CountedAs(r)) /\ v10[r] <= v9[r]
  BY DEF Chain!CountedOnce, CountedAs
<1>3. QED BY <1>1, <1>2

LEMMA ChainConstants == /\ IsFiniteSet(Two) /\ NoPattern \notin Patterns /\ 200 \in Codes
                        /\ 0 \notin Codes /\ 401 \notin Codes /\ 500 \notin Codes
BY ServicesAssumption DEF Chain!MiddlewareAssumption, Chain!IsFiniteSet, IsFiniteSet

LEMMA ChainInit == Chain!Init => ChainInv
<1> SUFFICES ASSUME Chain!Init PROVE ChainInv
  OBVIOUS
<1> USE DEF Chain!Init, Chain!All
<1>1. v8 \in Seq(LogLines) /\ Len(v8) = 0 /\ DOMAIN v8 = {}
  BY EmptySeq
<1>2. ChainTypes
  BY <1>1, ChainConstants DEF ChainTypes, Answers, Chain!Routes
<1>3. IdsDiffer
  BY <1>1 DEF IdsDiffer
<1>4. ASSUME NEW p \in Two PROVE HasLines(p)
  BY <1>1 DEF HasLines, Chain!Lines, Chain!Over, Chain!At, Started
<1>5. StatusIsSent
  BY DEF StatusIsSent
<1>6. Chain!CountedOnce
  <2>1. \A r \in Chain!Routes : CountedAs(r) = {}
    BY DEF CountedAs, Chain!Over, Chain!At
  <2>2. \A r \in Chain!Routes : v9[r] = 0 /\ v10[r] = 0
    OBVIOUS
  <2>3. ASSUME NEW r \in Chain!Routes PROVE v9[r] = Cardinality(CountedAs(r)) /\ v10[r] <= v9[r]
    <3>1. Cardinality(CountedAs(r)) = 0
      BY <2>1, FS_EmptySet
    <3>2. QED BY <2>2, <3>1
  <2>4. QED BY <2>3, CountedIs
<1>7. Chain!NobodyUnknown
  BY DEF Chain!NobodyUnknown
<1>8. QED BY <1>2, <1>3, <1>4, <1>5, <1>6, <1>7 DEF ChainInv

LEMMA OneMore == ASSUME NEW S \in SUBSET Two, NEW p, p \notin S PROVE Cardinality(S \cup {p}) = Cardinality(S) + 1
<1>1. IsFiniteSet(S)
  BY ChainConstants, FS_Subset
<1>2. QED BY <1>1, FS_AddElement

\* A line more in the log is one of its own request.
LEMMA LogGrows ==
  ASSUME ChainTypes, NEW l \in LogLines, v8' = Append(v8, l), v3' = v3
  PROVE  /\ v8' \in Seq(LogLines) /\ Len(v8') = Len(v8) + 1 /\ Len(v8) \in Nat
         /\ DOMAIN v8 = 1..Len(v8) /\ DOMAIN v8' = 1..Len(v8) + 1
         /\ v8'[Len(v8) + 1] = l /\ \A k \in DOMAIN v8 : v8'[k] = v8[k]
         /\ \A p \in Two : Chain!Lines(p)' = IF v3[p] # 0 /\ l.id = v3[p] THEN Chain!Lines(p) \cup {Len(v8) + 1}
                                                                       ELSE Chain!Lines(p)
<1>1. /\ v8' \in Seq(LogLines) /\ Len(v8') = Len(v8) + 1 /\ Len(v8) \in Nat
      /\ DOMAIN v8 = 1..Len(v8) /\ DOMAIN v8' = 1..Len(v8) + 1
      /\ v8'[Len(v8) + 1] = l /\ \A k \in DOMAIN v8 : v8'[k] = v8[k]
  BY SMTT(30) DEF ChainTypes
<1>2. PICK n \in Nat : n = Len(v8)
  BY <1>1
<1>3. DOMAIN v8' = DOMAIN v8 \cup {n + 1} /\ n + 1 \notin DOMAIN v8
  BY <1>1, <1>2
<1>4. QED BY <1>1, <1>2, <1>3 DEF Chain!Lines

\* What a step does not touch it does not change.
LEMMA SameLines ==
  ASSUME NEW p \in Two, HasLines(p), v8' = v8, v3'[p] = v3[p], v6'[p] = v6[p] \/ v1[p] # "answered",
         v1'[p] = v1[p] \/ (v1[p] \in Started /\ v1'[p] \in Started)
  PROVE  HasLines(p)'
BY DEF HasLines, Chain!Lines, Chain!Over, Chain!At, Started

\* A step that moves nobody to the log counts nobody.
LEMMA SameCount ==
  ASSUME Chain!CountedOnce, v9' = v9, v10' \in {v9, v10},
         v9 \in [Chain!Routes -> Nat], v10 \in [Chain!Routes -> Nat],
         \A p \in Two : v1'[p] \in {"answered", "dropped", "log", "log panicking"} <=> v1[p] \in {"answered", "dropped", "log", "log panicking"},
         \A p \in Two : v1[p] \in {"answered", "dropped", "log", "log panicking"} => v5'[p] = v5[p]
  PROVE  Chain!CountedOnce'
<1>1. \A r : CountedAs(r)' = CountedAs(r)
  BY DEF CountedAs, Chain!Over, Chain!At
<1>2. ASSUME NEW r \in Chain!Routes PROVE v9'[r] = Cardinality(CountedAs(r)) /\ v10'[r] <= v9'[r]
  <2>1. v9[r] = Cardinality(CountedAs(r)) /\ v10[r] <= v9[r]
    BY CountedIs
  <2>0. PICK n \in Nat, m \in Nat : n = v9[r] /\ m = v10[r]
    OBVIOUS
  <2>2. m <= n /\ (v10'[r] = m \/ v10'[r] = n)
    BY <2>0, <2>1
  <2>3. v9'[r] = n /\ v9'[r] = Cardinality(CountedAs(r))
    BY <2>0, <2>1
  <2>4. v10'[r] <= n
    BY <2>2, Steps
  <2>5. QED BY <2>3, <2>4
<1>3. (\A r \in Chain!Routes : v9[r] = Cardinality(CountedAs(r)) /\ v10[r] <= v9[r])'
  BY <1>1, <1>2 DEF Chain!Routes
<1>4. QED BY <1>3, CountedIs, PTL

LEMMA ChainStep ==
  ASSUME ChainInv, NEW p \in Two,
         \/ \E t \in {"none", "invalid", "failing", "valid"} : Chain!TakeId(p, t)
         \/ Chain!Reject(p) \/ \E r \in Patterns : Chain!Route(p, r)
         \/ \E c \in Codes : Chain!HandlerWrites(p, c)
         \/ Chain!HandlerReturns(p)
  PROVE  ChainInv'
<1> USE DEF ChainInv
<1>1. ASSUME NEW t \in {"none", "invalid", "failing", "valid"}, Chain!TakeId(p, t) PROVE ChainInv'
  <2> USE <1>1 DEF Chain!TakeId, Chain!Goto
  <2>1. ChainTypes'
    <3>1. v7 + 1 \in Nat /\ v7' = v7 + 1
      BY DEF ChainTypes
    <3>2. v3' \in [Two -> Nat] /\ v2' \in [Two -> {"none", "invalid", "failing", "valid"}]
      BY <3>1 DEF ChainTypes
    <3>3. QED BY <3>1, <3>2 DEF ChainTypes, Started, Chain!Routes
  <2>2. IdsDiffer'
    <3>1. v3' = [v3 EXCEPT ![p] = v7 + 1] /\ v7' = v7 + 1 /\ v7 \in Nat /\ v8' = v8
      BY DEF ChainTypes
    <3>2. \A k \in 1..Len(v8) : v8[k].id \in Nat
      BY LogIds
    <3>3. \A q \in Two : v3[q] \in Nat
      BY DEF ChainTypes
    <3>4. \A q \in Two : v3'[q] = (IF q = p THEN v7 + 1 ELSE v3[q]) /\ v1'[q] = (IF q = p THEN "begin" ELSE v1[q])
      BY DEF ChainTypes
    <3>5. QED BY <3>1, <3>2, <3>3, <3>4 DEF IdsDiffer
  <2>3. ASSUME NEW q \in Two PROVE HasLines(q)'
    <3>1. CASE q # p
      <4>1. v3'[q] = v3[q] /\ v6' = v6 /\ v8' = v8 /\ v1'[q] = v1[q]
        BY <3>1 DEF ChainTypes
      <4>2. QED BY <4>1, SameLines
    <3>2. CASE q = p
      <4>1. v3'[q] = v7 + 1 /\ v7 \in Nat /\ v1'[q] = "begin" /\ v8' = v8 /\ DOMAIN v8 = 1..Len(v8)
        BY <3>2 DEF ChainTypes
      <4>2. \A k \in DOMAIN v8 : v8[k].id \in Nat /\ v8[k].id <= v7
        BY <4>1, LogIds DEF IdsDiffer
      <4>3. Chain!Lines(q)' = {}
        BY <4>1, <4>2 DEF Chain!Lines
      <4>4. QED BY <4>1, <4>3 DEF HasLines, Started, Chain!Over, Chain!At
    <3>3. QED BY <3>1, <3>2
  <2>4. StatusIsSent'
    BY DEF ChainTypes, StatusIsSent
  <2>5. Chain!CountedOnce'
    BY SameCount DEF ChainTypes
  <2>6. Chain!NobodyUnknown'
    BY DEF ChainTypes, StatusIsSent, Chain!NobodyUnknown
  <2>7. QED BY <2>1, <2>2, <2>3, <2>4, <2>5, <2>6
<1>2. ASSUME Chain!Reject(p) PROVE ChainInv'
  <2> USE <1>2 DEF Chain!Reject, Chain!Goto, Chain!WriteHeader
  <2>1. ChainTypes'
    <3>1. \E c \in {401, 500} : v4' = [v4 EXCEPT ![p] = c] /\ v6' = [v6 EXCEPT ![p] = c]
      <4>1. CASE v2[p] = "failing"
        BY <4>1
      <4>2. CASE v2[p] # "failing"
        BY <4>2
      <4>3. QED BY <4>1, <4>2
    <3>2. v4' \in [Two -> Answers] /\ v6' \in [Two -> Answers \cup {0}]
      BY <3>1 DEF ChainTypes, Answers
    <3>3. v1' \in [Two -> {"new", "begin", "answered", "dropped"} \cup Started]
      BY DEF ChainTypes, Started
    <3>4. QED BY <3>2, <3>3 DEF ChainTypes, Chain!Routes
  <2>2. IdsDiffer'
    BY DEF ChainTypes, IdsDiffer
  <2>3. ASSUME NEW q \in Two PROVE HasLines(q)'
    BY SameLines DEF ChainTypes, Started
  <2>4. StatusIsSent'
    BY DEF ChainTypes, StatusIsSent
  <2>5. Chain!CountedOnce'
    BY SameCount DEF ChainTypes
  <2>6. Chain!NobodyUnknown'
    BY DEF ChainTypes, Chain!NobodyUnknown
  <2>7. QED BY <2>1, <2>2, <2>3, <2>4, <2>5, <2>6
<1>3. ASSUME NEW r \in Patterns, Chain!Route(p, r) PROVE ChainInv'
  <2> USE <1>3 DEF Chain!Route, Chain!Goto
  <2>1. ChainTypes'
    BY DEF ChainTypes, Started, Chain!Routes
  <2>2. IdsDiffer'
    BY DEF ChainTypes, IdsDiffer
  <2>3. ASSUME NEW q \in Two PROVE HasLines(q)'
    BY SameLines DEF ChainTypes, Started
  <2>4. StatusIsSent'
    BY DEF ChainTypes, StatusIsSent
  <2>5. Chain!CountedOnce'
    BY SameCount DEF ChainTypes
  <2>6. Chain!NobodyUnknown'
    BY DEF ChainTypes, Chain!NobodyUnknown
  <2>7. QED BY <2>1, <2>2, <2>3, <2>4, <2>5, <2>6
<1>4. ASSUME NEW c \in Codes, Chain!HandlerWrites(p, c) PROVE ChainInv'
  <2> USE <1>4 DEF Chain!HandlerWrites, Chain!WriteHeader
  <2>1. ChainTypes'
    BY DEF ChainTypes, Answers, Chain!Routes
  <2>2. IdsDiffer'
    BY DEF IdsDiffer
  <2>3. ASSUME NEW q \in Two PROVE HasLines(q)'
    BY SameLines DEF ChainTypes, Started
  <2>4. StatusIsSent'
    BY ChainConstants DEF ChainTypes, StatusIsSent
  <2>5. Chain!CountedOnce'
    BY SameCount DEF ChainTypes
  <2>6. Chain!NobodyUnknown'
    BY ChainConstants DEF ChainTypes, Chain!NobodyUnknown
  <2>7. QED BY <2>1, <2>2, <2>3, <2>4, <2>5, <2>6
<1>5. ASSUME Chain!HandlerReturns(p) PROVE ChainInv'
  <2> USE <1>5 DEF Chain!HandlerReturns, Chain!Goto
  <2>1. ChainTypes'
    BY DEF ChainTypes, Started, Chain!Routes
  <2>2. IdsDiffer'
    BY DEF ChainTypes, IdsDiffer
  <2>3. ASSUME NEW q \in Two PROVE HasLines(q)'
    BY SameLines DEF ChainTypes, Started
  <2>4. StatusIsSent'
    <3>1. v1' \in {[v1 EXCEPT ![p] = "gauge"], [v1 EXCEPT ![p] = "gauge panicking"]}
      OBVIOUS
    <3>2. \A q \in Two : v1'[q] \in {"new", "begin", "auth"} => v1[q] \in {"new", "begin", "auth"}
      BY <3>1 DEF ChainTypes
    <3>3. QED BY <3>2 DEF StatusIsSent
  <2>5. Chain!CountedOnce'
    BY SameCount DEF ChainTypes
  <2>6. Chain!NobodyUnknown'
    BY ZenonT(60) DEF ChainTypes, Chain!NobodyUnknown
  <2>7. QED BY <2>1, <2>2, <2>3, <2>4, <2>5, <2>6
<1>6. QED BY <1>1, <1>2, <1>3, <1>4, <1>5

\* The steps that write a line.
LEMMA ChainLogs ==
  ASSUME ChainInv, NEW p \in Two, Chain!Started(p) \/ Chain!Finished(p) \/ Chain!Panicked(p)
  PROVE  ChainInv'
<1> USE DEF ChainInv
<1>1. PICK msg \in {"started", "finished", "panicked"} :
        /\ v8' = Append(v8, [id |-> v3[p], msg |-> msg, status |-> v4[p]])
        /\ msg = IF v1[p] = "begin" THEN "started" ELSE IF v1[p] = "log" THEN "finished" ELSE "panicked"
  BY DEF Chain!Started, Chain!Finished, Chain!Panicked, Chain!Goto, Chain!Line
<1> DEFINE l == [id |-> v3[p], msg |-> msg, status |-> v4[p]]
<1>2. /\ UNCHANGED <<v2, v3, v4, v5, v7, v9, v10>>
      /\ v1' = [v1 EXCEPT ![p] = CASE v1[p] = "begin" -> "auth" [] v1[p] = "log" -> "answered" [] OTHER -> "dropped"]
      /\ v1[p] \in {"begin", "log", "log panicking"}
      /\ v6' = IF v1[p] = "log" /\ v6[p] = 0 THEN [v6 EXCEPT ![p] = 200] ELSE v6
  BY DEF Chain!Started, Chain!Finished, Chain!Panicked, Chain!Goto, ChainTypes
<1>3. l \in LogLines
  BY DEF ChainTypes, LogLines
<1>4. /\ v8' \in Seq(LogLines) /\ Len(v8') = Len(v8) + 1 /\ Len(v8) \in Nat
      /\ DOMAIN v8 = 1..Len(v8) /\ DOMAIN v8' = 1..Len(v8) + 1
      /\ v8'[Len(v8) + 1] = l /\ \A k \in DOMAIN v8 : v8'[k] = v8[k]
      /\ \A q \in Two : Chain!Lines(q)' = IF v3[q] # 0 /\ l.id = v3[q] THEN Chain!Lines(q) \cup {Len(v8) + 1}
                                                                    ELSE Chain!Lines(q)
  BY <1>1, <1>2, <1>3, LogGrows
<1>5. PICK n \in Nat : n = Len(v8)
  BY <1>4
<1>6. ChainTypes'
  <2>1. v1' \in [Two -> {"new", "begin", "answered", "dropped"} \cup Started]
    BY <1>2 DEF ChainTypes, Started
  <2>2. v6' \in [Two -> Answers \cup {0}]
    BY <1>2, ChainConstants, ZenonT(60) DEF ChainTypes, Answers
  <2>3. QED BY <1>2, <1>4, <2>1, <2>2 DEF ChainTypes, Chain!Routes
<1>7. IdsDiffer'
  <2>1. \A k \in 1..n + 1 : v8'[k].id <= v7
    BY <1>4, <1>5 DEF IdsDiffer
  <2>2. \A q \in Two : v1'[q] = "new" <=> v1[q] = "new"
    BY <1>2 DEF ChainTypes
  <2>3. QED BY <1>2, <1>4, <1>5, <2>1, <2>2 DEF IdsDiffer
<1>8. ASSUME NEW q \in Two PROVE HasLines(q)'
  <2>1. CASE q # p
    <3>1. v1'[q] = v1[q] /\ v6'[q] = v6[q] /\ v3[q] = v3[p] => v3[q] = 0
      BY <1>2, <2>1 DEF ChainTypes, IdsDiffer
    <3>2. v1'[q] = v1[q] /\ v6'[q] = v6[q]
      BY <1>2, <2>1 DEF ChainTypes
    <3>3. Chain!Lines(q)' = Chain!Lines(q)
      BY <1>4, <3>1, <3>2
    <3>4. DOMAIN v8 \subseteq DOMAIN v8'
      BY <1>4
    <3>5. QED BY <1>4, <3>2, <3>3, <3>4, SMTT(30) DEF HasLines, Chain!Over, Chain!At
  <2>2. CASE q = p
    <3>1. v3[p] # 0
      BY <1>2 DEF IdsDiffer
    <3>2. Chain!Lines(p)' = Chain!Lines(p) \cup {n + 1} /\ DOMAIN v8' = 1..n + 1 /\ DOMAIN v8 = 1..n /\ n + 1 \in DOMAIN v8'
      BY <1>4, <1>5, <3>1
    <3>3. v8'[n + 1].msg = msg /\ v8'[n + 1].status = v4[p]
      BY <1>4, <1>5
    <3>4. CASE v1[p] = "begin"
      <4>1. Chain!Lines(p)' = {n + 1} /\ v1'[p] = "auth"
        BY <1>2, <3>2, <3>4 DEF HasLines, ChainTypes
      <4>2. QED BY <1>1, <2>2, <3>2, <3>3, <3>4, <4>1 DEF HasLines, Started, Chain!Over, Chain!At
    <3>5. CASE v1[p] \in {"log", "log panicking"}
      <4>1. PICK a \in DOMAIN v8 : Chain!Lines(p) = {a} /\ v8[a].msg = "started"
        BY <3>5 DEF HasLines, Started
      <4>2. a < n + 1 /\ a \in DOMAIN v8' /\ v8'[a].msg = "started" /\ Chain!Lines(p)' = {a, n + 1}
        BY <1>4, <3>2, <4>1
      <4>3. v1'[p] = (IF v1[p] = "log" THEN "answered" ELSE "dropped")
        BY <1>2, <3>5 DEF ChainTypes
      <4>4. v1[p] = "log" => v6'[p] = v4[p]
        BY <1>2 DEF StatusIsSent, ChainTypes
      <4>5. msg = IF v1'[p] = "answered" THEN "finished" ELSE "panicked"
        BY <1>1, <3>5, <4>3
      <4>6. QED BY <2>2, <3>2, <3>3, <4>2, <4>3, <4>4, <4>5 DEF HasLines, Started
    <3>6. QED BY <1>2, <3>4, <3>5
  <2>3. QED BY <2>1, <2>2
<1>9. StatusIsSent'
  <2> SUFFICES ASSUME NEW q \in Two
               PROVE  /\ v4'[q] = IF v6'[q] = 0 THEN 200 ELSE v6'[q]
                      /\ v1'[q] \in {"new", "begin", "auth"} => v6'[q] = 0 /\ v5'[q] = NoPattern
    BY DEF StatusIsSent
  <2>1. v1'[q] \in {"new", "begin", "auth"} => v1[q] \in {"new", "begin", "auth"}
    BY <1>2 DEF ChainTypes
  <2>2. \/ v6'[q] = v6[q]
        \/ v6[q] = 0 /\ v6'[q] = 200 /\ v1'[q] = "answered"
    BY <1>2 DEF ChainTypes
  <2>3. v4'[q] = v4[q] /\ v5'[q] = v5[q]
    BY <1>2
  <2>4. QED BY <2>1, <2>2, <2>3 DEF StatusIsSent
<1>10. Chain!CountedOnce'
  BY <1>2, SameCount DEF ChainTypes
<1>11. Chain!NobodyUnknown'
  <2>1. \A q \in Two : v6'[q] = v6[q] \/ v6'[q] = 200
    BY <1>2 DEF ChainTypes
  <2>2. v5' = v5 /\ v2' = v2
    BY <1>2
  <2>3. QED BY <2>1, <2>2 DEF Chain!NobodyUnknown
<1>12. QED BY <1>6, <1>7, <1>8, <1>9, <1>10, <1>11

\* The gauge counts a request when its handler is over.
LEMMA ChainCounts == ASSUME ChainInv, NEW p \in Two, Chain!Count(p) PROVE ChainInv'
<1>1. PICK u \in Chain!Routes : u = v5[p]
  BY DEF ChainInv, ChainTypes
<1>2. PICK from \in {"gauge", "gauge panicking"} :
        /\ v1[p] = from /\ v1' = [v1 EXCEPT ![p] = IF from = "gauge" THEN "log" ELSE "log panicking"]
        /\ v9' = [v9 EXCEPT ![u] = v9[u] + 1]
        /\ UNCHANGED <<v2, v3, v4, v5, v6, v7, v8, v10>>
  BY <1>1 DEF Chain!Count, Chain!Goto
<1>3. PICK to \in {"log", "log panicking"} : v1' = [v1 EXCEPT ![p] = to]
  BY <1>2
<1> USE DEF ChainInv
<1>4. ChainTypes'
  <2>1. PICK n \in Nat : n = v9[u]
    BY DEF ChainTypes
  <2>2. v9' = [v9 EXCEPT ![u] = n + 1]
    BY <1>2, <2>1
  <2>4. n + 1 \in Nat
    BY Steps
  <2>0. v9' \in [Chain!Routes -> Nat]
    BY <1>1, <2>2, <2>4 DEF ChainTypes
  <2>3. QED BY <1>2, <1>3, <2>0 DEF ChainTypes, Started, Chain!Routes
<1>5. IdsDiffer'
  <2>1. \A q \in Two : v1'[q] = "new" <=> v1[q] = "new"
    BY <1>2, <1>3 DEF ChainTypes
  <2>2. QED BY <1>2, <2>1 DEF IdsDiffer
<1>6. ASSUME NEW q \in Two PROVE HasLines(q)'
  BY <1>2, <1>3, SameLines DEF ChainTypes, Started
<1>7. \A q \in Two : v1'[q] \in {"new", "begin", "auth"} => v1[q] \in {"new", "begin", "auth"}
  BY <1>3 DEF ChainTypes
<1>8. StatusIsSent'
  BY <1>2, <1>7 DEF StatusIsSent
<1>9. \A r : CountedAs(r)' = IF r = u THEN CountedAs(r) \cup {p} ELSE CountedAs(r)
  <2>1. \A q \in Two : v1'[q] = (IF q = p THEN to ELSE v1[q]) /\ v5'[q] = v5[q]
    BY <1>2, <1>3 DEF ChainTypes
  <2>2. \A r : CountedAs(r)' = {q \in Two : v1'[q] \in {"answered", "dropped", "log", "log panicking"} /\ v5'[q] = r}
    BY DEF CountedAs, Chain!Over, Chain!At
  <2>3. \A r : CountedAs(r) = {q \in Two : v1[q] \in {"answered", "dropped", "log", "log panicking"} /\ v5[q] = r}
    BY DEF CountedAs, Chain!Over, Chain!At
  <2>4. QED BY <1>1, <1>3, <2>1, <2>2, <2>3
<1>10. \A r : p \notin CountedAs(r) /\ CountedAs(r) \in SUBSET Two
  BY <1>2 DEF CountedAs, Chain!Over, Chain!At
<1>11. ASSUME NEW r \in Chain!Routes PROVE v9'[r] = Cardinality(CountedAs(r)') /\ v10'[r] <= v9'[r]
  <2>1. PICK n \in Nat, m \in Nat : n = v9[r] /\ m = v10[r]
    BY DEF ChainTypes
  <2>2. n = Cardinality(CountedAs(r)) /\ m <= n /\ v10'[r] = m
    BY <1>2, <2>1, CountedIs
  <2>3. CASE r = u
    <3>1. CountedAs(r)' = CountedAs(r) \cup {p} /\ CountedAs(r) \in SUBSET Two /\ p \notin CountedAs(r)
      BY <1>9, <1>10, <2>3
    <3>2. Cardinality(CountedAs(r)') = n + 1
      BY <2>2, <3>1, OneMore
    <3>3. v9'[r] = n + 1
      BY <1>2, <2>1, <2>3 DEF ChainTypes
    <3>4. m <= n + 1 /\ v10'[r] = m
      BY <2>2, Steps
    <3>5. QED BY <3>2, <3>3, <3>4
  <2>4. CASE r # u
    <3>1. v9'[r] = n /\ CountedAs(r)' = CountedAs(r)
      BY <1>2, <1>9, <2>1, <2>4 DEF ChainTypes
    <3>2. QED BY <2>2, <3>1
  <2>5. QED BY <2>3, <2>4
<1>12. (\A r \in Chain!Routes : v9[r] = Cardinality(CountedAs(r)) /\ v10[r] <= v9[r])'
  BY <1>11 DEF Chain!Routes
<1>13. Chain!CountedOnce'
  BY <1>12, CountedIs, PTL
<1>14. Chain!NobodyUnknown'
  <2>1. v2' = v2 /\ v5' = v5 /\ v6' = v6
    BY <1>2
  <2> HIDE DEF ChainInv
  <2>2. Chain!NobodyUnknown
    BY DEF ChainInv
  <2>3. QED BY <2>1, <2>2, ZenonT(30) DEF Chain!NobodyUnknown
<1>15. QED BY <1>4, <1>5, <1>6, <1>8, <1>13, <1>14

LEMMA ChainNext == ChainInv /\ [Chain!Next]_Chain!vars => ChainInv'
<1> SUFFICES ASSUME ChainInv, [Chain!Next]_Chain!vars PROVE ChainInv'
  OBVIOUS
<1>1. CASE Chain!Snapshot \/ UNCHANGED Chain!vars
  <2> USE <1>1 DEF ChainInv, Chain!Snapshot, Chain!vars
  <2>1. /\ UNCHANGED <<v1, v2, v3, v4, v5, v6, v7, v8, v9>> /\ v10' \in {v9, v10}
    OBVIOUS
  <2>2. ChainTypes' /\ IdsDiffer' /\ StatusIsSent'
    <3>1. ChainTypes /\ IdsDiffer /\ StatusIsSent
      OBVIOUS
    <3> HIDE <1>1 DEF ChainInv
    <3>2. v10' \in [Chain!Routes -> Nat]
      BY <2>1, <3>1 DEF ChainTypes
    <3>3. ChainTypes'
      BY <2>1, <3>1, <3>2 DEF ChainTypes, Chain!Routes
    <3>4. IdsDiffer'
      BY <2>1, <3>1 DEF IdsDiffer
    <3>5. StatusIsSent'
      BY <2>1, <3>1 DEF StatusIsSent
    <3>6. QED BY <3>3, <3>4, <3>5
  <2>3. ASSUME NEW q \in Two PROVE HasLines(q)'
    BY <2>1, SameLines
  <2>4. Chain!CountedOnce'
    BY <2>1, SameCount DEF ChainTypes
  <2>5. Chain!NobodyUnknown'
    BY <2>1 DEF Chain!NobodyUnknown
  <2>6. QED BY <2>2, <2>3, <2>4, <2>5
<1>2. ASSUME NEW p \in Two,
             \/ \E t \in {"none", "invalid", "failing", "valid"} : Chain!TakeId(p, t)
             \/ Chain!Started(p) \/ Chain!Reject(p) \/ \E r \in Patterns : Chain!Route(p, r)
             \/ \E c \in Codes : Chain!HandlerWrites(p, c)
             \/ Chain!HandlerReturns(p) \/ Chain!Count(p) \/ Chain!Finished(p) \/ Chain!Panicked(p)
      PROVE  ChainInv'
  BY <1>2, ChainStep, ChainLogs, ChainCounts
<1>3. QED BY <1>1, <1>2 DEF Chain!Next

(***************************************************************************)
(* Every request leaves two log lines of its own, is counted once, and is  *)
(* handled only with a valid token, whatever the requests beside it do.    *)
(***************************************************************************)
THEOREM MiddlewareCorrect == Chain!Spec /\ [](part = "middleware") => []RequestsAreTreatedRight
<1>1. ChainInv /\ part = "middleware" => RequestsAreTreatedRight
  <2> SUFFICES ASSUME ChainInv, part = "middleware" PROVE Chain!EveryRequestAccounted
    BY DEF RequestsAreTreatedRight
  <2>1. Chain!TwoLines
    BY DEF ChainInv, HasLines, Chain!TwoLines, Chain!Over, Chain!At
  <2>2. QED BY <2>1 DEF ChainInv, Chain!EveryRequestAccounted
<1>2. QED BY <1>1, ChainInit, ChainNext, PTL DEF Chain!Spec

-----------------------------------------------------------------------------
\* Firewall.  v1 is conf, v2 rules, v3 pc, v4 req, v5 i, v6 resp, v7 answer, v8 asked.

Compiled == v1 \in Configs /\ v2 = [k \in DOMAIN v1 |-> Wall!Compile(v1[k])]

\* The rules of the path up to the n-th find nothing in the request, in the response.
RequestPasses(n)  == \A k \in Wall!Sub(v4) : k <= n => ~Wall!RequestBreaks(v2[k], v4)
ResponsePasses(n) == \A k \in Wall!Sub(v4) : k <= n => ~Wall!ResponseBreaks(v2[k], v6)

WallInv ==
  /\ v1 \in Configs \cup {Unreadable}
  /\ v3 \in {"boot", "panic", "ready", "request", "response", "answered"}
  /\ v3 \notin {"boot", "panic"} => Compiled
  /\ v3 \in {"request", "response"} => v5 \in Nat \ {0} /\ v7 = None
  /\ v3 = "request" => v6 = None /\ v8 = FALSE /\ RequestPasses(v5 - 1)
  /\ v3 = "response" => v8 = TRUE /\ "len" \in DOMAIN v6 /\ RequestPasses(Len(v2)) /\ ResponsePasses(v5 - 1)
  /\ v3 = "answered" => Wall!OnlyRulesForbid

LEMMA WallConstants ==
  /\ \A c \in Configs : DOMAIN c = 1..Len(c) /\ Len(c) \in Nat
  /\ \A c \in Configs : \A k \in DOMAIN c : Wall!RuleFields \subseteq DOMAIN c[k]
  /\ \A s \in Responses : "len" \in DOMAIN s
  /\ None # Wall!Forbidden
BY ServicesAssumption DEF Wall!FirewallAssumption

\* What parseRules keeps of a rule, and what it changes.
LEMMA CompileKeeps ==
  ASSUME NEW ru, Wall!RuleFields \subseteq DOMAIN ru
  PROVE  /\ Wall!Compile(ru).endpoint = ru.endpoint
         /\ \A r : Wall!RequestBreaks(Wall!Compile(ru), r) <=> Wall!RequestBreaks(ru, r)
         /\ \A s : Wall!ResponseBreaks(Wall!Compile(ru), s) <=> Wall!Breaks(ru, s)
<1> DEFINE co == Wall!Compile(ru)
           no == [ru EXCEPT !.forbidCodes = {}]
<1>1. \A f \in Wall!RuleFields \ {"forbidCodes"} : co[f] = ru[f] /\ no[f] = ru[f]
  BY DEF Wall!Compile, Wall!RuleFields
<1>2. co.forbidCodes = Wall!ToSet(ru.forbidCodes) /\ no.forbidCodes = {}
  BY DEF Wall!Compile, Wall!RuleFields
<1>3. /\ co.endpoint = ru.endpoint /\ co.forbidUA = ru.forbidUA /\ co.forbidHeaders = ru.forbidHeaders
      /\ co.requireHeaders = ru.requireHeaders /\ co.maxReqLen = ru.maxReqLen /\ co.forbidReqRE = ru.forbidReqRE
      /\ co.maxRespLen = ru.maxRespLen /\ co.forbidRespRE = ru.forbidRespRE
      /\ no.maxRespLen = ru.maxRespLen /\ no.forbidRespRE = ru.forbidRespRE
  BY <1>1 DEF Wall!RuleFields
<1> HIDE DEF co, no
<1>4. ASSUME NEW r PROVE Wall!RequestBreaks(co, r) <=> Wall!RequestBreaks(ru, r)
  BY <1>3 DEF Wall!RequestBreaks
<1>5. ASSUME NEW s PROVE Wall!ResponseBreaks(co, s) <=> Wall!Breaks(ru, s)
  <2>1. Wall!Breaks(ru, s) <=> s.code \in Wall!ToSet(ru.forbidCodes) \/ Wall!ResponseBreaks(no, s)
    BY DEF Wall!Breaks, no
  <2>2. QED BY <1>2, <1>3, <2>1 DEF Wall!ResponseBreaks
<1>6. QED BY <1>3, <1>4, <1>5 DEF co

\* The rules that are walked are those of the file, in their order.
LEMMA RulesAreTheFile ==
  ASSUME Compiled
  PROVE  /\ Len(v2) \in Nat /\ DOMAIN v2 = 1..Len(v2) /\ DOMAIN v2 = DOMAIN v1
         /\ \A k \in DOMAIN v2 : /\ v2[k].endpoint = v1[k].endpoint
                                 /\ Wall!RequestBreaks(v2[k], v4) <=> Wall!RequestBreaks(v1[k], v4)
                                 /\ Wall!ResponseBreaks(v2[k], v6) <=> Wall!Breaks(v1[k], v6)
<1>1. PICK n \in Nat : n = Len(v1) /\ DOMAIN v1 = 1..n
  BY WallConstants DEF Compiled
<1>2. DOMAIN v2 = 1..n /\ v2 \in [1..n -> {v2[k] : k \in 1..n}]
  BY <1>1 DEF Compiled
<1>3. Len(v2) = n
  BY <1>2, FunctionIsSeq
<1>4. ASSUME NEW k \in DOMAIN v2
      PROVE  /\ v2[k].endpoint = v1[k].endpoint
             /\ Wall!RequestBreaks(v2[k], v4) <=> Wall!RequestBreaks(v1[k], v4)
             /\ Wall!ResponseBreaks(v2[k], v6) <=> Wall!Breaks(v1[k], v6)
  <2>1. v2[k] = Wall!Compile(v1[k]) /\ Wall!RuleFields \subseteq DOMAIN v1[k]
    BY <1>1, <1>2, WallConstants DEF Compiled
  <2>2. QED BY <2>1, CompileKeeps
<1>5. QED BY <1>1, <1>2, <1>3, <1>4

\* Once all of them have been walked, all rules of the path have.
LEMMA AllPass ==
  ASSUME Compiled
  PROVE  /\ RequestPasses(Len(v2)) <=> \A ru \in Wall!ForPath : ~Wall!RequestBreaks(ru, v4)
         /\ ResponsePasses(Len(v2)) <=> \A ru \in Wall!ForPath : ~Wall!Breaks(ru, v6)
<1>1. PICK n \in Nat : n = Len(v2) /\ DOMAIN v2 = 1..n /\ DOMAIN v1 = 1..n
  BY RulesAreTheFile
<1>2. Wall!ForPath = {v1[k] : k \in Wall!Sub(v4)}
  BY RulesAreTheFile, <1>1 DEF Wall!ForPath, Wall!Sub, Wall!Range
<1>3. \A k \in Wall!Sub(v4) : k \in DOMAIN v2 /\ k <= n
  BY <1>1 DEF Wall!Sub
<1>4. \A k \in Wall!Sub(v4) : /\ Wall!RequestBreaks(v2[k], v4) <=> Wall!RequestBreaks(v1[k], v4)
                              /\ Wall!ResponseBreaks(v2[k], v6) <=> Wall!Breaks(v1[k], v6)
  BY <1>3, RulesAreTheFile
<1>5. QED BY <1>1, <1>2, <1>3, <1>4 DEF RequestPasses, ResponsePasses

LEMMA WallInit == Wall!Init => WallInv
BY DEF Wall!Init, WallInv

LEMMA WallNext == WallInv /\ [Wall!Next]_Wall!vars => WallInv'
<1> SUFFICES ASSUME WallInv, [Wall!Next]_Wall!vars PROVE WallInv'
  OBVIOUS
<1>1. CASE Wall!ParseRules
  BY <1>1 DEF WallInv, Compiled, Wall!ParseRules
<1>2. ASSUME NEW r \in Requests, Wall!Receive(r) PROVE WallInv'
  BY <1>2 DEF WallInv, Compiled, Wall!Receive, RequestPasses, Wall!Sub
<1>3. CASE Wall!CheckRequest
  <2>1. /\ v3 = "request" /\ Compiled /\ v6 = None /\ v7 = None /\ v8 = FALSE /\ v5 \in Nat \ {0} /\ v5 <= Len(v2)
        /\ RequestPasses(v5 - 1) /\ UNCHANGED <<v1, v2, v4, v6, v8>> /\ v1 \in Configs \cup {Unreadable}
    BY <1>3 DEF WallInv, Wall!CheckRequest
  <2>2. CASE v5 \in Wall!Sub(v4) /\ Wall!RequestBreaks(v2[v5], v4)
    <3>1. v7' = Wall!Forbidden /\ v3' = "answered"
      BY <1>3, <2>2 DEF Wall!CheckRequest, Wall!Answer
    <3>2. v1[v5] \in Wall!ForPath /\ Wall!RequestBreaks(v1[v5], v4)
      BY <2>1, <2>2, RulesAreTheFile DEF Wall!ForPath, Wall!Sub, Wall!Range
    <3>3. Wall!OnlyRulesForbid'
      BY <2>1, <3>1, <3>2 DEF Wall!OnlyRulesForbid, Wall!ForPath, Wall!Forbidden
    <3>4. QED BY <2>1, <3>1, <3>3 DEF WallInv, Compiled
  <2>3. CASE ~(v5 \in Wall!Sub(v4) /\ Wall!RequestBreaks(v2[v5], v4))
    <3>1. v5' = v5 + 1 /\ UNCHANGED <<v3, v7>>
      BY <1>3, <2>3 DEF Wall!CheckRequest
    <3>2. \A k \in Nat : k <= v5' - 1 => k <= v5 - 1 \/ k = v5
      BY <2>1, <3>1
    <3>3. Wall!Sub(v4) \subseteq Nat
      BY <2>1, RulesAreTheFile DEF Wall!Sub
    <3>4. RequestPasses(v5 - 1)'
      BY <2>1, <2>3, <3>2, <3>3 DEF RequestPasses, Wall!Sub
    <3>5. v5' \in Nat \ {0}
      BY <2>1, <3>1
    <3>6. QED BY <2>1, <3>1, <3>4, <3>5 DEF WallInv, Compiled
  <2>4. QED BY <2>2, <2>3
<1>4. CASE Wall!AskService
  <2>1. /\ v3 = "request" /\ Compiled /\ v6 = None /\ v7 = None /\ v5 \in Nat \ {0} /\ v5 > Len(v2)
        /\ RequestPasses(v5 - 1) /\ UNCHANGED <<v1, v2, v4>> /\ v1 \in Configs \cup {Unreadable} /\ v8' = TRUE
    BY <1>4 DEF WallInv, Wall!AskService
  <2>2. Compiled' /\ RequestPasses(Len(v2))' /\ RequestPasses(Len(v2))
    BY <2>1, RulesAreTheFile DEF Compiled, RequestPasses, Wall!Sub
  <2>3. CASE Wall!Answer(Wall!Forbidden) /\ UNCHANGED v6
    <3>1. v6' = None /\ v7' = Wall!Forbidden /\ v3' = "answered"
      BY <2>1, <2>3 DEF Wall!Answer
    <3>2. \A ru \in Wall!ForPath : ~Wall!RequestBreaks(ru, v4)
      BY <2>1, <2>2, AllPass
    <3>3. Wall!OnlyRulesForbid'
      BY <2>1, <3>1, <3>2 DEF Wall!OnlyRulesForbid, Wall!ForPath, Wall!Forbidden
    <3>4. QED BY <2>1, <2>2, <3>1, <3>3 DEF WallInv
  <2>4. ASSUME NEW s \in Responses \cup {Wall!Echo(v4)}, v6' = s, v3' = "response", v5' = 1, UNCHANGED v7 PROVE WallInv'
    <3>1. "len" \in DOMAIN s
      BY WallConstants DEF Wall!Echo
    <3>2. (RequestPasses(Len(v2)) /\ ResponsePasses(v5 - 1))'
      BY <2>1, <2>2, <2>4, RulesAreTheFile DEF Compiled, RequestPasses, ResponsePasses, Wall!Sub
    <3>3. QED BY <2>1, <2>2, <2>4, <3>1, <3>2 DEF WallInv
  <2>5. QED BY <1>4, <2>3, <2>4 DEF Wall!AskService
<1>5. CASE Wall!CheckResponse
  <2>1. /\ v3 = "response" /\ Compiled /\ "len" \in DOMAIN v6 /\ v7 = None /\ v5 \in Nat \ {0} /\ v5 <= Len(v2)
        /\ RequestPasses(Len(v2)) /\ ResponsePasses(v5 - 1)
        /\ UNCHANGED <<v1, v2, v4, v6, v8>> /\ v8 = TRUE /\ v1 \in Configs \cup {Unreadable}
    BY <1>5 DEF WallInv, Wall!CheckResponse
  <2>2. Compiled' /\ RequestPasses(Len(v2))'
    BY <2>1 DEF Compiled, RequestPasses, Wall!Sub
  <2>3. CASE v5 \in Wall!Sub(v4) /\ Wall!ResponseBreaks(v2[v5], v6)
    <3>1. v7' = Wall!Forbidden /\ v3' = "answered"
      BY <1>5, <2>3 DEF Wall!CheckResponse, Wall!Answer
    <3>2. v1[v5] \in Wall!ForPath /\ Wall!Breaks(v1[v5], v6)
      BY <2>1, <2>3, RulesAreTheFile DEF Wall!ForPath, Wall!Sub, Wall!Range
    <3>3. \A ru \in Wall!ForPath : ~Wall!RequestBreaks(ru, v4)
      BY <2>1, AllPass
    <3>4. Wall!OnlyRulesForbid'
      BY <2>1, <3>1, <3>2, <3>3 DEF Wall!OnlyRulesForbid, Wall!ForPath, Wall!Forbidden
    <3>5. QED BY <2>1, <2>2, <3>1, <3>4 DEF WallInv
  <2>4. CASE ~(v5 \in Wall!Sub(v4) /\ Wall!ResponseBreaks(v2[v5], v6))
    <3>1. v5' = v5 + 1 /\ UNCHANGED <<v3, v7>>
      BY <1>5, <2>4 DEF Wall!CheckResponse
    <3>2. \A k \in Nat : k <= v5' - 1 => k <= v5 - 1 \/ k = v5
      BY <2>1, <3>1
    <3>3. Wall!Sub(v4) \subseteq Nat
      BY <2>1, RulesAreTheFile DEF Wall!Sub
    <3>4. ResponsePasses(v5 - 1)'
      BY <2>1, <2>4, <3>2, <3>3 DEF ResponsePasses, Wall!Sub
    <3>5. v5' \in Nat \ {0}
      BY <2>1, <3>1
    <3>6. QED BY <2>1, <2>2, <3>1, <3>4, <3>5 DEF WallInv
  <2>5. QED BY <2>3, <2>4
<1>6. CASE Wall!Forward
  <2>1. /\ v3 = "response" /\ Compiled /\ "len" \in DOMAIN v6 /\ v5 \in Nat \ {0} /\ v5 > Len(v2)
        /\ RequestPasses(Len(v2)) /\ ResponsePasses(v5 - 1)
        /\ UNCHANGED <<v1, v2, v4, v6, v8>> /\ v8 = TRUE /\ v1 \in Configs \cup {Unreadable}
        /\ v7' = v6 /\ v3' = "answered"
    BY <1>6 DEF WallInv, Wall!Forward, Wall!Answer
  <2>2. ResponsePasses(Len(v2))
    BY <2>1, RulesAreTheFile DEF ResponsePasses, Wall!Sub
  <2>3. \A ru \in Wall!ForPath : ~Wall!RequestBreaks(ru, v4) /\ ~Wall!Breaks(ru, v6)
    BY <2>1, <2>2, AllPass
  <2>4. v6 # Wall!Forbidden
    BY <2>1 DEF Wall!Forbidden
  <2>5. Wall!OnlyRulesForbid'
    BY <2>1, <2>3, <2>4 DEF Wall!OnlyRulesForbid, Wall!ForPath, Wall!Forbidden
  <2>6. QED BY <2>1, <2>5 DEF WallInv, Compiled
<1>7. CASE UNCHANGED Wall!vars
  BY <1>7 DEF WallInv, Wall!vars, Compiled, RequestPasses, ResponsePasses, Wall!Sub, Wall!OnlyRulesForbid, Wall!ForPath
<1>8. QED BY <1>1, <1>2, <1>3, <1>4, <1>5, <1>6, <1>7 DEF Wall!Next

(***************************************************************************)
(* Whatever the file of rules, no request that a rule of its path forbids  *)
(* reaches the service and no such response the client; a request is       *)
(* refused unasked only if it breaks one, and what the service answers     *)
(* only if that does.                                                      *)
(***************************************************************************)
THEOREM FirewallCorrect == Wall!Spec /\ [](part = "firewall") => []RequestsAreTreatedRight
<1>1. WallInv /\ part = "firewall" => RequestsAreTreatedRight
  <2> SUFFICES ASSUME WallInv, part = "firewall" PROVE Wall!OnlyRulesForbid
    BY DEF RequestsAreTreatedRight
  <2>1. CASE v3 = "request"
    BY <2>1, WallConstants DEF WallInv, Wall!OnlyRulesForbid
  <2>2. CASE v3 = "response"
    BY <2>2, AllPass, WallConstants DEF WallInv, Wall!OnlyRulesForbid, Wall!Forbidden
  <2>3. QED BY <2>1, <2>2 DEF WallInv, Wall!OnlyRulesForbid
<1>2. QED BY <1>1, WallInit, WallNext, PTL DEF Wall!Spec

-----------------------------------------------------------------------------
\* LRUCache.  v1 is capacity, v2 items, v3 list, v4 entry, v5 result.

\* The first e of a sequence that has it is what RemoveFirst removes; the library's operator is
\* the same for the cache and for its specification.
LEMMA RemovesTheFirst ==
  ASSUME NEW s, NEW e
  PROVE  /\ RemoveFirst(s, e) = IF \E i \in 1..Len(s) : s[i] = e
                                THEN RemoveAt(s, Min({i \in 1..Len(s) : s[i] = e})) ELSE s
         /\ Lru!RemoveFirst(s, e) = RemoveFirst(s, e)
         /\ Lru!Abstract!RemoveFirst(s, e) = RemoveFirst(s, e)
<1>1. RemoveFirst(s, e) = IF \E i \in 1..Len(s) : s[i] = e
                          THEN RemoveAt(s, Min({i \in 1..Len(s) : s[i] = e})) ELSE s
  BY DEF RemoveFirst, SelectInSeq
<1>2. Lru!RemoveFirst(s, e) = RemoveFirst(s, e)
  BY DEF RemoveFirst, Lru!RemoveFirst, SelectInSeq, Lru!SelectInSeq, RemoveAt, Lru!RemoveAt, Min, Lru!Min
<1>3. Lru!Abstract!RemoveFirst(s, e) = RemoveFirst(s, e)
  BY DEF RemoveFirst, Lru!Abstract!RemoveFirst, SelectInSeq, Lru!Abstract!SelectInSeq,
         RemoveAt, Lru!Abstract!RemoveAt, Min, Lru!Abstract!Min
<1>4. QED BY <1>1, <1>2, <1>3

Injective(s) == \A a, b \in 1..Len(s) : s[a] = s[b] => a = b
Elements(s)  == {s[j] : j \in 1..Len(s)}
Moved(s, e)  == Append(RemoveFirst(s, e), e)

\* What moving the p-th element of a sequence to its end makes of it.
LEMMA MovedToBack ==
  ASSUME NEW S, NEW s \in Seq(S), Injective(s), NEW p \in 1..Len(s)
  PROVE  /\ Moved(s, s[p]) \in Seq(S) /\ Len(Moved(s, s[p])) = Len(s)
         /\ \A j \in 1..Len(s) : Moved(s, s[p])[j] = IF j < p THEN s[j] ELSE IF j < Len(s) THEN s[j + 1] ELSE s[p]
<1>1. PICK n \in Nat : n = Len(s)
  OBVIOUS
<1>2. p \in 1..n /\ p \in Nat /\ s[p] \in S
  BY <1>1
<1>3. {i \in 1..n : s[i] = s[p]} = {p}
  BY <1>1, <1>2 DEF Injective
<1>4. Min({p}) = p
  BY <1>2 DEF Min
<1>5. RemoveFirst(s, s[p]) = SubSeq(s, 1, p - 1) \o SubSeq(s, p + 1, n)
  <2>1. \E i \in 1..n : s[i] = s[p]
    BY <1>2
  <2>2. RemoveFirst(s, s[p]) = RemoveAt(s, Min({i \in 1..n : s[i] = s[p]}))
    BY <1>1, <2>1, RemovesTheFirst
  <2>3. QED BY <1>1, <1>3, <1>4, <2>2 DEF RemoveAt
<1> DEFINE a == SubSeq(s, 1, p - 1)
           b == SubSeq(s, p + 1, n)
<1>6. a \in Seq(S) /\ Len(a) = p - 1 /\ \A j \in 1..p - 1 : a[j] = s[j]
  BY <1>1, <1>2
<1>7. b \in Seq(S) /\ Len(b) = n - p /\ \A j \in 1..n - p : b[j] = s[p + j]
  BY <1>1, <1>2
<1> HIDE DEF a, b
<1>8. /\ a \o b \in Seq(S) /\ Len(a \o b) = n - 1
      /\ \A j \in 1..n - 1 : (a \o b)[j] = IF j < p THEN s[j] ELSE s[j + 1]
  <2>1. a \o b \in Seq(S) /\ Len(a \o b) = n - 1
    <3>1. a \o b \in Seq(S) /\ Len(a \o b) = Len(a) + Len(b)
      <4>1. a \in Seq(S) /\ b \in Seq(S)
        BY <1>6, <1>7
      <4>2. QED BY <4>1, ConcatProperties
    <3>2. (p - 1) + (n - p) = n - 1
      BY <1>2
    <3>3. QED BY <1>6, <1>7, <3>1, <3>2
  <2>2. ASSUME NEW j \in 1..n - 1 PROVE (a \o b)[j] = IF j < p THEN s[j] ELSE s[j + 1]
    <3>1. CASE j < p
      BY <1>2, <1>6, <1>7, <3>1
    <3>2. CASE ~(j < p)
      <4>1. j - (p - 1) \in 1..n - p /\ p + (j - (p - 1)) = j + 1
        BY <1>2, <3>2
      <4>2. (a \o b)[j] = b[j - (p - 1)]
        <5>1. a \in Seq(S) /\ b \in Seq(S) /\ Len(a) + Len(b) = n - 1 /\ Len(a) = p - 1
          BY <1>2, <1>6, <1>7
        <5>2. \A i \in 1..Len(a) + Len(b) : (a \o b)[i] = IF i <= Len(a) THEN a[i] ELSE b[i - Len(a)]
          BY <5>1, ConcatProperties
        <5>3. ~(j <= p - 1) /\ j \in 1..n - 1
          BY <1>2, <3>2
        <5>4. QED BY <5>1, <5>2, <5>3
      <4>3. b[j - (p - 1)] = s[p + (j - (p - 1))]
        BY <1>7, <4>1
      <4>4. QED BY <3>2, <4>1, <4>2, <4>3
    <3>3. QED BY <3>1, <3>2
  <2>3. QED BY <2>1, <2>2
<1>9. Moved(s, s[p]) = Append(a \o b, s[p])
  BY <1>5 DEF Moved, a, b
<1> DEFINE c == a \o b
<1>10. c \in Seq(S) /\ Len(c) = n - 1 /\ \A j \in 1..n - 1 : c[j] = IF j < p THEN s[j] ELSE s[j + 1]
  BY <1>8
<1> HIDE DEF c
<1>11. Append(c, s[p]) \in Seq(S) /\ Len(Append(c, s[p])) = n
  BY <1>2, <1>10
<1>12. ASSUME NEW j \in 1..n
       PROVE  Append(c, s[p])[j] = IF j < p THEN s[j] ELSE IF j < n THEN s[j + 1] ELSE s[p]
  <2>1. CASE j < n
    <3>1. j \in 1..n - 1
      BY <2>1
    <3>2. Append(c, s[p])[j] = c[j]
      BY <1>2, <1>10, <3>1
    <3>3. QED BY <1>10, <2>1, <3>1, <3>2
  <2>2. CASE j = n
    <3>1. Append(c, s[p])[n] = s[p] /\ ~(n < p)
      BY <1>2, <1>10
    <3>2. QED BY <2>2, <3>1
  <2>3. j < n \/ j = n
    OBVIOUS
  <2>4. QED BY <2>1, <2>2, <2>3
<1>13. QED BY <1>1, <1>9, <1>11, <1>12 DEF c

\* It has the same elements, each still once.
LEMMA MovedKeeps ==
  ASSUME NEW S, NEW s \in Seq(S), Injective(s), NEW p \in 1..Len(s)
  PROVE  Injective(Moved(s, s[p])) /\ Elements(Moved(s, s[p])) = Elements(s)
<1>1. PICK n \in Nat : n = Len(s)
  OBVIOUS
<1> DEFINE m == Moved(s, s[p])
           at(j) == IF j < p THEN j ELSE IF j < n THEN j + 1 ELSE p
<1>2. Len(m) = n /\ \A j \in 1..n : m[j] = s[at(j)]
  BY <1>1, MovedToBack
<1>3. p \in 1..n /\ p \in Nat
  BY <1>1
<1>4. \A j \in 1..n : at(j) \in 1..n
  BY <1>3
<1>5. \A j, k \in 1..n : at(j) = at(k) => j = k
  BY <1>3
<1>6. \A j \in 1..n : \E k \in 1..n : at(k) = j
  <2> TAKE j \in 1..n
  <2>1. CASE j < p
    BY <2>1, <1>3
  <2>2. CASE j = p
    <3>1. at(n) = p
      BY <1>3
    <3>2. QED BY <1>3, <2>2, <3>1
  <2>3. CASE j > p
    <3>1. j - 1 \in 1..n /\ at(j - 1) = j
      BY <1>3, <2>3
    <3>2. QED BY <3>1
  <2>4. QED BY <1>3, <2>1, <2>2, <2>3
<1> HIDE DEF m, at
<1>7. \A j, k \in 1..n : m[j] = m[k] => j = k
  BY <1>1, <1>2, <1>4, <1>5 DEF Injective
<1>8. \A e : (\E j \in 1..n : m[j] = e) <=> (\E j \in 1..n : s[j] = e)
  <2>1. ASSUME NEW j \in 1..n PROVE \E k \in 1..n : s[k] = m[j]
    BY <1>2, <1>4
  <2>2. ASSUME NEW j \in 1..n PROVE \E k \in 1..n : m[k] = s[j]
    <3>1. PICK k \in 1..n : at(k) = j
      BY <1>6
    <3>2. QED BY <1>2, <3>1
  <2>3. QED BY <2>1, <2>2
<1>9. Injective(m)
  BY <1>2, <1>7 DEF Injective
<1>10. Elements(m) = Elements(s)
  BY <1>1, <1>2, <1>8 DEF Elements
<1>11. QED BY <1>9, <1>10 DEF m

-----------------------------------------------------------------------------

Value  == [k \in DOMAIN v2 |-> v4[v2[k]].value]
Recent == [j \in DOMAIN v3 |-> v4[v3[j]].key]

LruTypes ==
  /\ v1 \in Nat /\ v3 \in Seq(1..v1) /\ Len(v3) <= v1
  /\ v2 \in [DOMAIN v2 -> DOMAIN v4]
  /\ v4 \in [DOMAIN v4 -> [key : CacheKeys, value : CacheValues]]

\* The list has every element once, which has an entry; the map leads from the key of an entry to its element.
LruInv ==
  /\ LruTypes /\ Injective(v3)
  /\ DOMAIN v4 = Elements(v3)
  /\ \A k \in DOMAIN v2 : v4[v2[k]].key = k
  /\ \A e \in DOMAIN v4 : v4[e].key \in DOMAIN v2 /\ v2[v4[e].key] = e

LEMMA LruInit == Lru!Init => LruInv /\ Lru!Abstract!Init
<1> SUFFICES ASSUME Lru!Init PROVE LruInv /\ Lru!Abstract!Init
  OBVIOUS
<1> USE DEF Lru!Init, Lru!Nothing
<1>1. v1 \in Nat
  BY ServicesAssumption DEF Lru!LRUCacheAssumption
<1>2. v3 \in Seq(1..v1) /\ Len(v3) = 0 /\ DOMAIN v3 = {}
  BY EmptySeq
<1>3. LruInv
  BY <1>1, <1>2 DEF LruInv, LruTypes, Injective, Elements
<1>4. [k \in DOMAIN v2 |-> v4[v2[k]].value] = [k \in {} |-> 0]
  OBVIOUS
<1>5. [j \in DOMAIN v3 |-> v4[v3[j]].key] = <<>>
  BY <1>2
<1>6. Lru!Abstract!Init
  BY <1>1, <1>4, <1>5 DEF Lru!Abstract!Init
<1>7. QED BY <1>3, <1>6

\* What the cache shows of its state.
LEMMA Shown ==
  ASSUME LruInv
  PROVE  /\ Recent \in Seq(CacheKeys) /\ Len(Recent) = Len(v3) /\ Injective(Recent)
         /\ DOMAIN v3 = 1..Len(v3) /\ Len(v3) \in Nat
         /\ \A j \in 1..Len(v3) : v3[j] \in DOMAIN v4 /\ Recent[j] = v4[v3[j]].key /\ v2[Recent[j]] = v3[j]
         /\ DOMAIN v2 = Elements(Recent)
         /\ \A k \in DOMAIN v2 : v2[k] \in DOMAIN v4 /\ \E j \in 1..Len(v3) : v3[j] = v2[k] /\ Recent[j] = k
<1>1. PICK n \in Nat : n = Len(v3) /\ DOMAIN v3 = 1..n
  BY DEF LruInv, LruTypes
<1>2. \A j \in 1..n : v3[j] \in DOMAIN v4 /\ Recent[j] = v4[v3[j]].key
  BY <1>1 DEF LruInv, Recent, Elements
<1>3. \A j \in 1..n : Recent[j] \in DOMAIN v2 /\ v2[Recent[j]] = v3[j]
  BY <1>2 DEF LruInv
<1>4. Recent \in [1..n -> CacheKeys]
  BY <1>1, <1>2 DEF Recent, LruInv, LruTypes
<1>5. Recent \in Seq(CacheKeys) /\ Len(Recent) = n
  BY <1>4, FunctionIsSeq
<1>6. Injective(Recent)
  BY <1>1, <1>3, <1>5 DEF Injective, LruInv
<1>7. \A k \in DOMAIN v2 : v2[k] \in DOMAIN v4 /\ \E j \in 1..n : v3[j] = v2[k] /\ Recent[j] = k
  <2> TAKE k \in DOMAIN v2
  <2>1. v2[k] \in DOMAIN v4 /\ v4[v2[k]].key = k
    BY DEF LruInv, LruTypes
  <2>2. PICK j \in 1..n : v3[j] = v2[k]
    BY <1>1, <2>1 DEF LruInv, Elements
  <2>3. QED BY <1>2, <2>1, <2>2
<1>8. DOMAIN v2 = Elements(Recent)
  BY <1>3, <1>5, <1>7 DEF Elements
<1>9. QED BY <1>1, <1>2, <1>3, <1>5, <1>6, <1>7, <1>8

\* A call that moves the element of k to the back moves k to the back of what is shown.
LEMMA MovesTheKey ==
  ASSUME LruInv, NEW k \in DOMAIN v2, v3' = Moved(v3, v2[k]), v2' = v2,
         DOMAIN v4' = DOMAIN v4, \A e \in DOMAIN v4 : v4'[e].key = v4[e].key
  PROVE  /\ v3' \in Seq(1..v1) /\ Len(v3') = Len(v3) /\ Injective(v3')
         /\ DOMAIN v4 = Elements(v3')
         /\ Recent' = Moved(Recent, k) /\ Moved(Recent, k) \in Seq(CacheKeys) /\ Len(Moved(Recent, k)) = Len(v3)
         /\ DOMAIN v2 = Elements(Moved(Recent, k))
<1>1. PICK n \in Nat : n = Len(v3) /\ Len(Recent) = n
  BY Shown
<1>2. PICK p \in 1..n : v3[p] = v2[k] /\ Recent[p] = k
  BY <1>1, Shown
<1>3. v3 \in Seq(1..v1) /\ Injective(v3) /\ Recent \in Seq(CacheKeys) /\ Injective(Recent)
  BY Shown DEF LruInv, LruTypes
<1> DEFINE T == 1..v1
<1>10. PICK s \in Seq(T) : s = v3 /\ Injective(s) /\ Len(s) = n /\ s[p] = v2[k]
  BY <1>1, <1>2, <1>3
<1>11. PICK r \in Seq(CacheKeys) : r = Recent /\ Injective(r) /\ Len(r) = n /\ r[p] = k
  BY <1>1, <1>2, <1>3
<1> HIDE DEF T
<1>12. v3' = Moved(s, s[p]) /\ Moved(Recent, k) = Moved(r, r[p]) /\ p \in 1..Len(s) /\ p \in 1..Len(r)
  BY <1>10, <1>11
<1>4. /\ v3' \in Seq(1..v1) /\ Len(v3') = n
      /\ \A j \in 1..n : v3'[j] = IF j < p THEN v3[j] ELSE IF j < n THEN v3[j + 1] ELSE v3[p]
  <2>1. /\ Moved(s, s[p]) \in Seq(T) /\ Len(Moved(s, s[p])) = Len(s)
        /\ \A j \in 1..Len(s) : Moved(s, s[p])[j] = IF j < p THEN s[j] ELSE IF j < Len(s) THEN s[j + 1] ELSE s[p]
    BY <1>10, <1>12, MovedToBack, SMTT(30)
  <2>2. QED BY <1>10, <1>12, <2>1 DEF T
<1>5. Injective(v3') /\ Elements(v3') = Elements(v3)
  <2>1. Injective(Moved(s, s[p])) /\ Elements(Moved(s, s[p])) = Elements(s)
    BY <1>10, <1>12, MovedKeeps
  <2>2. QED BY <1>10, <1>12, <2>1
<1>6. /\ Moved(Recent, k) \in Seq(CacheKeys) /\ Len(Moved(Recent, k)) = n
      /\ \A j \in 1..n : Moved(Recent, k)[j] = IF j < p THEN Recent[j] ELSE IF j < n THEN Recent[j + 1] ELSE Recent[p]
  <2>1. /\ Moved(r, r[p]) \in Seq(CacheKeys) /\ Len(Moved(r, r[p])) = Len(r)
        /\ \A j \in 1..Len(r) : Moved(r, r[p])[j] = IF j < p THEN r[j] ELSE IF j < Len(r) THEN r[j + 1] ELSE r[p]
    BY <1>11, <1>12, MovedToBack, SMTT(30)
  <2>2. QED BY <1>11, <1>12, <2>1
<1>7. Elements(Moved(Recent, k)) = Elements(Recent)
  <2>1. Elements(Moved(r, r[p])) = Elements(r)
    BY <1>11, <1>12, MovedKeeps
  <2>2. QED BY <1>11, <1>12, <2>1
<1>8. Recent' = Moved(Recent, k)
  <2>1. DOMAIN v3' = 1..n
    BY <1>4
  <2>2. ASSUME NEW j \in 1..n PROVE v4'[v3'[j]].key = Moved(Recent, k)[j]
    <3>1. \A i \in 1..n : v3[i] \in DOMAIN v4 /\ v4'[v3[i]].key = Recent[i]
      BY <1>1, Shown
    <3>2. CASE j < p
      BY <1>4, <1>6, <3>1, <3>2
    <3>3. CASE ~(j < p) /\ j < n
      <4>1. j + 1 \in 1..n
        BY <3>3
      <4>2. QED BY <1>4, <1>6, <3>1, <3>3, <4>1
    <3>4. CASE ~(j < p) /\ ~(j < n)
      BY <1>2, <1>4, <1>6, <3>1, <3>4
    <3>5. QED BY <3>2, <3>3, <3>4
  <2>3. Recent' = [j \in 1..n |-> Moved(Recent, k)[j]]
    BY <2>1, <2>2 DEF Recent
  <2>4. Moved(Recent, k) = [j \in 1..n |-> Moved(Recent, k)[j]]
    BY <1>6
  <2>5. QED BY <2>3, <2>4
<1>9. QED BY <1>1, <1>4, <1>5, <1>6, <1>7, <1>8, Shown DEF LruInv

\* The operations of the specification, of what the cache shows.
LEMMA AbstractGet ==
  ASSUME NEW k
  PROVE  Lru!Abstract!Get(k) <=>
           /\ Recent' = (IF k \in DOMAIN v2 THEN Moved(Recent, k) ELSE Recent)
           /\ v5' = (IF k \in DOMAIN v2 THEN <<<<k, Value[k]>>>> ELSE <<>>) /\ v1' = v1 /\ Value' = Value
<1>1. \A s, e : Lru!Abstract!Used(s, e) = Moved(s, e)
  BY RemovesTheFirst DEF Lru!Abstract!Used, Moved
<1>2. DOMAIN Value = DOMAIN v2
  BY DEF Value
<1>3. Lru!Abstract!Get(k) <=>
           /\ Recent' = (IF k \in DOMAIN Value THEN Lru!Abstract!Used(Recent, k) ELSE Recent)
           /\ v5' = (IF k \in DOMAIN Value THEN <<<<k, Value[k]>>>> ELSE <<>>) /\ v1' = v1 /\ Value' = Value
  BY DEF Lru!Abstract!Get, Recent, Value
<1>4. QED BY <1>1, <1>2, <1>3

LEMMA AbstractSet ==
  ASSUME NEW k, NEW x, NEW kept,
         kept = IF Len(Moved(Recent, k)) > v1 THEN Tail(Moved(Recent, k)) ELSE Moved(Recent, k),
         v1' = v1, Recent' = kept, v5' = <<>>,
         Value' = [y \in ToSet(kept) |-> IF y = k THEN x ELSE Value[y]]
  PROVE  Lru!Abstract!Set(k, x)
<1>1. \A s, e : Lru!Abstract!Used(s, e) = Moved(s, e)
  BY RemovesTheFirst DEF Lru!Abstract!Used, Moved
<1>2. \A s : Lru!Abstract!ToSet(s) = ToSet(s)
  BY DEF Lru!Abstract!ToSet, ToSet
<1>3. kept = IF Len(Lru!Abstract!Used(Recent, k)) > v1 THEN Tail(Lru!Abstract!Used(Recent, k)) ELSE Lru!Abstract!Used(Recent, k)
  BY <1>1
<1>4. Value' = [y \in Lru!Abstract!ToSet(kept) |-> IF y = k THEN x ELSE Value[y]]
  BY <1>2
<1>5. QED BY <1>3, <1>4 DEF Lru!Abstract!Set, Recent, Value

LEMMA LruStands ==
  ASSUME LruInv, UNCHANGED <<v1, v2, v3, v4>>
  PROVE  LruInv' /\ Recent' = Recent /\ Value' = Value
<1>1. LruTypes' /\ Injective(v3)' /\ Elements(v3)' = Elements(v3)
  BY DEF LruInv, LruTypes, Injective, Elements
<1>2. QED BY <1>1 DEF LruInv, Recent, Value

LEMMA LruGet == ASSUME LruInv, NEW k \in CacheKeys, Lru!Get(k) PROVE LruInv' /\ Lru!Abstract!Get(k)
<1>1. CASE k \notin DOMAIN v2
  <2>1. UNCHANGED <<v1, v2, v3, v4>> /\ v5' = <<>>
    BY <1>1 DEF Lru!Get
  <2>2. LruInv'
    BY <2>1, LruStands
  <2>3. Recent' = Recent /\ Value' = Value
    BY <2>1, LruStands
  <2>4. QED BY <1>1, <2>1, <2>2, <2>3, AbstractGet
<1>2. CASE k \in DOMAIN v2
  <2>1. UNCHANGED <<v1, v2, v4>> /\ v3' = Moved(v3, v2[k]) /\ v5' = <<<<k, v4[v2[k]].value>>>>
    BY <1>2, RemovesTheFirst DEF Lru!Get, Lru!MoveToBack, Moved
  <2>2. /\ v3' \in Seq(1..v1) /\ Len(v3') = Len(v3) /\ Injective(v3') /\ DOMAIN v4 = Elements(v3')
        /\ Recent' = Moved(Recent, k)
    BY <1>2, <2>1, MovesTheKey
  <2>3. LruInv'
    BY <2>1, <2>2 DEF LruInv, LruTypes, Injective, Elements
  <2>4. Value' = Value /\ Value[k] = v4[v2[k]].value
    BY <1>2, <2>1 DEF Value
  <2>5. QED BY <1>2, <2>1, <2>2, <2>3, <2>4, AbstractGet
<1>3. QED BY <1>1, <1>2

LEMMA LruUpdate ==
  ASSUME LruInv, NEW k \in CacheKeys, NEW x \in CacheValues, Lru!Update(k, x)
  PROVE  LruInv' /\ Lru!Abstract!Set(k, x)
<1>1. PICK u \in DOMAIN v4 : u = v2[k] /\ k \in DOMAIN v2
  BY DEF Lru!Update, LruInv, LruTypes
<1>2. /\ v4' = [v4 EXCEPT ![u] = [v4[u] EXCEPT !.value = x]]
      /\ UNCHANGED <<v1, v2>> /\ v3' = Moved(v3, v2[k]) /\ v5' = <<>>
  BY <1>1, RemovesTheFirst DEF Lru!Update, Lru!MoveToBack, Moved
<1>3. v4[u] \in [key : CacheKeys, value : CacheValues]
  BY DEF LruInv, LruTypes
<1>4. /\ v4'[u] = [v4[u] EXCEPT !.value = x] /\ v4'[u] \in [key : CacheKeys, value : CacheValues]
      /\ v4'[u].key = v4[u].key /\ v4'[u].value = x /\ DOMAIN v4' = DOMAIN v4
      /\ \A e \in DOMAIN v4 : e # u => v4'[e] = v4[e]
  BY <1>2, <1>3 DEF LruInv, LruTypes
<1>5. \A e \in DOMAIN v4 : v4'[e].key = v4[e].key
  BY <1>4
<1>6. /\ v3' \in Seq(1..v1) /\ Len(v3') = Len(v3) /\ Injective(v3') /\ DOMAIN v4 = Elements(v3')
      /\ Recent' = Moved(Recent, k) /\ Moved(Recent, k) \in Seq(CacheKeys)
      /\ Len(Moved(Recent, k)) = Len(v3) /\ DOMAIN v2 = Elements(Moved(Recent, k))
  BY <1>1, <1>2, <1>4, <1>5, MovesTheKey
<1>7. v4' \in [DOMAIN v4 -> [key : CacheKeys, value : CacheValues]]
  BY <1>2, <1>4 DEF LruInv, LruTypes
<1>8. LruInv'
  <2>1. LruTypes'
    BY <1>2, <1>4, <1>6, <1>7 DEF LruInv, LruTypes
  <2>2. DOMAIN v4' = Elements(v3)' /\ Injective(v3)'
    BY <1>4, <1>6 DEF Injective, Elements
  <2>3. QED BY <1>2, <1>4, <1>5, <2>1, <2>2 DEF LruInv, LruTypes
<1>9. Value' = [y \in ToSet(Moved(Recent, k)) |-> IF y = k THEN x ELSE Value[y]]
  <2>1. ToSet(Moved(Recent, k)) = DOMAIN v2
    <3>1. DOMAIN Moved(Recent, k) = 1..Len(Moved(Recent, k))
      BY <1>6
    <3>2. QED BY <1>6, <3>1 DEF ToSet, Elements
  <2>2. ASSUME NEW y \in DOMAIN v2 PROVE v4'[v2[y]].value = IF y = k THEN x ELSE Value[y]
    <3>1. v2[y] \in DOMAIN v4 /\ Value[y] = v4[v2[y]].value
      BY DEF LruInv, LruTypes, Value
    <3>2. v2[y] = u => y = k
      BY <1>1 DEF LruInv
    <3>3. QED BY <1>1, <1>4, <3>1, <3>2
  <2>3. QED BY <1>2, <2>1, <2>2 DEF Value
<1>10. ~(Len(Moved(Recent, k)) > v1)
  BY <1>6 DEF LruInv, LruTypes
<1>11. QED BY <1>2, <1>6, <1>8, <1>9, <1>10, AbstractSet

\* With fewer elements in the list than the capacity there is one to take.
LEMMA OneIsFree ==
  ASSUME NEW c \in Nat, NEW s \in Seq(1..c), Len(s) < c
  PROVE  \E e \in 1..c : e \notin Elements(s)
<1>1. PICK n \in Nat : n = Len(s) /\ DOMAIN s = 1..n
  OBVIOUS
<1> SUFFICES ASSUME \A e \in 1..c : e \in Elements(s) PROVE FALSE
  OBVIOUS
<1>2. s \in [1..n -> 1..c] /\ \A e \in 1..c : \E j \in 1..n : s[j] = e
  BY <1>1, SMTT(30) DEF Elements
<1>3. s \in Surjection(1..n, 1..c)
  BY <1>2 DEF Surjection
<1>4. IsFiniteSet(1..n) /\ Cardinality(1..n) = n /\ Cardinality(1..c) = c
  <2>1. n \in Int /\ c \in Int /\ 1 \in Int
    OBVIOUS
  <2>2. IsFiniteSet(1..n) /\ Cardinality(1..n) = (IF 1 > n THEN 0 ELSE n - 1 + 1)
    BY <2>1, FS_Interval
  <2>3. Cardinality(1..c) = IF 1 > c THEN 0 ELSE c - 1 + 1
    BY <2>1, FS_Interval
  <2>4. QED BY <2>2, <2>3
<1>5. Cardinality(1..c) <= Cardinality(1..n)
  BY <1>3, <1>4, FS_Surjection
<1>6. QED BY <1>1, <1>4, <1>5

\* What is left of a sequence without its first element.
LEMMA TailOf ==
  ASSUME NEW S, NEW s \in Seq(S), Len(s) > 0
  PROVE  /\ Tail(s) \in Seq(S) /\ Len(Tail(s)) = Len(s) - 1 /\ Head(s) = s[1]
         /\ \A j \in 1..Len(s) - 1 : Tail(s)[j] = s[j + 1]
         /\ Injective(s) => Injective(Tail(s)) /\ Elements(Tail(s)) = Elements(s) \ {s[1]}
<1>1. PICK n \in Nat : n = Len(s) /\ n > 0
  OBVIOUS
<1> DEFINE t == Tail(s)
<1>2. t \in Seq(S) /\ Len(t) = n - 1 /\ Head(s) = s[1] /\ \A j \in 1..n - 1 : t[j] = s[j + 1]
  BY <1>1
<1> HIDE DEF t
<1>3. ASSUME Injective(s) PROVE Injective(t)
  BY <1>1, <1>2, <1>3 DEF Injective
<1>4. ASSUME Injective(s) PROVE Elements(t) = Elements(s) \ {s[1]}
  <2>1. ASSUME NEW j \in 1..n - 1 PROVE t[j] \in Elements(s) \ {s[1]}
    <3>1. j + 1 \in 1..n /\ 1 \in 1..n /\ j + 1 # 1
      BY <1>1
    <3>2. QED BY <1>1, <1>2, <1>4, <3>1 DEF Injective, Elements
  <2>2. ASSUME NEW j \in 1..n, j # 1 PROVE s[j] \in Elements(t)
    <3>1. j - 1 \in 1..n - 1 /\ (j - 1) + 1 = j
      BY <2>2
    <3>2. t[j - 1] = s[j]
      BY <1>2, <3>1
    <3>3. QED BY <1>2, <3>1, <3>2 DEF Elements
  <2>3. QED BY <1>1, <1>2, <2>1, <2>2, ZenonT(60) DEF Elements
<1>5. QED BY <1>1, <1>2, <1>3, <1>4 DEF t

\* What Insert keeps when it has made room: a list with a place left, its entries, and the keys that lead to them.
LEMMA RoomIsMade ==
  ASSUME LruInv, v1 # 0
  PROVE  LET full  == Len(v3) >= v1
             kept  == IF full THEN Tail(v3) ELSE v3
             known == IF full THEN Lru!Without(v2, {v4[Head(v3)].key}) ELSE v2
             old   == IF full THEN Lru!Without(v4, {Head(v3)}) ELSE v4
             shown == IF full THEN Tail(Recent) ELSE Recent
         IN  /\ kept \in Seq(1..v1) /\ Len(kept) < v1 /\ Injective(kept)
             /\ old \in [Elements(kept) -> [key : CacheKeys, value : CacheValues]]
             /\ \A e \in Elements(kept) : e \in DOMAIN v4 /\ old[e] = v4[e]
             /\ DOMAIN known = {y \in DOMAIN v2 : v2[y] \in Elements(kept)}
             /\ \A y \in DOMAIN known : known[y] = v2[y]
             /\ shown \in Seq(CacheKeys) /\ Len(shown) = Len(kept)
             /\ \A j \in 1..Len(kept) : shown[j] = v4[kept[j]].key
<1>1. PICK n \in Nat, c \in Nat : n = Len(v3) /\ c = v1 /\ n <= c /\ c > 0
  BY DEF LruInv, LruTypes
<1>2. v3 \in Seq(1..v1) /\ Injective(v3) /\ DOMAIN v4 = Elements(v3) /\ v4 \in [Elements(v3) -> [key : CacheKeys, value : CacheValues]]
  BY DEF LruInv, LruTypes
<1>3. /\ Recent \in Seq(CacheKeys) /\ Len(Recent) = n /\ \A j \in 1..n : v3[j] \in DOMAIN v4 /\ Recent[j] = v4[v3[j]].key
      /\ \A y \in DOMAIN v2 : v2[y] \in DOMAIN v4
  BY <1>1, Shown
<1>4. CASE Len(v3) >= v1
  <2>1. n = c /\ Len(v3) > 0
    BY <1>1, <1>4
  <2>2. /\ Tail(v3) \in Seq(1..v1) /\ Len(Tail(v3)) = n - 1 /\ Head(v3) = v3[1]
        /\ \A j \in 1..n - 1 : Tail(v3)[j] = v3[j + 1]
        /\ Injective(Tail(v3)) /\ Elements(Tail(v3)) = Elements(v3) \ {v3[1]}
    <3>1. PICK s : s = v3
      OBVIOUS
    <3>2. s \in Seq(1..c) /\ Len(s) > 0 /\ Injective(s)
      BY <1>1, <1>2, <2>1, <3>1
    <3>3. /\ Tail(s) \in Seq(1..c) /\ Len(Tail(s)) = Len(s) - 1 /\ Head(s) = s[1]
          /\ \A j \in 1..Len(s) - 1 : Tail(s)[j] = s[j + 1]
          /\ Injective(Tail(s)) /\ Elements(Tail(s)) = Elements(s) \ {s[1]}
      BY <3>2, TailOf
    <3>4. QED BY <1>1, <3>1, <3>3
  <2>3. /\ Tail(Recent) \in Seq(CacheKeys) /\ Len(Tail(Recent)) = n - 1
        /\ \A j \in 1..n - 1 : Tail(Recent)[j] = Recent[j + 1]
    <3>1. Len(Recent) > 0
      BY <1>1, <1>3, <2>1
    <3>2. QED BY <1>3, <3>1, TailOf
  <2>4. \A j \in 1..n - 1 : Tail(Recent)[j] = v4[Tail(v3)[j]].key
    <3> TAKE j \in 1..n - 1
    <3>1. j + 1 \in 1..n
      OBVIOUS
    <3>2. QED BY <1>3, <2>2, <2>3, <3>1
  <2>5. /\ Lru!Without(v4, {v3[1]}) \in [Elements(Tail(v3)) -> [key : CacheKeys, value : CacheValues]]
        /\ \A e \in Elements(Tail(v3)) : e \in DOMAIN v4 /\ Lru!Without(v4, {v3[1]})[e] = v4[e]
    BY <1>2, <2>2 DEF Lru!Without
  <2>6. \A y \in DOMAIN v2 : y = v4[v3[1]].key <=> v2[y] = v3[1]
    <3>1. v3[1] \in DOMAIN v4
      BY <1>1, <1>3, <2>1
    <3>2. QED BY <3>1 DEF LruInv
  <2>7. /\ DOMAIN Lru!Without(v2, {v4[v3[1]].key}) = {y \in DOMAIN v2 : v2[y] \in Elements(Tail(v3))}
        /\ \A y \in DOMAIN Lru!Without(v2, {v4[v3[1]].key}) : Lru!Without(v2, {v4[v3[1]].key})[y] = v2[y]
    BY <1>2, <1>3, <2>2, <2>6 DEF Lru!Without
  <2>8. n - 1 < v1
    BY <1>1, <2>1
  <2>9. QED BY <1>4, <2>2, <2>3, <2>4, <2>5, <2>7, <2>8
<1>5. CASE ~(Len(v3) >= v1)
  <2>1. Len(v3) < v1
    BY <1>1, <1>5
  <2>2. DOMAIN v2 = {y \in DOMAIN v2 : v2[y] \in Elements(v3)}
    BY <1>2, <1>3
  <2>3. QED BY <1>1, <1>2, <1>3, <1>5, <2>1, <2>2
<1>6. QED BY <1>4, <1>5

LEMMA LruInsert ==
  ASSUME LruInv, v1 # 0, NEW k \in CacheKeys, NEW x \in CacheValues, Lru!Insert(k, x)
  PROVE  LruInv' /\ Lru!Abstract!Set(k, x)
<1> DEFINE full  == Len(v3) >= v1
           keep  == IF full THEN Tail(v3) ELSE v3
           rest  == IF full THEN Lru!Without(v2, {v4[Head(v3)].key}) ELSE v2
           kin   == IF full THEN Lru!Without(v4, {Head(v3)}) ELSE v4
           seen  == IF full THEN Tail(Recent) ELSE Recent
<1>1. PICK kept, known, old, shown : kept = keep /\ known = rest /\ old = kin /\ shown = seen
  OBVIOUS
<1>2. /\ kept \in Seq(1..v1) /\ Len(kept) < v1 /\ Injective(kept)
      /\ old \in [Elements(kept) -> [key : CacheKeys, value : CacheValues]]
      /\ \A e \in Elements(kept) : e \in DOMAIN v4 /\ old[e] = v4[e]
      /\ DOMAIN known = {y \in DOMAIN v2 : v2[y] \in Elements(kept)}
      /\ \A y \in DOMAIN known : known[y] = v2[y]
      /\ shown \in Seq(CacheKeys) /\ Len(shown) = Len(kept)
      /\ \A j \in 1..Len(kept) : shown[j] = v4[kept[j]].key
  BY <1>1, RoomIsMade
<1>3. Lru!ToSet(kept) = Elements(kept)
  <2>1. DOMAIN kept = 1..Len(kept)
    BY <1>2
  <2>2. QED BY <2>1 DEF Lru!ToSet, Elements
<1>4. PICK le \in 1..v1 : /\ le \notin Elements(kept)
                          /\ v3' = Append(kept, le) /\ v2' = Lru!With(known, k, le)
                          /\ v4' = Lru!With(old, le, [key |-> k, value |-> x])
  <2>1. PICK c \in Nat : c = v1
    BY DEF LruInv, LruTypes
  <2>2. kept \in Seq(1..c) /\ Len(kept) < c
    BY <1>2, <2>1
  <2>3. \E e \in 1..c : e \notin Elements(kept)
    BY <2>2, OneIsFree
  <2> DEFINE le == CHOOSE e \in 1..v1 : e \notin Lru!ToSet(kept)
  <2>4. le \in 1..v1 /\ le \notin Elements(kept)
    BY <1>3, <2>1, <2>3
  <2>5. v3' = Append(kept, le) /\ v2' = Lru!With(known, k, le) /\ v4' = Lru!With(old, le, [key |-> k, value |-> x])
    BY <1>1 DEF Lru!Insert
  <2> HIDE DEF le
  <2>6. QED BY <2>4, <2>5
<1>5. k \notin DOMAIN v2 /\ v1' = v1 /\ v5' = <<>>
  BY DEF Lru!Insert
<1> HIDE DEF keep, rest, kin, seen
<1>6. PICK n \in Nat : n = Len(kept) /\ Len(shown) = n /\ n < v1
  BY <1>2
<1>7. /\ v3' \in Seq(1..v1) /\ Len(v3') = n + 1 /\ v3'[n + 1] = le /\ \A j \in 1..n : v3'[j] = kept[j]
  BY <1>2, <1>4, <1>6
<1>8. Injective(v3') /\ Elements(v3') = Elements(kept) \cup {le}
  <2>1. 1..n + 1 = 1..n \cup {n + 1} /\ Elements(kept) = {kept[j] : j \in 1..n}
    BY <1>6 DEF Elements
  <2>2. \A j \in 1..n : kept[j] # le
    BY <1>4, <2>1
  <2>3. Injective(v3')
    BY <1>2, <1>6, <1>7, <2>1, <2>2 DEF Injective
  <2>4. Elements(v3') = Elements(kept) \cup {le}
    BY <1>7, <2>1 DEF Elements
  <2>5. QED BY <2>3, <2>4
<1>9. /\ DOMAIN v4' = Elements(kept) \cup {le} /\ v4'[le] = [key |-> k, value |-> x]
      /\ \A e \in Elements(kept) : v4'[e] = v4[e] /\ v4[e] \in [key : CacheKeys, value : CacheValues]
  <2>1. \A e \in Elements(kept) : old[e] \in [key : CacheKeys, value : CacheValues]
    BY <1>2
  <2>2. DOMAIN old = Elements(kept)
    BY <1>2
  <2>3. QED BY <1>2, <1>4, <2>1, <2>2 DEF Lru!With
<1>10. v4' \in [Elements(kept) \cup {le} -> [key : CacheKeys, value : CacheValues]]
  <2>1. [key |-> k, value |-> x] \in [key : CacheKeys, value : CacheValues]
    OBVIOUS
  <2>2. v4' = [e \in Elements(kept) \cup {le} |-> v4'[e]]
    BY <1>4, <1>9 DEF Lru!With
  <2>3. QED BY <1>9, <2>1, <2>2
<1>11. /\ DOMAIN v2' = DOMAIN known \cup {k} /\ v2'[k] = le
       /\ \A y \in DOMAIN known : y # k /\ v2'[y] = v2[y] /\ v2[y] \in Elements(kept)
       /\ v2' = [y \in DOMAIN known \cup {k} |-> v2'[y]]
  BY <1>2, <1>4, <1>5 DEF Lru!With
<1>12. LruInv'
  <2>1. n + 1 <= v1
    BY <1>6 DEF LruInv, LruTypes
  <2>2. LruTypes'
    BY <1>5, <1>7, <1>9, <1>10, <1>11, <2>1 DEF LruInv, LruTypes
  <2>3. Injective(v3)' /\ DOMAIN v4' = Elements(v3)'
    BY <1>8, <1>9 DEF Injective, Elements
  <2>4. \A y \in DOMAIN v2' : v4'[v2'[y]].key = y
    BY <1>2, <1>9, <1>11 DEF LruInv
  <2>5. \A e \in DOMAIN v4' : v4'[e].key \in DOMAIN v2' /\ v2'[v4'[e].key] = e
    <3>1. v4'[le].key \in DOMAIN v2' /\ v2'[v4'[le].key] = le
      BY <1>9, <1>11
    <3>2. ASSUME NEW e \in Elements(kept) PROVE v4'[e].key \in DOMAIN v2' /\ v2'[v4'[e].key] = e
      <4>1. v4'[e] = v4[e] /\ e \in DOMAIN v4
        BY <1>2, <1>9
      <4>2. v4[e].key \in DOMAIN v2 /\ v2[v4[e].key] = e
        BY <4>1 DEF LruInv
      <4>3. v4[e].key \in DOMAIN known
        BY <1>2, <4>2
      <4>4. QED BY <1>11, <4>1, <4>2, <4>3
    <3>3. QED BY <1>9, <3>1, <3>2
  <2>6. QED BY <2>2, <2>3, <2>4, <2>5 DEF LruInv
<1>13. Recent' = Append(shown, k)
  <2>1. Append(shown, k) \in Seq(CacheKeys) /\ Len(Append(shown, k)) = n + 1
        /\ Append(shown, k)[n + 1] = k /\ \A j \in 1..n : Append(shown, k)[j] = shown[j]
    BY <1>2, <1>6
  <2>2. DOMAIN v3' = 1..n + 1 /\ 1..n + 1 = 1..n \cup {n + 1}
    BY <1>7
  <2>3. ASSUME NEW j \in 1..n PROVE v4'[v3'[j]].key = Append(shown, k)[j]
    <3>1. kept[j] \in Elements(kept)
      BY <1>6 DEF Elements
    <3>2. QED BY <1>2, <1>6, <1>7, <1>9, <2>1, <3>1
  <2>4. v4'[v3'[n + 1]].key = Append(shown, k)[n + 1]
    BY <1>7, <1>9, <2>1
  <2>5. Recent' = [j \in 1..n + 1 |-> Append(shown, k)[j]]
    BY <2>2, <2>3, <2>4 DEF Recent
  <2>6. PICK q \in Seq(CacheKeys) : q = Append(shown, k) /\ Len(q) = n + 1
    BY <2>1
  <2>7. q = [j \in 1..n + 1 |-> q[j]]
    <3>1. q = [j \in 1..Len(q) |-> q[j]]
      OBVIOUS
    <3>2. QED BY <2>6, <3>1
  <2>8. QED BY <2>5, <2>6, <2>7
<1>14. Append(shown, k) = IF Len(Moved(Recent, k)) > v1 THEN Tail(Moved(Recent, k)) ELSE Moved(Recent, k)
  <2>1. PICK c \in Nat, m \in Nat : c = v1 /\ m = Len(v3) /\ m = Len(Recent) /\ m <= c /\ c > 0 /\ Recent \in Seq(CacheKeys)
    BY Shown DEF LruInv, LruTypes
  <2>2. RemoveFirst(Recent, k) = Recent
    <3>1. \A j \in 1..Len(Recent) : Recent[j] # k
      BY <1>5, Shown DEF Elements
    <3>2. QED BY <3>1, RemovesTheFirst
  <2>3. Moved(Recent, k) = Append(Recent, k) /\ Len(Append(Recent, k)) = m + 1
    BY <2>1, <2>2 DEF Moved
  <2>4. CASE Len(v3) >= v1
    <3>1. m = c /\ m + 1 > v1
      BY <2>1, <2>4
    <3>2. shown = Tail(Recent)
      BY <1>1, <2>4 DEF seen, full
    <3>3. PICK r \in Seq(CacheKeys) : r = Recent /\ Len(r) = m /\ m > 0
      BY <2>1, <3>1
    <3>4. Tail(Append(r, k)) = Append(Tail(r), k)
      BY <3>3
    <3>5. QED BY <2>3, <3>1, <3>2, <3>3, <3>4
  <2>5. CASE ~(Len(v3) >= v1)
    <3>1. ~(m + 1 > v1)
      BY <2>1, <2>5
    <3>2. shown = Recent
      BY <1>1, <2>5 DEF seen, full
    <3>3. QED BY <2>3, <3>1, <3>2
  <2>6. QED BY <2>4, <2>5
<1>15. Value' = [y \in ToSet(Append(shown, k)) |-> IF y = k THEN x ELSE Value[y]]
  <2>1. ToSet(Append(shown, k)) = DOMAIN v2'
    <3>1. ToSet(Append(shown, k)) = {shown[j] : j \in 1..n} \cup {k}
      <4>1. Append(shown, k) \in Seq(CacheKeys) /\ DOMAIN Append(shown, k) = 1..n + 1
            /\ Append(shown, k)[n + 1] = k /\ \A j \in 1..n : Append(shown, k)[j] = shown[j]
        BY <1>2, <1>6
      <4>2. 1..n + 1 = 1..n \cup {n + 1}
        OBVIOUS
      <4>3. QED BY <4>1, <4>2 DEF ToSet
    <3>2. ASSUME NEW j \in 1..n PROVE shown[j] \in DOMAIN known
      <4>1. kept[j] \in Elements(kept)
        BY <1>6 DEF Elements
      <4>2. kept[j] \in DOMAIN v4 /\ shown[j] = v4[kept[j]].key
        BY <1>2, <1>6, <4>1
      <4>3. shown[j] \in DOMAIN v2 /\ v2[shown[j]] = kept[j]
        BY <4>2 DEF LruInv
      <4>4. QED BY <1>2, <4>1, <4>3
    <3>3. ASSUME NEW y \in DOMAIN known PROVE \E j \in 1..n : shown[j] = y
      <4>1. y \in DOMAIN v2 /\ v2[y] \in Elements(kept)
        BY <1>2
      <4>2. PICK j \in 1..n : kept[j] = v2[y]
        BY <1>6, <4>1 DEF Elements
      <4>3. QED BY <1>2, <1>6, <4>1, <4>2 DEF LruInv
    <3>4. QED BY <1>11, <3>1, <3>2, <3>3
  <2>2. ASSUME NEW y \in DOMAIN v2' PROVE v4'[v2'[y]].value = IF y = k THEN x ELSE Value[y]
    <3>1. CASE y = k
      BY <1>9, <1>11, <3>1
    <3>2. CASE y # k
      <4>1. y \in DOMAIN v2 /\ v2'[y] = v2[y] /\ v2[y] \in Elements(kept)
        BY <1>2, <1>11, <3>2
      <4>2. Value[y] = v4[v2[y]].value
        BY <4>1 DEF Value
      <4>3. QED BY <1>9, <3>2, <4>1, <4>2
    <3>3. QED BY <3>1, <3>2
  <2>3. QED BY <2>1, <2>2 DEF Value
<1>16. QED BY <1>5, <1>12, <1>13, <1>14, <1>15, AbstractSet

LEMMA LruNext == LruInv /\ [Lru!Next]_Lru!vars => LruInv' /\ (Lru!Abstract!Next \/ UNCHANGED <<v1, v2, v3, v4, v5>>)
<1> SUFFICES ASSUME LruInv, [Lru!Next]_Lru!vars
             PROVE  LruInv' /\ (Lru!Abstract!Next \/ UNCHANGED <<v1, v2, v3, v4, v5>>)
  OBVIOUS
<1>1. CASE Lru!RangeOver
  <2>1. PICK n \in 0..Len(v3) : v5' = [j \in 1..n |-> <<v4[v3[j]].key, v4[v3[j]].value>>] /\ UNCHANGED <<v1, v2, v3, v4>>
    BY <1>1 DEF Lru!RangeOver
  <2>2. LruInv'
    BY <2>1, LruStands
  <2>3. v5' = [j \in 1..n |-> <<Recent[j], Value[Recent[j]]>>]
    <3>1. ASSUME NEW j \in 1..n PROVE Recent[j] = v4[v3[j]].key /\ Value[Recent[j]] = v4[v3[j]].value
      <4>1. j \in 1..Len(v3)
        BY Shown
      <4>2. v3[j] \in DOMAIN v4 /\ Recent[j] = v4[v3[j]].key /\ v2[Recent[j]] = v3[j]
        BY <4>1, Shown
      <4>3. Recent[j] \in DOMAIN v2
        BY <4>2 DEF LruInv
      <4>4. QED BY <4>2, <4>3 DEF Value
    <3>2. QED BY <2>1, <3>1
  <2>4. Recent' = Recent /\ Value' = Value /\ v1' = v1 /\ n \in 0..Len(Recent)
    BY <2>1, Shown DEF Recent, Value
  <2>5. Lru!Abstract!RangeOver
    BY <2>3, <2>4 DEF Lru!Abstract!RangeOver, Recent, Value
  <2>6. QED BY <2>2, <2>5 DEF Lru!Abstract!Next
<1>2. CASE Lru!Clear
  <2>1. v2' = Lru!Nothing /\ v3' = <<>> /\ v4' = Lru!Nothing /\ v5' = <<>> /\ v1' = v1 /\ v1 \in Nat
    BY <1>2 DEF Lru!Clear, LruInv, LruTypes
  <2>2. v3' \in Seq(1..v1) /\ Len(v3') = 0 /\ DOMAIN v3' = {} /\ DOMAIN v2' = {} /\ DOMAIN v4' = {}
    BY <2>1, EmptySeq DEF Lru!Nothing
  <2>3. LruInv'
    <3>1. v2' \in [DOMAIN v2' -> DOMAIN v4'] /\ v4' \in [DOMAIN v4' -> [key : CacheKeys, value : CacheValues]]
      BY <2>1 DEF Lru!Nothing
    <3>2. QED BY <2>1, <2>2, <3>1 DEF LruInv, LruTypes, Injective, Elements
  <2>4. Value' = [y \in {} |-> 0] /\ Recent' = <<>>
    BY <2>2 DEF Value, Recent
  <2>5. Lru!Abstract!Clear
    BY <2>1, <2>4 DEF Lru!Abstract!Clear, Recent, Value
  <2>6. QED BY <2>3, <2>5 DEF Lru!Abstract!Next
<1>3. ASSUME NEW k \in CacheKeys, Lru!Get(k) PROVE LruInv' /\ Lru!Abstract!Next
  <2>1. LruInv' /\ Lru!Abstract!Get(k)
    BY <1>3, LruGet
  <2>2. QED BY <2>1 DEF Lru!Abstract!Next
<1>4. ASSUME NEW k \in CacheKeys, NEW x \in CacheValues, Lru!Set(k, x) PROVE LruInv' /\ Lru!Abstract!Next
  <2>1. CASE v1 = 0
    <3>1. UNCHANGED <<v1, v2, v3, v4>> /\ v5' = <<>>
      BY <1>4, <2>1 DEF Lru!Set
    <3>2. LruInv'
      BY <3>1, LruStands
    <3>3. Recent' = Recent /\ Value' = Value
      BY <3>1, LruStands
    <3>4. Len(v3) = 0 /\ Recent = <<>> /\ DOMAIN v2 = {}
      <4>1. Len(v3) = 0
        BY <2>1, Shown DEF LruInv, LruTypes
      <4>2. QED BY <4>1, Shown DEF Elements
    <3>5. Moved(Recent, k) = <<k>>
      <4>1. ~\E j \in 1..Len(Recent) : Recent[j] = k
        BY <3>4, Shown
      <4>2. RemoveFirst(Recent, k) = Recent
        BY <4>1, RemovesTheFirst
      <4>3. Append(Recent, k) = <<k>>
        BY <3>4
      <4>4. QED BY <4>2, <4>3 DEF Moved
    <3>6. Recent = IF Len(Moved(Recent, k)) > v1 THEN Tail(Moved(Recent, k)) ELSE Moved(Recent, k)
      <4>1. Len(<<k>>) = 1 /\ Tail(<<k>>) = <<>>
        OBVIOUS
      <4>2. Len(Moved(Recent, k)) > v1 /\ Tail(Moved(Recent, k)) = Recent
        <5>1. Len(Moved(Recent, k)) = 1 /\ Tail(Moved(Recent, k)) = <<>>
          BY <3>5, <4>1
        <5>2. 1 > v1
          BY <2>1
        <5>3. Len(Moved(Recent, k)) > v1
          BY <5>1, <5>2
        <5>4. Tail(Moved(Recent, k)) = Recent
          BY <3>4, <5>1
        <5>5. QED BY <5>3, <5>4
      <4>3. QED BY <4>2
    <3>7. Value' = [y \in ToSet(Recent) |-> IF y = k THEN x ELSE Value[y]]
      BY <3>3, <3>4 DEF Value, ToSet
    <3>8. Lru!Abstract!Set(k, x)
      BY <3>1, <3>3, <3>6, <3>7, AbstractSet
    <3>9. QED BY <3>2, <3>8 DEF Lru!Abstract!Next
  <2>2. CASE v1 # 0
    <3>1. Lru!Update(k, x) \/ Lru!Insert(k, x)
      BY <1>4, <2>2 DEF Lru!Set
    <3>2. LruInv' /\ Lru!Abstract!Set(k, x)
      BY <2>2, <3>1, LruUpdate, LruInsert
    <3>3. QED BY <3>2 DEF Lru!Abstract!Next
  <2>3. QED BY <2>1, <2>2
<1>5. CASE UNCHANGED Lru!vars
  BY <1>5, LruStands DEF Lru!vars
<1>6. QED BY <1>1, <1>2, <1>3, <1>4, <1>5 DEF Lru!Next

(***************************************************************************)
(* Map and list together are the cache that forgets the key used longest   *)
(* ago, whatever its capacity, keys and values.                            *)
(***************************************************************************)
THEOREM CacheImplements == Lru!Spec => LruImplements
<1>1. LruInv /\ [Lru!Next]_Lru!vars
      => [part = "lru" => (Lru!Abstract!Next \/ UNCHANGED <<v1, v2, v3, v4, v5>>)]_allVars
  BY LruNext
<1>2. LruInv /\ [Lru!Next]_Lru!vars => LruInv'
  BY LruNext
<1>3. QED BY <1>1, <1>2, LruInit, PTL DEF Lru!Spec, LruImplements

-----------------------------------------------------------------------------
\* ExternalSort.  v1 is pc, v2 i, v3 files, v4 lines, v5 written, v6 pos, v7 heap, v8 out, v9 origin,
\* v10 failed, v11 torn.

SortFiles == [lines : Seq(Nat), open : BOOLEAN]
\* Only a line that is not empty can be unfinished.
WellFormed(f) == f \in SortFiles /\ (f.open => Len(f.lines) > 0 /\ f.lines[Len(f.lines)] # 0)

LEMMA GivenFiles == \A input \in Unsorted : input \in Seq(SortFiles) /\ \A f \in 1..Len(input) : WellFormed(input[f])
<1> TAKE input \in Unsorted
<1>1. input \in Seq(SortFiles) /\ \A f \in DOMAIN input : LET last == Len(input[f].lines) IN
                                    input[f].open => last > 0 /\ input[f].lines[last] # 0
  BY ServicesAssumption DEF Sorter!ExternalSortAssumption, SortFiles
<1>2. DOMAIN input = 1..Len(input) /\ \A f \in 1..Len(input) : input[f] \in SortFiles
  BY <1>1
<1>3. QED BY <1>1, <1>2 DEF WellFormed

\* ReadLine gives a line that counts until all are read.
LEMMA LineRead ==
  ASSUME NEW f, WellFormed(f), NEW k \in Nat, k <= Len(f.lines)
  PROVE  LET next == Sorter!ReadLine(f, k) IN
         /\ k < Len(f.lines) => /\ next.line = f.lines[k + 1]
                                /\ next.err <=> f.open /\ k = Len(f.lines) - 1
                                /\ ~(next.err /\ next.line = 0)
         /\ k = Len(f.lines) => next.err /\ next.line = 0
<1>1. Len(f.lines) \in Nat
  BY DEF WellFormed, SortFiles
<1>2. CASE k < Len(f.lines)
  <2>1. Sorter!ReadLine(f, k) = [line |-> f.lines[k + 1], err |-> f.open /\ k = Len(f.lines) - 1]
    BY <1>2 DEF Sorter!ReadLine
  <2>2. f.open /\ k = Len(f.lines) - 1 => k + 1 = Len(f.lines) /\ f.lines[Len(f.lines)] # 0
    BY <1>1 DEF WellFormed
  <2>3. PICK next : next = Sorter!ReadLine(f, k)
    OBVIOUS
  <2>4. next.line = f.lines[k + 1] /\ (next.err <=> f.open /\ k = Len(f.lines) - 1)
    <3>1. next = [line |-> f.lines[k + 1], err |-> f.open /\ k = Len(f.lines) - 1]
      BY <2>1, <2>3
    <3>2. next.line = f.lines[k + 1]
      BY <3>1
    <3>3. CASE f.open /\ k = Len(f.lines) - 1
      <4>1. next.err = TRUE
        BY <3>1, <3>3
      <4>2. QED BY <3>2, <3>3, <4>1
    <3>4. CASE ~(f.open /\ k = Len(f.lines) - 1)
      <4>1. next.err = FALSE
        BY <3>1, <3>4
      <4>2. QED BY <3>2, <3>4, <4>1
    <3>5. QED BY <3>3, <3>4
  <2>5. ~(next.err /\ next.line = 0)
    BY <2>2, <2>4
  <2>6. QED BY <1>1, <1>2, <2>3, <2>4, <2>5
<1>3. CASE k = Len(f.lines)
  <2>1. ~(k < Len(f.lines))
    BY <1>1, <1>3
  <2>2. Sorter!ReadLine(f, k) = [line |-> 0, err |-> TRUE]
    BY <2>1 DEF Sorter!ReadLine
  <2>3. QED BY <1>3, <2>1, <2>2
<1>4. QED BY <1>1, <1>2, <1>3

LEMMA SeqIsFunction == ASSUME NEW S, NEW s \in Seq(S) PROVE s = [k \in 1..Len(s) |-> s[k]]
BY DOMAIN s = 1..Len(s), s = [k \in DOMAIN s |-> s[k]]

\* ReadAll gives all lines.
LEMMA AllRead == ASSUME NEW f, WellFormed(f) PROVE Sorter!ReadAll(f) = f.lines
<1> DEFINE stops(k) == Sorter!ReadLine(f, k).err /\ \A j \in 0..k - 1 : ~Sorter!ReadLine(f, j).err
           n == CHOOSE k \in 0..Len(f.lines) : stops(k)
           last == IF f.open THEN Len(f.lines) - 1 ELSE Len(f.lines)
<1>1. f.lines \in Seq(Nat) /\ Len(f.lines) \in Nat /\ last \in 0..Len(f.lines) /\ f.open \in BOOLEAN
  BY DEF WellFormed, SortFiles
<1>2. \A k \in 0..Len(f.lines) : Sorter!ReadLine(f, k).err <=> k >= last
  <2> TAKE k \in 0..Len(f.lines)
  <2>1. CASE k < Len(f.lines)
    <3>1. Sorter!ReadLine(f, k).err <=> f.open /\ k = Len(f.lines) - 1
      BY <1>1, <2>1, LineRead
    <3>2. QED BY <1>1, <2>1, <3>1
  <2>2. CASE k = Len(f.lines)
    <3>1. Sorter!ReadLine(f, k).err
      BY <1>1, <2>2, LineRead
    <3>2. QED BY <1>1, <2>2, <3>1
  <2>3. QED BY <1>1, <2>1, <2>2
<1>3. stops(last) /\ \A k \in 0..Len(f.lines) : stops(k) => k = last
  <2> HIDE DEF last
  <2>1. stops(last)
    BY <1>1, <1>2
  <2>2. ASSUME NEW k \in 0..Len(f.lines), stops(k) PROVE k = last
    <3>1. k >= last
      BY <1>2, <2>2
    <3>2. ~(last \in 0..k - 1)
      BY <1>1, <1>2, <2>2
    <3>3. QED BY <1>1, <3>1, <3>2
  <2>3. QED BY <2>1, <2>2
<1>4. n = last
  <2> HIDE DEF stops, last
  <2>1. QED BY <1>1, <1>3
<1> HIDE DEF n
<1> DEFINE all == IF Sorter!ReadLine(f, n).line = 0 THEN n ELSE n + 1
<1>5. all = Len(f.lines)
  <2>1. CASE f.open
    <3>1. n < Len(f.lines) /\ n + 1 = Len(f.lines) /\ n \in Nat
      BY <1>1, <1>4, <2>1 DEF WellFormed
    <3>2. Sorter!ReadLine(f, n).line # 0
      BY <1>2, <1>4, <1>1, <3>1, LineRead
    <3>3. QED BY <3>1, <3>2
  <2>2. CASE ~f.open
    <3>1. n = Len(f.lines) /\ n \in Nat
      BY <1>1, <1>4, <2>2
    <3>2. Sorter!ReadLine(f, n).line = 0
      BY <3>1, LineRead
    <3>3. QED BY <3>1, <3>2
  <2>3. QED BY <1>1, <2>1, <2>2
<1>6. Sorter!ReadAll(f) = [k \in 1..all |-> Sorter!ReadLine(f, k - 1).line]
  BY DEF Sorter!ReadAll, n
<1>7. \A k \in 1..Len(f.lines) : Sorter!ReadLine(f, k - 1).line = f.lines[k]
  <2> TAKE k \in 1..Len(f.lines)
  <2>1. PICK j \in Nat : j = k - 1 /\ j < Len(f.lines) /\ j + 1 = k
    BY <1>1
  <2>2. QED BY <1>1, <2>1, LineRead
<1> HIDE DEF all
<1>8. f.lines = [k \in 1..Len(f.lines) |-> f.lines[k]]
  BY <1>1, SeqIsFunction
<1>9. Sorter!ReadAll(f) = [k \in 1..Len(f.lines) |-> Sorter!ReadLine(f, k - 1).line]
  BY <1>5, <1>6
<1>10. [k \in 1..Len(f.lines) |-> Sorter!ReadLine(f, k - 1).line] = [k \in 1..Len(f.lines) |-> f.lines[k]]
  BY <1>7
<1>11. QED BY <1>8, <1>9, <1>10

-----------------------------------------------------------------------------
\* b takes each element of T once.
Matches(b, S, T) == b \in [S -> T] /\ (\A x, y \in S : b[x] = b[y] => x = y) /\ \A t \in T : \E x \in S : b[x] = t

LEMMA Bijections == ASSUME NEW S, NEW T, NEW b PROVE b \in Sorter!Bijection(S, T) <=> Matches(b, S, T)
BY DEF Sorter!Bijection, Sorter!Injection, Sorter!Surjection, Sorter!IsInjective, Matches

LEMMA PermutesItself == ASSUME NEW s PROVE Sorter!Permutes(s, s)
<1>1. PICK b : b = [k \in DOMAIN s |-> k]
  OBVIOUS
<1>2. Matches(b, DOMAIN s, DOMAIN s) /\ \A k \in DOMAIN s : s[k] = s[b[k]]
  BY <1>1 DEF Matches
<1>3. QED BY <1>2, Bijections DEF Sorter!Permutes

LEMMA SortedLines ==
  ASSUME NEW s \in Seq(Nat), NEW t \in Sorter!SortStrings(s)
  PROVE  t \in Seq(Nat) /\ Sorter!InOrder(t) /\ Sorter!Permutes(t, s)
<1>1. Sorter!InOrder(t)
  BY DEF Sorter!SortStrings
<1>2. PICK b \in Sorter!Bijection(DOMAIN s, DOMAIN s) : t = [k \in DOMAIN s |-> s[b[k]]]
  BY DEF Sorter!SortStrings
<1>3. Matches(b, DOMAIN s, DOMAIN s)
  BY Bijections
<1>4. PICK n \in Nat : DOMAIN s = 1..n /\ \A k \in 1..n : s[k] \in Nat
  BY LenProperties
<1>5. t \in [1..n -> Nat]
  BY <1>2, <1>3, <1>4 DEF Matches
<1>6. t \in Seq(Nat)
  BY <1>5, FunctionIsSeq
<1>7. DOMAIN t = DOMAIN s /\ \A k \in DOMAIN t : t[k] = s[b[k]]
  BY <1>2
<1>8. QED BY <1>1, <1>6, <1>7 DEF Sorter!Permutes

SortTypes ==
  /\ v1 \in {"open", "create", "write", "error", "merge", "nil"} /\ v9 \in Unsorted /\ v2 \in Nat \ {0}
  /\ v3 \in [1..Len(v9) -> SortFiles] /\ v4 \in Seq(Nat) /\ v5 \in Nat
  /\ v6 \in [1..Len(v9) -> Nat] /\ v7 \subseteq Nat \X (1..Len(v9)) /\ v8 \in Seq(Nat)

\* Files below i are done, those above are as they were.
FilesAreSorted ==
  \A f \in 1..Len(v9) :
    /\ (f < v2 => ~v3[f].open /\ Sorter!InOrder(v3[f].lines) /\ Sorter!Permutes(v3[f].lines, v9[f].lines))
    /\ (f > v2 \/ (f = v2 /\ v1 \in {"open", "create"}) => v3[f] = v9[f])

\* The lines of file i are on their way.
CurrentFile ==
  /\ v1 \in {"create", "write"} => v2 <= Len(v9) /\ Sorter!InOrder(v4) /\ Sorter!Permutes(v4, v9[v2].lines)
  /\ v1 = "write" => /\ v5 <= Len(v4) /\ ~v3[v2].open /\ Len(v3[v2].lines) = v5
                     /\ \A k \in 1..v5 : v3[v2].lines[k] = v4[k]

Waiting(r) == \E x \in v7 : x[2] = r
\* A reader whose turn has come holds a line in the heap until it has read all.
HeapIsRight ==
  /\ (v1 \in {"merge", "nil"} => v2 > 2 * Len(v9)) /\ (v1 = "nil" => v7 = {})
  /\ \A x \in v7 : /\ x[2] + Len(v9) < v2 /\ v6[x[2]] \in 1..Len(v3[x[2]].lines)
                   /\ x[1] = v3[x[2]].lines[v6[x[2]]]
  /\ \A r \in 1..Len(v9) : /\ v6[r] <= Len(v3[r].lines)
                           /\ (r + Len(v9) >= v2 => v6[r] = 0)
                           /\ (r + Len(v9) < v2 => v6[r] = Len(v3[r].lines) \/ Waiting(r))

\* Nothing is out before the merge.
NothingOut ==
  v1 \in {"open", "create", "write"} =>
    v8 = <<>> /\ \A r \in 1..Len(v9) : v6[r] = 0 \/ (v6[r] = 1 /\ Waiting(r))

\* What has left the heap: <<file, line>>.
Out == {p \in (1..Len(v9)) \X (Nat \ {0}) : (p[2] <= v6[p[1]]) /\ (Waiting(p[1]) => p[2] # v6[p[1]])}
OutIsRead ==
  v1 \in {"merge", "nil"} => \E b : /\ Matches(b, DOMAIN v8, Out)
                                    /\ \A a \in DOMAIN v8 : v8[a] = v3[b[a][1]].lines[b[a][2]]

OutInOrder == Sorter!InOrder(v8) /\ \A a \in DOMAIN v8, x \in v7 : v8[a] <= x[1]

SortInv == SortTypes /\ FilesAreSorted /\ CurrentFile /\ HeapIsRight /\ NothingOut /\ OutIsRead /\ OutInOrder

LEMMA SortSizes == SortTypes => Len(v9) \in Nat /\ Len(v3) = Len(v9)
<1> HAVE SortTypes
<1>1. Len(v9) \in Nat
  BY GivenFiles DEF SortTypes
<1>2. v3 \in [1..Len(v9) -> SortFiles]
  BY DEF SortTypes
<1>3. QED BY <1>1, <1>2, FunctionIsSeq

LEMMA FileLengths == SortTypes => \A f \in 1..Len(v9) : Len(v3[f].lines) \in Nat /\ v3[f].lines \in Seq(Nat) /\ v3[f].open \in BOOLEAN
<1> HAVE SortTypes
<1> TAKE f \in 1..Len(v9)
<1>1. v3[f] \in SortFiles
  BY DEF SortTypes
<1>2. QED BY <1>1 DEF SortFiles

LEMMA SortInit == Sorter!Init => SortInv
<1> HAVE Sorter!Init
<1>1. v1 = "open" /\ v2 = 1 /\ v9 \in Unsorted /\ v3 = v9 /\ v4 = <<>> /\ v5 = 0 /\ v7 = {} /\ v8 = <<>>
      /\ v6 = [r \in DOMAIN v3 |-> 0]
  BY DEF Sorter!Init
<1>2. v9 \in Seq(SortFiles) /\ Len(v9) \in Nat /\ DOMAIN v9 = 1..Len(v9)
  BY <1>1, GivenFiles
<1>3. v3 \in [1..Len(v9) -> SortFiles] /\ v6 \in [1..Len(v9) -> Nat] /\ \A r \in 1..Len(v9) : v6[r] = 0
  BY <1>1, <1>2
<1>4. SortTypes
  BY <1>1, <1>2, <1>3 DEF SortTypes
<1>5. FilesAreSorted /\ CurrentFile /\ NothingOut /\ OutIsRead /\ OutInOrder
  BY <1>1, <1>2, <1>3 DEF FilesAreSorted, CurrentFile, NothingOut, OutIsRead, OutInOrder, Sorter!InOrder
<1>6. HeapIsRight
  BY <1>1, <1>2, <1>3, <1>4, FileLengths DEF HeapIsRight
<1>7. QED BY <1>4, <1>5, <1>6 DEF SortInv

LEMMA SortFails == SortInv /\ Sorter!Fail => SortInv'
<1> SUFFICES ASSUME SortInv, Sorter!Fail PROVE SortInv'
  OBVIOUS
<1>1. v1' = "error" /\ UNCHANGED <<v2, v3, v4, v5, v6, v7, v8, v9>>
  BY DEF Sorter!Fail, Sorter!merging, Sorter!history
<1>2. SortTypes' /\ CurrentFile' /\ NothingOut' /\ OutIsRead' /\ OutInOrder'
  BY <1>1 DEF SortInv, SortTypes, CurrentFile, NothingOut, OutIsRead, OutInOrder
<1>3. FilesAreSorted'
  BY <1>1 DEF SortInv, FilesAreSorted
<1>4. HeapIsRight'
  BY <1>1 DEF SortInv, HeapIsRight, Waiting
<1>5. QED BY <1>2, <1>3, <1>4 DEF SortInv

\* Nothing is in the heap while the files are sorted.
LEMMA HeapIsEmpty == SortInv /\ v2 <= Len(v9) => v7 = {} /\ \A r \in 1..Len(v9) : v6[r] = 0
<1> HAVE SortInv /\ v2 <= Len(v9)
<1>1. Len(v9) \in Nat /\ v2 \in Nat /\ v7 \subseteq Nat \X (1..Len(v9))
  BY SortSizes DEF SortInv, SortTypes
<1>2. \A x \in v7 : x[2] \in 1..Len(v9) /\ x[2] + Len(v9) < v2
  BY <1>1 DEF SortInv, HeapIsRight
<1>3. \A r \in 1..Len(v9) : r + Len(v9) >= v2
  BY <1>1
<1>4. QED BY <1>1, <1>2, <1>3 DEF SortInv, HeapIsRight

LEMMA EarlyHeap ==
  SortInv /\ v2 <= Len(v9) /\ SortTypes' /\ UNCHANGED <<v6, v7, v8, v9>> /\ v2' <= Len(v9) + 1 /\ v1 \notin {"merge", "error"}
          /\ v1' \notin {"merge", "nil"}
    => HeapIsRight' /\ NothingOut' /\ OutIsRead' /\ OutInOrder'
<1> SUFFICES ASSUME SortInv, v2 <= Len(v9), SortTypes', UNCHANGED <<v6, v7, v8, v9>>, v2' <= Len(v9) + 1,
                    v1 \notin {"merge", "error"}, v1' \notin {"merge", "nil"}
             PROVE  HeapIsRight' /\ NothingOut' /\ OutIsRead' /\ OutInOrder'
  OBVIOUS
<1>1. v7' = {} /\ (\A r \in 1..Len(v9) : v6'[r] = 0) /\ Len(v9) \in Nat /\ v2 \in Nat /\ v2' \in Nat /\ v9' = v9
  BY HeapIsEmpty, SortSizes DEF SortInv, SortTypes
<1>2. v1 \in {"open", "create", "write"} /\ v8 = <<>>
  <2>1. v1 # "nil"
    BY <1>1 DEF SortInv, HeapIsRight
  <2>2. QED BY <2>1 DEF SortInv, SortTypes, NothingOut
<1>3. \A r \in 1..Len(v9) : r + Len(v9) >= v2' /\ Len(v3'[r].lines) \in Nat
  <2>1. \A f \in 1..Len(v9) : v3'[f] \in SortFiles
    BY <1>1 DEF SortTypes
  <2>2. QED BY <1>1, <2>1 DEF SortFiles
<1>4. HeapIsRight'
  BY <1>1, <1>3 DEF HeapIsRight
<1>5. QED BY <1>1, <1>2, <1>4 DEF NothingOut, OutIsRead, SortInv, OutInOrder

\* Where no read fails, a file is read as a whole.
LEMMA SortReads == SortInv /\ v10' = {} /\ Sorter!ReadFile => SortInv'
<1> SUFFICES ASSUME SortInv, v10' = {}, Sorter!ReadFile PROVE SortInv'
  OBVIOUS
<1>0. v10' # v10 \cup {v2}
  OBVIOUS
<1>1. v1 = "open" /\ v2 <= Len(v3) /\ v1' = "create" /\ v4' \in Sorter!SortStrings(Sorter!ReadAll(v3[v2]))
      /\ UNCHANGED <<v2, v3, v5, v6, v7, v8, v9>>
  BY <1>0 DEF Sorter!ReadFile, Sorter!merging
<1>2. v2 \in 1..Len(v9) /\ Len(v9) \in Nat /\ v3[v2] = v9[v2] /\ WellFormed(v9[v2])
  <2>1. v2 \in 1..Len(v9) /\ Len(v9) \in Nat /\ v9 \in Unsorted
    BY <1>1, SortSizes DEF SortInv, SortTypes
  <2>2. v3[v2] = v9[v2]
    BY <1>1, <2>1 DEF SortInv, FilesAreSorted
  <2>3. QED BY <2>1, <2>2, GivenFiles
<1>3. v4' \in Sorter!SortStrings(v9[v2].lines) /\ v9[v2].lines \in Seq(Nat)
  BY <1>1, <1>2, AllRead DEF WellFormed, SortFiles
<1>4. v4' \in Seq(Nat) /\ Sorter!InOrder(v4') /\ Sorter!Permutes(v4', v9[v2].lines)
  BY <1>3, SortedLines
<1>5. SortTypes'
  BY <1>1, <1>4 DEF SortInv, SortTypes
<1>6. CurrentFile'
  BY <1>1, <1>2, <1>4 DEF CurrentFile
<1>7. FilesAreSorted'
  BY <1>1 DEF SortInv, FilesAreSorted
<1>8. HeapIsRight' /\ NothingOut' /\ OutIsRead' /\ OutInOrder'
  BY <1>1, <1>2, <1>5, EarlyHeap
<1>9. QED BY <1>5, <1>6, <1>7, <1>8 DEF SortInv

LEMMA SortCreates == SortInv /\ Sorter!Create => SortInv'
<1> SUFFICES ASSUME SortInv, Sorter!Create PROVE SortInv'
  OBVIOUS
<1>1. v1 = "create" /\ v1' = "write" /\ v3' = [v3 EXCEPT ![v2] = [lines |-> <<>>, open |-> FALSE]] /\ v5' = 0
      /\ UNCHANGED <<v2, v4, v6, v7, v8, v9>>
  BY DEF Sorter!Create, Sorter!merging, Sorter!history
<1>2. v2 \in 1..Len(v9) /\ Len(v9) \in Nat /\ v3 \in [1..Len(v9) -> SortFiles]
  BY <1>1, SortSizes DEF SortInv, SortTypes, CurrentFile
<1>3. PICK empty \in SortFiles : empty = [lines |-> <<>>, open |-> FALSE]
  <2>1. PICK e : e = [lines |-> <<>>, open |-> FALSE]
    OBVIOUS
  <2>2. e \in SortFiles
    BY <2>1 DEF SortFiles
  <2>3. QED BY <2>1, <2>2
<1>4. v3' \in [1..Len(v9) -> SortFiles] /\ v3'[v2] = empty /\ \A f \in 1..Len(v9) : f # v2 => v3'[f] = v3[f]
  BY <1>1, <1>2, <1>3
<1>5. SortTypes'
  BY <1>1, <1>4 DEF SortInv, SortTypes
<1>6. CurrentFile'
  <2>1. empty.lines = <<>> /\ empty.open = FALSE
    BY <1>3
  <2>2. Len(v4) \in Nat
    BY DEF SortInv, SortTypes
  <2>3. QED BY <1>1, <1>4, <2>1, <2>2 DEF SortInv, CurrentFile
<1>7. FilesAreSorted'
  BY <1>1, <1>2, <1>4 DEF SortInv, FilesAreSorted
<1>8. HeapIsRight' /\ NothingOut' /\ OutIsRead' /\ OutInOrder'
  BY <1>1, <1>2, <1>5, EarlyHeap
<1>9. QED BY <1>5, <1>6, <1>7, <1>8 DEF SortInv

LEMMA Appended ==
  ASSUME NEW S, NEW s \in Seq(S), NEW x \in S, NEW t, t = Append(s, x)
  PROVE  t \in Seq(S) /\ Len(t) = Len(s) + 1 /\ t[Len(s) + 1] = x /\ \A k \in 1..Len(s) : t[k] = s[k]
OBVIOUS

LEMMA SortWrites == SortInv /\ Sorter!WriteLine => SortInv'
<1> SUFFICES ASSUME SortInv, Sorter!WriteLine PROVE SortInv'
  OBVIOUS
<1>1. PICK more : more = Append(v3[v2].lines, v4[v5 + 1])
  OBVIOUS
<1>2. v1 = "write" /\ v5 < Len(v4) /\ UNCHANGED <<v2, v4, v6, v7, v8, v9>>
      /\ (\/ v3' = [v3 EXCEPT ![v2].lines = more] /\ v5' = v5 + 1 /\ v1' = v1
          \/ v3' = [v3 EXCEPT ![v2] = [lines |-> more, open |-> TRUE]] /\ v1' = "error" /\ v5' = v5)
  BY <1>1 DEF Sorter!WriteLine, Sorter!merging, Sorter!history
<1>3. v2 \in 1..Len(v9) /\ Len(v9) \in Nat /\ v3 \in [1..Len(v9) -> SortFiles] /\ v5 \in Nat /\ v4 \in Seq(Nat)
  BY <1>2, SortSizes DEF SortInv, SortTypes, CurrentFile
<1>4. PICK l \in Seq(Nat) : l = v3[v2].lines /\ Len(l) = v5 /\ (\A k \in 1..v5 : l[k] = v4[k]) /\ ~v3[v2].open
  BY <1>2, <1>3, FileLengths DEF SortInv, CurrentFile
<1>5. v4[v5 + 1] \in Nat
  BY <1>2, <1>3
<1>6. more \in Seq(Nat) /\ Len(more) = v5 + 1 /\ more[v5 + 1] = v4[v5 + 1] /\ \A k \in 1..v5 : more[k] = v4[k]
  BY <1>1, <1>4, <1>5, Appended
<1>7. PICK new \in SortFiles : /\ v3' = [v3 EXCEPT ![v2] = new] /\ new.lines = more
                               /\ \/ v1' = "error" /\ v5' = v5
                                  \/ v1' = "write" /\ v5' = v5 + 1 /\ ~new.open
  <2>1. CASE v3' = [v3 EXCEPT ![v2].lines = more] /\ v5' = v5 + 1 /\ v1' = v1
    <3>1. PICK old \in SortFiles : old = v3[v2]
      BY <1>3
    <3>2. PICK new : new = [old EXCEPT !.lines = more]
      OBVIOUS
    <3>3. new \in SortFiles /\ new.lines = more /\ new.open = old.open
      BY <1>6, <3>1, <3>2 DEF SortFiles
    <3>4. v3' = [v3 EXCEPT ![v2] = new]
      BY <1>3, <2>1, <3>1, <3>2
    <3>5. QED BY <1>2, <1>4, <2>1, <3>1, <3>3, <3>4
  <2>2. CASE v3' = [v3 EXCEPT ![v2] = [lines |-> more, open |-> TRUE]] /\ v1' = "error" /\ v5' = v5
    <3>1. PICK new : new = [lines |-> more, open |-> TRUE]
      OBVIOUS
    <3>2. new \in SortFiles /\ new.lines = more
      BY <1>6, <3>1 DEF SortFiles
    <3>3. QED BY <2>2, <3>1, <3>2
  <2>3. QED BY <1>2, <2>1, <2>2
<1>8. v3' \in [1..Len(v9) -> SortFiles] /\ v3'[v2] = new /\ \A f \in 1..Len(v9) : f # v2 => v3'[f] = v3[f]
  BY <1>3, <1>7
<1>9. SortTypes'
  BY <1>2, <1>3, <1>7, <1>8 DEF SortInv, SortTypes
<1>10. CurrentFile'
  <2>1. v1' = "write" => v5' <= Len(v4) /\ ~new.open /\ Len(more) = v5' /\ \A k \in 1..v5' : more[k] = v4[k]
    <3>1. Len(v4) \in Nat /\ v5 + 1 <= Len(v4)
      BY <1>2, <1>3
    <3>2. \A k \in 1..v5 + 1 : k = v5 + 1 \/ k \in 1..v5
      BY <1>3
    <3>3. QED BY <1>6, <1>7, <3>1, <3>2
  <2>2. QED BY <1>2, <1>7, <1>8, <2>1 DEF SortInv, CurrentFile
<1>11. FilesAreSorted'
  BY <1>2, <1>3, <1>7, <1>8 DEF SortInv, FilesAreSorted
<1>12. HeapIsRight' /\ NothingOut' /\ OutIsRead' /\ OutInOrder'
  BY <1>2, <1>3, <1>7, <1>9, EarlyHeap
<1>13. QED BY <1>9, <1>10, <1>11, <1>12 DEF SortInv

LEMMA SameSeq ==
  ASSUME NEW S, NEW s \in Seq(S), NEW t \in Seq(S), Len(s) = Len(t), \A k \in 1..Len(s) : s[k] = t[k]
  PROVE  s = t
OBVIOUS

LEMMA SortNextFile == SortInv /\ Sorter!NextFile => SortInv'
<1> SUFFICES ASSUME SortInv, Sorter!NextFile PROVE SortInv'
  OBVIOUS
<1>1. v1 = "write" /\ v5 = Len(v4) /\ v1' = "open" /\ v2' = v2 + 1 /\ UNCHANGED <<v3, v4, v5, v6, v7, v8, v9>>
  BY DEF Sorter!NextFile, Sorter!merging, Sorter!history
<1>2. v2 \in 1..Len(v9) /\ Len(v9) \in Nat /\ v4 \in Seq(Nat)
  BY <1>1, SortSizes DEF SortInv, SortTypes, CurrentFile
<1>3. v3[v2].lines = v4 /\ ~v3[v2].open /\ Sorter!InOrder(v4) /\ Sorter!Permutes(v4, v9[v2].lines)
  <2>1. PICK l \in Seq(Nat) : l = v3[v2].lines
    BY <1>2, FileLengths DEF SortInv
  <2>2. Len(l) = Len(v4) /\ (\A k \in 1..Len(l) : l[k] = v4[k]) /\ ~v3[v2].open
    BY <1>1, <2>1 DEF SortInv, CurrentFile
  <2>3. l = v4
    BY <1>2, <2>2, SameSeq
  <2>4. QED BY <1>1, <2>1, <2>2, <2>3 DEF SortInv, CurrentFile
<1>4. SortTypes'
  BY <1>1, <1>2 DEF SortInv, SortTypes
<1>5. CurrentFile'
  BY <1>1 DEF CurrentFile
<1>6. FilesAreSorted'
  <2> SUFFICES ASSUME NEW f \in 1..Len(v9)
               PROVE  /\ f < v2 + 1 => ~v3[f].open /\ Sorter!InOrder(v3[f].lines) /\ Sorter!Permutes(v3[f].lines, v9[f].lines)
                      /\ f > v2 + 1 \/ f = v2 + 1 => v3[f] = v9[f]
    BY <1>1 DEF FilesAreSorted
  <2>1. f < v2 + 1 => f < v2 \/ f = v2
    BY <1>2
  <2>2. f > v2 + 1 \/ f = v2 + 1 => f > v2
    BY <1>2
  <2>3. QED BY <1>3, <2>1, <2>2 DEF SortInv, FilesAreSorted
<1>7. HeapIsRight' /\ NothingOut' /\ OutIsRead' /\ OutInOrder'
  BY <1>1, <1>2, <1>4, EarlyHeap
<1>8. QED BY <1>4, <1>5, <1>6, <1>7 DEF SortInv

\* What Refill does with a file that is sorted.
LEMMA Refilled ==
  ASSUME SortInv, v11 = {}, NEW r \in 1..Len(v9), r < v2, NEW rest, Sorter!Refill(r, rest)
  PROVE  \/ /\ v6[r] < Len(v3[r].lines) /\ v6' = [v6 EXCEPT ![r] = v6[r] + 1]
            /\ v7' = rest \cup {<<v3[r].lines[v6[r] + 1], r>>}
         \/ v6[r] = Len(v3[r].lines) /\ v6' = v6 /\ v7' = rest
<1>1. PICK k \in Nat : k = v6[r] /\ k <= Len(v3[r].lines) /\ Len(v3[r].lines) \in Nat /\ v6 \in [1..Len(v9) -> Nat]
  BY FileLengths DEF SortInv, SortTypes, HeapIsRight
<1>2. WellFormed(v3[r])
  BY DEF SortInv, SortTypes, FilesAreSorted, WellFormed
<1>3. PICK next : next = Sorter!ReadLine(v3[r], k)
  OBVIOUS
<1>4. v6' = [v6 EXCEPT ![r] = IF k < Len(v3[r].lines) THEN k + 1 ELSE k]
      /\ v7' = rest \cup (IF next.err /\ next.line = 0 THEN {} ELSE {<<next.line, r>>})
  <2>1. v6' = [v6 EXCEPT ![r] = IF k < Len(v3[r].lines) THEN k + 1 ELSE k]
    BY <1>1 DEF Sorter!Refill
  <2>2. r \notin v11
    OBVIOUS
  <2>3. \E x \in {next.line} : v7' = rest \cup (IF next.err /\ x = 0 THEN {} ELSE {<<x, r>>})
    BY <1>1, <1>3, <2>2 DEF Sorter!Refill
  <2>4. QED BY <2>1, <2>3
<1>5. CASE k < Len(v3[r].lines)
  <2>1. next.line = v3[r].lines[k + 1] /\ ~(next.err /\ next.line = 0)
    BY <1>1, <1>2, <1>3, <1>5, LineRead
  <2>2. QED BY <1>1, <1>4, <1>5, <2>1
<1>6. CASE k = Len(v3[r].lines)
  <2>1. next.err /\ next.line = 0
    BY <1>1, <1>2, <1>3, <1>6, LineRead
  <2>2. v7' = rest
    BY <1>4, <2>1
  <2>3. v6' = v6
    <3>1. v6' = [v6 EXCEPT ![r] = k]
      <4>1. ~(k < Len(v3[r].lines))
        BY <1>1, <1>6
      <4>2. QED BY <1>4, <4>1
    <3>2. QED BY <1>1, <3>1
  <2>4. QED BY <1>1, <1>6, <2>2, <2>3
<1>7. k < Len(v3[r].lines) \/ k = Len(v3[r].lines)
  BY <1>1
<1>8. QED BY <1>5, <1>6, <1>7

\* The turn of reader r has come, and it holds nothing any more.
LEMMA HeapRefilled ==
  ASSUME SortInv, v11 = {}, NEW r \in 1..Len(v9), r < v2, NEW rest, rest = {x \in v7 : x[2] # r}, Sorter!Refill(r, rest),
         UNCHANGED <<v3, v9>>, v2' \in Nat, v1' # "nil", v1' = "merge" => v2' > 2 * Len(v9),
         \A q \in 1..Len(v9) : q + Len(v9) < v2' <=> q + Len(v9) < v2 \/ q = r
  PROVE  /\ HeapIsRight' /\ v6' \in [1..Len(v9) -> Nat] /\ v7' \subseteq Nat \X (1..Len(v9))
         /\ \A q \in 1..Len(v9) : q # r => v6'[q] = v6[q] /\ (Waiting(q)' <=> Waiting(q))
         /\ \/ v6[r] < Len(v3[r].lines) /\ v6'[r] = v6[r] + 1 /\ Waiting(r)'
            \/ v6[r] = Len(v3[r].lines) /\ v6'[r] = v6[r] /\ ~Waiting(r)'
<1>1. /\ \A q \in 1..Len(v9) : v6[q] \in Nat /\ Len(v3[q].lines) \in Nat /\ v3[q].lines \in Seq(Nat)
      /\ v6 \in [1..Len(v9) -> Nat] /\ v7 \subseteq Nat \X (1..Len(v9)) /\ Len(v9) \in Nat /\ v2 \in Nat
  BY FileLengths, SortSizes DEF SortInv, SortTypes
<1>2. rest \subseteq v7 /\ (\A x \in rest : x[2] # r) /\ \A x \in v7 : x[2] # r => x \in rest
  OBVIOUS
<1>3. /\ \A x \in rest : x[2] \in 1..Len(v9) /\ x[2] + Len(v9) < v2' /\ v6[x[2]] \in 1..Len(v3[x[2]].lines)
                         /\ x[1] = v3[x[2]].lines[v6[x[2]]]
      /\ \A q \in 1..Len(v9) : /\ v6[q] <= Len(v3[q].lines)
                               /\ q + Len(v9) >= v2 => v6[q] = 0
                               /\ q + Len(v9) < v2 => v6[q] = Len(v3[q].lines) \/ Waiting(q)
  <2>1. \A x \in rest : x[2] \in 1..Len(v9)
    BY <1>1, <1>2
  <2>2. QED BY <1>2, <2>1 DEF SortInv, HeapIsRight
<1>4. \A q \in 1..Len(v9) : q # r => v6'[q] = v6[q]
  BY <1>1, Refilled
<1>5. CASE /\ v6[r] < Len(v3[r].lines) /\ v6' = [v6 EXCEPT ![r] = v6[r] + 1]
           /\ v7' = rest \cup {<<v3[r].lines[v6[r] + 1], r>>}
  <2>1. PICK x : x = <<v3[r].lines[v6[r] + 1], r>> /\ v7' = rest \cup {x}
    BY <1>5
  <2>2. v6'[r] = v6[r] + 1 /\ v6' \in [1..Len(v9) -> Nat] /\ v6'[r] \in 1..Len(v3[r].lines)
    BY <1>1, <1>5
  <2>3. x \in Nat \X (1..Len(v9)) /\ x[2] = r /\ x[1] = v3[r].lines[v6'[r]]
    <3>1. PICK l : l = v3[r].lines[v6'[r]]
      OBVIOUS
    <3>2. l \in Nat
      BY <1>1, <2>2, <3>1, SMTT(30)
    <3>3. x = <<l, r>>
      BY <2>1, <2>2, <3>1
    <3>4. QED BY <3>1, <3>2, <3>3
  <2>4. \A q \in 1..Len(v9) : q # r => (Waiting(q)' <=> Waiting(q))
    BY <1>2, <2>1, <2>3 DEF Waiting
  <2>5. Waiting(r)'
    BY <2>1, <2>3 DEF Waiting
  <2>6. \A y \in v7' : y[2] + Len(v9) < v2' /\ v6'[y[2]] \in 1..Len(v3[y[2]].lines) /\ y[1] = v3[y[2]].lines[v6'[y[2]]]
    BY <1>2, <1>3, <1>4, <2>1, <2>2, <2>3
  <2>7. \A q \in 1..Len(v9) : /\ v6'[q] <= Len(v3[q].lines)
                              /\ q + Len(v9) >= v2' => v6'[q] = 0
                              /\ q + Len(v9) < v2' => v6'[q] = Len(v3[q].lines) \/ Waiting(q)'
    <3> TAKE q \in 1..Len(v9)
    <3>1. CASE q = r
      BY <1>1, <2>2, <2>5, <3>1
    <3>2. CASE q # r
      <4>1. q + Len(v9) >= v2' => q + Len(v9) >= v2
        BY <1>1, <3>2
      <4>2. QED BY <1>3, <1>4, <2>4, <3>2, <4>1
    <3>3. QED BY <3>1, <3>2
  <2>8. HeapIsRight'
    BY <2>6, <2>7 DEF HeapIsRight
  <2>9. v7' \subseteq Nat \X (1..Len(v9))
    BY <1>1, <1>2, <2>1, <2>3
  <2>10. QED BY <1>4, <1>5, <2>2, <2>4, <2>5, <2>8, <2>9
<1>6. CASE v6[r] = Len(v3[r].lines) /\ v6' = v6 /\ v7' = rest
  <2>1. ~Waiting(r)' /\ \A q \in 1..Len(v9) : q # r => (Waiting(q)' <=> Waiting(q))
    BY <1>2, <1>6 DEF Waiting
  <2>2. \A q \in 1..Len(v9) : /\ v6[q] <= Len(v3[q].lines)
                              /\ q + Len(v9) >= v2' => v6[q] = 0
                              /\ q + Len(v9) < v2' => v6[q] = Len(v3[q].lines) \/ Waiting(q)'
    <3> TAKE q \in 1..Len(v9)
    <3>1. CASE q = r
      BY <1>1, <1>6, <3>1
    <3>2. CASE q # r
      <4>1. q + Len(v9) >= v2' => q + Len(v9) >= v2
        BY <1>1, <3>2
      <4>2. QED BY <1>3, <2>1, <3>2, <4>1
    <3>3. QED BY <3>1, <3>2
  <2>3. HeapIsRight'
    BY <1>3, <1>6, <2>2 DEF HeapIsRight
  <2>4. QED BY <1>1, <1>2, <1>6, <2>1, <2>3
<1>7. QED BY <1>5, <1>6, Refilled

LEMMA NoReadFails == ASSUME v10' = {}, NEW r, NEW rest PROVE ~Sorter!RefillFails(r, rest)
<1>1. v10' # v10 \cup {r}
  OBVIOUS
<1>2. QED BY <1>1 DEF Sorter!RefillFails

LEMMA SortFills == SortInv /\ v11 = {} /\ v10' = {} /\ Sorter!Fill => SortInv'
<1> SUFFICES ASSUME SortInv, v11 = {}, v10' = {}, Sorter!Fill PROVE SortInv'
  OBVIOUS
<1>1. v1 = "open" /\ v2 > Len(v9) /\ UNCHANGED <<v3, v4, v5, v8, v9>> /\ Len(v9) \in Nat /\ v2 \in Nat
      /\ (\/ v2 > 2 * Len(v9) /\ v1' = "merge" /\ UNCHANGED <<v2, v6, v7>>
          \/ ~(v2 > 2 * Len(v9)) /\ Sorter!Refill(v2 - Len(v9), v7) /\ v2' = v2 + 1 /\ v1' = v1)
  BY SortSizes, NoReadFails DEF Sorter!Fill, SortInv, SortTypes
<1>2. v8 = <<>> /\ \A r \in 1..Len(v9) : v6[r] = 0 \/ (v6[r] = 1 /\ Waiting(r))
  BY <1>1 DEF SortInv, NothingOut
<1>3. CASE v2 > 2 * Len(v9) /\ v1' = "merge" /\ UNCHANGED <<v2, v6, v7>>
  <2>1. SortTypes' /\ CurrentFile' /\ NothingOut' /\ OutInOrder'
    BY <1>1, <1>3 DEF SortInv, SortTypes, CurrentFile, NothingOut, OutInOrder
  <2>2. FilesAreSorted'
    BY <1>1, <1>3 DEF SortInv, FilesAreSorted
  <2>3. HeapIsRight'
    BY <1>1, <1>3 DEF SortInv, HeapIsRight, Waiting
  <2>4. Out' = Out
    BY <1>1, <1>3 DEF Out, Waiting
  <2>5. Out = {}
    <3>1. ASSUME NEW p \in Out PROVE FALSE
      <4>1. p[1] \in 1..Len(v9) /\ p[2] \in Nat \ {0} /\ p[2] <= v6[p[1]] /\ (Waiting(p[1]) => p[2] # v6[p[1]])
        BY <3>1 DEF Out
      <4>2. QED BY <1>2, <4>1
    <3>2. QED BY <3>1
  <2>6. \E b : Matches(b, DOMAIN v8, Out) /\ \A a \in DOMAIN v8 : v8[a] = v3[b[a][1]].lines[b[a][2]]
    <3>1. PICK b : b = [a \in {} |-> 0]
      OBVIOUS
    <3>2. DOMAIN v8 = {} /\ Matches(b, {}, {})
      BY <1>2, <3>1 DEF Matches
    <3>3. QED BY <2>5, <3>2
  <2>7. OutIsRead'
    BY <1>1, <2>4, <2>6 DEF OutIsRead
  <2>8. QED BY <2>1, <2>2, <2>3, <2>7 DEF SortInv
<1>4. CASE ~(v2 > 2 * Len(v9)) /\ Sorter!Refill(v2 - Len(v9), v7) /\ v2' = v2 + 1 /\ v1' = v1
  <2>1. PICK r \in 1..Len(v9) : r = v2 - Len(v9)
    BY <1>1, <1>4
  <2>2. r < v2 /\ Sorter!Refill(r, v7) /\ r + Len(v9) = v2
    BY <1>1, <1>4, <2>1
  <2>3. v7 = {x \in v7 : x[2] # r}
    BY <1>1, <2>2 DEF SortInv, HeapIsRight
  <2>4. \A q \in 1..Len(v9) : q + Len(v9) < v2' <=> q + Len(v9) < v2 \/ q = r
    BY <1>1, <1>4, <2>1
  <2>5. /\ HeapIsRight' /\ v6' \in [1..Len(v9) -> Nat] /\ v7' \subseteq Nat \X (1..Len(v9))
        /\ \A q \in 1..Len(v9) : q # r => v6'[q] = v6[q] /\ (Waiting(q)' <=> Waiting(q))
        /\ \/ v6[r] < Len(v3[r].lines) /\ v6'[r] = v6[r] + 1 /\ Waiting(r)'
           \/ v6[r] = Len(v3[r].lines) /\ v6'[r] = v6[r] /\ ~Waiting(r)'
    <3>1. v1' \notin {"merge", "nil"} /\ v2' \in Nat
      BY <1>1, <1>4
    <3>2. QED BY <1>1, <2>2, <2>3, <2>4, <3>1, HeapRefilled
  <2>6. SortTypes'
    BY <1>1, <1>4, <2>5 DEF SortInv, SortTypes
  <2>7. v6[r] = 0
    BY <1>1, <2>2 DEF SortInv, HeapIsRight
  <2>8. NothingOut'
    BY <1>1, <1>2, <2>5, <2>7 DEF NothingOut
  <2>9. CurrentFile' /\ OutIsRead'
    BY <1>1, <1>4 DEF CurrentFile, OutIsRead
  <2>10. OutInOrder'
    BY <1>1, <1>2 DEF OutInOrder, Sorter!InOrder
  <2>11. FilesAreSorted'
    <3>1. \A f \in 1..Len(v9) : f < v2 /\ ~(f > v2') /\ f # v2'
      BY <1>1, <1>4
    <3>2. QED BY <1>1, <3>1 DEF SortInv, FilesAreSorted
  <2>12. QED BY <2>5, <2>6, <2>8, <2>9, <2>10, <2>11 DEF SortInv
<1>5. QED BY <1>1, <1>3, <1>4

LEMMA MatchesMore ==
  ASSUME NEW n \in Nat, NEW T, NEW b, Matches(b, 1..n, T), NEW t, t \notin T, NEW c,
         c = [a \in 1..n + 1 |-> IF a = n + 1 THEN t ELSE b[a]]
  PROVE  Matches(c, 1..n + 1, T \cup {t}) /\ c[n + 1] = t /\ \A a \in 1..n : c[a] = b[a]
<1>1. c[n + 1] = t /\ (\A a \in 1..n : c[a] = b[a]) /\ \A a \in 1..n + 1 : a = n + 1 \/ a \in 1..n
  OBVIOUS
<1>2. c \in [1..n + 1 -> T \cup {t}]
  BY <1>1 DEF Matches
<1>3. \A x, y \in 1..n + 1 : c[x] = c[y] => x = y
  BY <1>1 DEF Matches
<1>4. \A u \in T \cup {t} : \E x \in 1..n + 1 : c[x] = u
  <2> TAKE u \in T \cup {t}
  <2>1. CASE u = t
    BY <1>1, <2>1
  <2>2. CASE u \in T
    <3>1. PICK x \in 1..n : b[x] = u
      BY <2>2 DEF Matches
    <3>2. x \in 1..n + 1 /\ c[x] = u
      BY <1>1, <3>1
    <3>3. QED BY <3>2
  <2>3. QED BY <2>1, <2>2
<1>5. QED BY <1>1, <1>2, <1>3, <1>4 DEF Matches

LEMMA SortPops == SortInv /\ v11 = {} /\ v10' = {} /\ Sorter!Pop => SortInv'
<1> SUFFICES ASSUME SortInv, v11 = {}, v10' = {}, Sorter!Pop PROVE SortInv'
  OBVIOUS
<1>1. PICK item \in v7 : /\ v1 = "merge" /\ UNCHANGED <<v1, v2, v3, v4, v5, v9>> /\ (\A x \in v7 : item[1] <= x[1])
                         /\ v8' = Append(v8, item[1]) /\ Sorter!Refill(item[2], v7 \ {item})
  BY NoReadFails DEF Sorter!Pop
<1>2. Len(v9) \in Nat /\ v2 \in Nat /\ v7 \subseteq Nat \X (1..Len(v9)) /\ v8 \in Seq(Nat) /\ Len(v8) \in Nat
      /\ v2 > 2 * Len(v9) /\ \A q \in 1..Len(v9) : v6[q] \in Nat
  <2>1. Len(v9) \in Nat /\ v2 \in Nat /\ v7 \subseteq Nat \X (1..Len(v9)) /\ v8 \in Seq(Nat) /\ Len(v8) \in Nat
    BY SortSizes DEF SortInv, SortTypes
  <2>2. v2 > 2 * Len(v9)
    BY <1>1 DEF SortInv, HeapIsRight
  <2>3. \A q \in 1..Len(v9) : v6[q] \in Nat
    BY DEF SortInv, SortTypes
  <2>4. QED BY <2>1, <2>2, <2>3
<1>3. PICK r \in 1..Len(v9), l \in Nat : item = <<l, r>>
  BY <1>2
<1>4. item[2] = r /\ item[1] = l /\ r < v2 /\ r + Len(v9) < v2
  BY <1>2, <1>3
<1>5. v6[r] \in 1..Len(v3[r].lines) /\ l = v3[r].lines[v6[r]] /\ Waiting(r)
  BY <1>4 DEF SortInv, HeapIsRight, Waiting
<1>6. v7 \ {item} = {x \in v7 : x[2] # r}
  <2>1. \A x \in v7 : x[2] = r => x[1] = l
    BY <1>5 DEF SortInv, HeapIsRight
  <2>2. \A x \in v7 : x = <<x[1], x[2]>>
    BY <1>2
  <2>3. QED BY <1>3, <1>4, <2>1, <2>2
<1>7. /\ HeapIsRight' /\ v6' \in [1..Len(v9) -> Nat] /\ v7' \subseteq Nat \X (1..Len(v9))
      /\ \A q \in 1..Len(v9) : q # r => v6'[q] = v6[q] /\ (Waiting(q)' <=> Waiting(q))
      /\ \/ v6[r] < Len(v3[r].lines) /\ v6'[r] = v6[r] + 1 /\ Waiting(r)'
         \/ v6[r] = Len(v3[r].lines) /\ v6'[r] = v6[r] /\ ~Waiting(r)'
  <2>1. \A q \in 1..Len(v9) : q + Len(v9) < v2' <=> q + Len(v9) < v2 \/ q = r
    BY <1>1, <1>4
  <2>2. v2' \in Nat /\ v1' # "nil" /\ (v1' = "merge" => v2' > 2 * Len(v9)) /\ UNCHANGED <<v3, v9>>
    BY <1>1, <1>2
  <2>3. Sorter!Refill(r, v7 \ {item})
    BY <1>1, <1>4
  <2>4. QED BY <1>4, <1>6, <2>1, <2>2, <2>3, HeapRefilled
<1>8. v8' \in Seq(Nat) /\ Len(v8') = Len(v8) + 1 /\ v8'[Len(v8) + 1] = l /\ \A a \in 1..Len(v8) : v8'[a] = v8[a]
  BY <1>1, <1>2, <1>4, Appended
<1>9. SortTypes'
  BY <1>1, <1>7, <1>8 DEF SortInv, SortTypes
<1>10. CurrentFile' /\ NothingOut'
  BY <1>1 DEF CurrentFile, NothingOut
<1>11. FilesAreSorted'
  BY <1>1 DEF SortInv, FilesAreSorted
<1>12. OutIsRead'
  <2>1. PICK n \in Nat : n = Len(v8) /\ DOMAIN v8 = 1..n /\ DOMAIN v8' = 1..n + 1 /\ v8'[n + 1] = l
                         /\ \A a \in 1..n : v8'[a] = v8[a]
    <3>1. PICK n \in Nat : n = Len(v8)
      BY <1>2
    <3>2. DOMAIN v8 = 1..n /\ DOMAIN v8' = 1..n + 1
      BY <1>2, <1>8, <3>1
    <3>3. QED BY <1>8, <3>1, <3>2
  <2>2. PICK b : Matches(b, 1..n, Out) /\ \A a \in 1..n : v8[a] = v3[b[a][1]].lines[b[a][2]]
    BY <1>1, <2>1 DEF SortInv, OutIsRead
  <2>3. PICK t : t = <<r, v6[r]>>
    OBVIOUS
  <2>4. t \notin Out /\ t[1] = r /\ t[2] = v6[r]
    BY <1>5, <2>3 DEF Out
  <2>5. Out' = Out \cup {t}
    <3>1. t \in (1..Len(v9)) \X (Nat \ {0})
      BY <1>2, <1>5, <2>3
    <3>2. ASSUME NEW p \in (1..Len(v9)) \X (Nat \ {0})
          PROVE  p[2] <= v6'[p[1]] /\ (Waiting(p[1])' => p[2] # v6'[p[1]]) <=> p \in Out \/ p = t
      <4>1. PICK q \in 1..Len(v9), k \in Nat \ {0} : p = <<q, k>> /\ p[1] = q /\ p[2] = k
        BY <3>2
      <4>2. p \in Out <=> k <= v6[q] /\ (Waiting(q) => k # v6[q])
        BY <4>1 DEF Out
      <4>3. p = t <=> q = r /\ k = v6[r]
        BY <2>3, <4>1
      <4>4. CASE q = r
        <5>1. k <= v6'[r] /\ (Waiting(r)' => k # v6'[r]) <=> k <= v6[r]
          <6>1. CASE v6'[r] = v6[r] + 1 /\ Waiting(r)'
            <7>1. PICK j \in Nat : j = v6[r]
              BY <1>2
            <7>2. k <= j + 1 /\ k # j + 1 <=> k <= j
              OBVIOUS
            <7>3. QED BY <6>1, <7>1, <7>2
          <6>2. CASE v6'[r] = v6[r] /\ ~Waiting(r)'
            <7>1. (k <= v6'[r]) <=> (k <= v6[r])
              BY <1>2, <6>2
            <7>2. ~Waiting(r)'
              BY <6>2
            <7>3. QED BY <7>1, <7>2, Zenon
          <6>3. QED BY <1>7, <6>1, <6>2
        <5>2. QED BY <1>2, <1>5, <4>1, <4>2, <4>3, <4>4, <5>1
      <4>5. CASE q # r
        BY <1>7, <4>1, <4>2, <4>3, <4>5
      <4>6. QED BY <4>4, <4>5
    <3>3. Out' = {p \in (1..Len(v9)) \X (Nat \ {0}) : p[2] <= v6'[p[1]] /\ (Waiting(p[1])' => p[2] # v6'[p[1]])}
      BY <1>1 DEF Out, Waiting
    <3>4. Out \subseteq (1..Len(v9)) \X (Nat \ {0})
      BY DEF Out
    <3>5. QED BY <3>1, <3>2, <3>3, <3>4
  <2>6. PICK c : c = [a \in 1..n + 1 |-> IF a = n + 1 THEN t ELSE b[a]]
    OBVIOUS
  <2>7. Matches(c, 1..n + 1, Out \cup {t}) /\ c[n + 1] = t /\ \A a \in 1..n : c[a] = b[a]
    BY <2>2, <2>4, <2>6, MatchesMore
  <2>8. \A a \in 1..n + 1 : v8'[a] = v3[c[a][1]].lines[c[a][2]]
    <3> TAKE a \in 1..n + 1
    <3>1. CASE a = n + 1
      BY <1>5, <2>1, <2>4, <2>7, <3>1
    <3>2. CASE a \in 1..n
      BY <2>1, <2>2, <2>7, <3>2
    <3>3. QED BY <3>1, <3>2
  <2>9. QED BY <1>1, <2>1, <2>5, <2>7, <2>8 DEF OutIsRead
<1>13. OutInOrder'
  <2>1. PICK n \in Nat : n = Len(v8) /\ DOMAIN v8 = 1..n /\ DOMAIN v8' = 1..n + 1 /\ v8'[n + 1] = l
                         /\ (\A a \in 1..n : v8'[a] = v8[a] /\ v8[a] \in Nat)
    <3>1. PICK n \in Nat : n = Len(v8)
      BY <1>2
    <3>2. DOMAIN v8 = 1..n /\ DOMAIN v8' = 1..n + 1
      BY <1>2, <1>8, <3>1
    <3>3. \A a \in 1..n : v8[a] \in Nat
      BY <1>2, <3>1
    <3>4. QED BY <1>8, <3>1, <3>2, <3>3
  <2>2. \A a \in 1..n : v8[a] <= l
    BY <1>3, <1>4, <2>1 DEF SortInv, OutInOrder
  <2>3. \A x \in v7' : l <= x[1]
    <3> TAKE x \in v7'
    <3>1. CASE x \in v7
      BY <1>1, <1>4, <3>1
    <3>2. CASE x \notin v7
      <4>1. v6[r] < Len(v3[r].lines) /\ x[1] = v3[r].lines[v6[r] + 1]
        BY <1>1, <1>4, <3>2, Refilled
      <4>2. Len(v3[r].lines) \in Nat /\ DOMAIN v3[r].lines = 1..Len(v3[r].lines)
        BY FileLengths DEF SortInv
      <4>3. Sorter!InOrder(v3[r].lines)
        BY <1>4 DEF SortInv, FilesAreSorted
      <4>4. v6[r] + 1 \in 1..Len(v3[r].lines) /\ v6[r] < v6[r] + 1
        BY <1>2, <4>1, <4>2, SMTT(30)
      <4>5. QED BY <1>5, <4>1, <4>2, <4>3, <4>4 DEF Sorter!InOrder
    <3>3. QED BY <3>1, <3>2
  <2>4. Sorter!InOrder(v8')
    <3>1. \A a, b \in 1..n : a < b => v8[a] <= v8[b]
      BY <2>1 DEF SortInv, OutInOrder, Sorter!InOrder
    <3>2. \A a, b \in 1..n + 1 : a < b => a \in 1..n /\ (b = n + 1 \/ b \in 1..n)
      OBVIOUS
    <3>3. QED BY <2>1, <2>2, <3>1, <3>2 DEF Sorter!InOrder
  <2>5. \A a \in 1..n + 1, x \in v7' : v8'[a] <= x[1]
    <3> TAKE a \in 1..n + 1, x \in v7'
    <3>1. x[1] \in Nat /\ l <= x[1]
      BY <1>7, <2>3
    <3>2. CASE a = n + 1
      BY <2>1, <3>1, <3>2
    <3>3. CASE a \in 1..n
      BY <2>1, <2>2, <3>1, <3>3
    <3>4. QED BY <3>2, <3>3
  <2>6. QED BY <2>1, <2>4, <2>5 DEF OutInOrder
<1>14. QED BY <1>7, <1>9, <1>10, <1>11, <1>12, <1>13 DEF SortInv

LEMMA SortMerged == SortInv /\ Sorter!Merged => SortInv'
<1> SUFFICES ASSUME SortInv, Sorter!Merged PROVE SortInv'
  OBVIOUS
<1>1. v1 = "merge" /\ v1' = "nil" /\ v7 = {} /\ UNCHANGED <<v2, v3, v4, v5, v6, v7, v8, v9>>
  BY DEF Sorter!Merged, Sorter!merging, Sorter!history
<1>2. SortTypes' /\ CurrentFile' /\ NothingOut' /\ OutInOrder'
  BY <1>1 DEF SortInv, SortTypes, CurrentFile, NothingOut, OutInOrder
<1>3. FilesAreSorted'
  BY <1>1 DEF SortInv, FilesAreSorted
<1>4. HeapIsRight'
  BY <1>1 DEF SortInv, HeapIsRight, Waiting
<1>5. Out' = Out
  BY <1>1 DEF Out, Waiting
<1>6. OutIsRead'
  BY <1>1, <1>5 DEF SortInv, OutIsRead
<1>7. QED BY <1>2, <1>3, <1>4, <1>6 DEF SortInv

LEMMA SortNext == SortInv /\ v11 = {} /\ v10' = {} /\ [Sorter!Next]_(Sorter!vars) => SortInv'
<1> SUFFICES ASSUME SortInv, v11 = {}, v10' = {}, [Sorter!Next]_(Sorter!vars) PROVE SortInv'
  OBVIOUS
<1>1. CASE UNCHANGED Sorter!vars
  <2>1. UNCHANGED <<v1, v2, v3, v4, v5, v6, v7, v8, v9>>
    BY <1>1 DEF Sorter!vars
  <2>2. SortTypes' /\ CurrentFile' /\ NothingOut' /\ OutInOrder'
    BY <2>1 DEF SortInv, SortTypes, CurrentFile, NothingOut, OutInOrder, Waiting
  <2>3. FilesAreSorted'
    BY <2>1 DEF SortInv, FilesAreSorted
  <2>4. HeapIsRight'
    BY <2>1 DEF SortInv, HeapIsRight, Waiting
  <2>5. Out' = Out
    BY <2>1 DEF Out, Waiting
  <2>6. OutIsRead'
    BY <2>1, <2>5 DEF SortInv, OutIsRead
  <2>7. QED BY <2>2, <2>3, <2>4, <2>6 DEF SortInv
<1>2. CASE Sorter!Next
  BY <1>2, SortFails, SortReads, SortCreates, SortWrites, SortNextFile, SortFills, SortPops, SortMerged DEF Sorter!Next
<1>3. QED BY <1>1, <1>2

\* A matching of files' lines and one of what is out, one after the other.
LEMMA SortComplete ==
  SortInv /\ v1 = "nil" =>
    \E b \in Sorter!Bijection(DOMAIN v8, Sorter!Places) : \A a \in DOMAIN v8 : v8[a] = v9[b[a][1]].lines[b[a][2]]
<1> SUFFICES ASSUME SortInv, v1 = "nil"
             PROVE  \E b : /\ Matches(b, DOMAIN v8, Sorter!Places)
                           /\ \A a \in DOMAIN v8 : v8[a] = v9[b[a][1]].lines[b[a][2]]
  BY Bijections
<1>1. Len(v9) \in Nat /\ v2 \in Nat /\ v2 > 2 * Len(v9) /\ DOMAIN v9 = 1..Len(v9)
  <2>1. Len(v9) \in Nat /\ v2 \in Nat /\ DOMAIN v9 = 1..Len(v9)
    BY SortSizes, GivenFiles DEF SortInv, SortTypes
  <2>2. QED BY <2>1 DEF SortInv, HeapIsRight
<1>2. \A r \in 1..Len(v9) : Sorter!Permutes(v3[r].lines, v9[r].lines)
  <2>1. \A r \in 1..Len(v9) : r < v2
    BY <1>1
  <2>2. QED BY <2>1 DEF SortInv, FilesAreSorted
<1>3. \A r \in 1..Len(v9) : DOMAIN v3[r].lines = 1..Len(v3[r].lines) /\ Len(v3[r].lines) \in Nat
  BY FileLengths DEF SortInv
<1>4. v7 = {} /\ \A r \in 1..Len(v9) : v6[r] = Len(v3[r].lines) /\ ~Waiting(r)
  <2>1. v7 = {}
    BY DEF SortInv, HeapIsRight
  <2>2. \A r \in 1..Len(v9) : ~Waiting(r) /\ r + Len(v9) < v2
    BY <1>1, <2>1 DEF Waiting
  <2>3. QED BY <2>1, <2>2 DEF SortInv, HeapIsRight
<1>5. PICK o : /\ Matches(o, DOMAIN v8, Out) /\ \A a \in DOMAIN v8 : v8[a] = v3[o[a][1]].lines[o[a][2]]
  BY DEF SortInv, OutIsRead
<1>6. \A f, k : <<f, k>> \in Out <=> f \in 1..Len(v9) /\ k \in 1..Len(v3[f].lines)
  BY <1>3, <1>4 DEF Out
<1>7. \A p \in Out : p = <<p[1], p[2]>>
  BY DEF Out
<1>8. \A f, k : <<f, k>> \in Sorter!Places <=> f \in 1..Len(v9) /\ k \in DOMAIN v9[f].lines
  BY <1>1 DEF Sorter!Places
<1>9. \A p \in Sorter!Places : p = <<p[1], p[2]>>
  BY DEF Sorter!Places
<1>10. \A f \in 1..Len(v9) : \E b : /\ Matches(b, 1..Len(v3[f].lines), DOMAIN v9[f].lines)
                                    /\ \A k \in 1..Len(v3[f].lines) : v3[f].lines[k] = v9[f].lines[b[k]]
  BY <1>2, <1>3, Bijections DEF Sorter!Permutes
<1> DEFINE place(f) == CHOOSE b : /\ Matches(b, 1..Len(v3[f].lines), DOMAIN v9[f].lines)
                                  /\ \A k \in 1..Len(v3[f].lines) : v3[f].lines[k] = v9[f].lines[b[k]]
<1>11. \A f \in 1..Len(v9) : /\ Matches(place(f), 1..Len(v3[f].lines), DOMAIN v9[f].lines)
                             /\ \A k \in 1..Len(v3[f].lines) : v3[f].lines[k] = v9[f].lines[place(f)[k]]
  BY <1>10
<1> HIDE DEF place
<1>12. PICK b : b = [a \in DOMAIN v8 |-> <<o[a][1], place(o[a][1])[o[a][2]]>>]
  OBVIOUS
<1>13. \A a \in DOMAIN v8 : /\ o[a] = <<o[a][1], o[a][2]>> /\ o[a][1] \in 1..Len(v9) /\ o[a][2] \in 1..Len(v3[o[a][1]].lines)
                            /\ b[a] = <<o[a][1], place(o[a][1])[o[a][2]]>>
  <2> TAKE a \in DOMAIN v8
  <2>1. o[a] \in Out /\ b[a] = <<o[a][1], place(o[a][1])[o[a][2]]>>
    BY <1>5, <1>12 DEF Matches
  <2>2. o[a] = <<o[a][1], o[a][2]>>
    BY <1>7, <2>1
  <2>3. <<o[a][1], o[a][2]>> \in Out
    BY <2>1, <2>2
  <2>4. QED BY <1>6, <2>1, <2>2, <2>3
<1>14. b \in [DOMAIN v8 -> Sorter!Places]
  <2>1. \A a \in DOMAIN v8 : b[a] \in Sorter!Places
    <3> TAKE a \in DOMAIN v8
    <3>1. place(o[a][1])[o[a][2]] \in DOMAIN v9[o[a][1]].lines
      <4>1. PICK f, k : f = o[a][1] /\ k = o[a][2]
        OBVIOUS
      <4>2. f \in 1..Len(v9) /\ k \in 1..Len(v3[f].lines)
        BY <1>13, <4>1
      <4>3. place(f)[k] \in DOMAIN v9[f].lines
        <5>1. PICK g : g = place(f)
          OBVIOUS
        <5>2. Matches(g, 1..Len(v3[f].lines), DOMAIN v9[f].lines)
          BY <1>11, <4>2, <5>1
        <5>3. g \in [1..Len(v3[f].lines) -> DOMAIN v9[f].lines]
          BY <5>2 DEF Matches
        <5>4. QED BY <4>2, <5>1, <5>3
      <4>4. QED BY <4>1, <4>3
    <3>2. b[a] = <<o[a][1], place(o[a][1])[o[a][2]]>> /\ o[a][1] \in 1..Len(v9)
      BY <1>13
    <3>3. QED BY <1>8, <3>1, <3>2
  <2>2. QED BY <1>12, <2>1
<1>15. \A x, y \in DOMAIN v8 : b[x] = b[y] => x = y
  <2> SUFFICES ASSUME NEW x \in DOMAIN v8, NEW y \in DOMAIN v8, b[x] = b[y] PROVE x = y
    OBVIOUS
  <2>1. PICK f, k, g, l : o[x] = <<f, k>> /\ o[x][1] = f /\ o[x][2] = k /\ o[y] = <<g, l>> /\ o[y][1] = g /\ o[y][2] = l
    BY <1>13
  <2>2. <<f, place(f)[k]>> = <<g, place(g)[l]>>
    BY <1>13, <2>1
  <2>3. f = g /\ place(f)[k] = place(f)[l]
    BY <2>2
  <2>4. f \in 1..Len(v9) /\ k \in 1..Len(v3[f].lines) /\ l \in 1..Len(v3[f].lines)
    BY <1>13, <2>1, <2>3
  <2>5. k = l
    BY <1>11, <2>3, <2>4 DEF Matches
  <2>6. o[x] = o[y]
    BY <2>1, <2>3, <2>5
  <2>7. QED BY <1>5, <2>6 DEF Matches
<1>16. \A p \in Sorter!Places : \E a \in DOMAIN v8 : b[a] = p
  <2> TAKE p \in Sorter!Places
  <2>1. PICK f, m : p = <<f, m>>
    BY <1>9
  <2>2. f \in 1..Len(v9) /\ m \in DOMAIN v9[f].lines
    BY <1>8, <2>1
  <2>3. PICK k \in 1..Len(v3[f].lines) : place(f)[k] = m
    BY <1>11, <2>2 DEF Matches
  <2>4. PICK a \in DOMAIN v8 : o[a] = <<f, k>>
    BY <1>5, <1>6, <2>2, <2>3 DEF Matches
  <2>5. b[a] = p
    BY <1>13, <2>1, <2>3, <2>4
  <2>6. QED BY <2>5
<1>17. \A a \in DOMAIN v8 : v8[a] = v9[b[a][1]].lines[b[a][2]]
  <2> TAKE a \in DOMAIN v8
  <2>1. PICK f, k : f = o[a][1] /\ k = o[a][2]
    OBVIOUS
  <2>2. b[a][1] = f /\ b[a][2] = place(f)[k] /\ f \in 1..Len(v9) /\ k \in 1..Len(v3[f].lines)
    BY <1>13, <2>1
  <2>3. v8[a] = v3[f].lines[k]
    BY <1>5, <2>1
  <2>4. QED BY <1>11, <2>2, <2>3
<1>18. QED BY <1>14, <1>15, <1>16, <1>17 DEF Matches

\* Only readers of which a read failed are torn, and until then all is well.
ReadWell == v11 \subseteq v10 /\ (v10 = {} => SortInv)

LEMMA ReadsFail == [Sorter!Next]_(Sorter!vars) => v10 \subseteq v10' /\ (v11 \subseteq v10 => v11' \subseteq v10')
<1> SUFFICES ASSUME [Sorter!Next]_(Sorter!vars) PROVE v10 \subseteq v10' /\ (v11 \subseteq v10 => v11' \subseteq v10')
  OBVIOUS
<1>1. ASSUME NEW r, NEW rest, Sorter!Refill(r, rest) \/ Sorter!RefillFails(r, rest)
      PROVE  (v10' = v10 /\ v11' \subseteq v11) \/ (v10' = v10 \cup {r} /\ v11' \subseteq v11 \cup {r})
  BY <1>1 DEF Sorter!Refill, Sorter!RefillFails
<1>2. (v11' = v11 /\ v10 \subseteq v10')
      \/ \E r : (v10' = v10 /\ v11' \subseteq v11) \/ (v10' = v10 \cup {r} /\ v11' \subseteq v11 \cup {r})
  <2>1. CASE Sorter!Fail \/ Sorter!Create \/ Sorter!WriteLine \/ Sorter!NextFile \/ Sorter!Merged \/ UNCHANGED Sorter!vars
    BY <2>1 DEF Sorter!Fail, Sorter!Create, Sorter!WriteLine, Sorter!NextFile, Sorter!Merged, Sorter!vars,
                Sorter!merging, Sorter!history
  <2>2. CASE Sorter!ReadFile
    BY <2>2 DEF Sorter!ReadFile, Sorter!merging
  <2>3. CASE Sorter!Fill
    BY <1>1, <2>3 DEF Sorter!Fill
  <2>4. CASE Sorter!Pop
    BY <1>1, <2>4 DEF Sorter!Pop
  <2>5. QED BY <2>1, <2>2, <2>3, <2>4 DEF Sorter!Next
<1>3. QED BY <1>2

LEMMA ReadWellNext == ReadWell /\ [Sorter!Next]_(Sorter!vars) => ReadWell'
<1> SUFFICES ASSUME ReadWell, [Sorter!Next]_(Sorter!vars) PROVE ReadWell'
  OBVIOUS
<1>1. v10 \subseteq v10' /\ v11' \subseteq v10'
  BY ReadsFail DEF ReadWell
<1>2. v10' = {} => SortInv /\ v11 = {}
  BY <1>1 DEF ReadWell
<1>3. v10' = {} => SortInv'
  BY <1>2, SortNext
<1>4. QED BY <1>1, <1>3 DEF ReadWell

LEMMA SortCorrect == ReadWell => Sorter!SortedAndComplete
<1> SUFFICES ASSUME SortInv, v10 = {} PROVE Sorter!SortedAndComplete
  BY DEF ReadWell, Sorter!SortedAndComplete
<1>1. Sorter!InOrder(v8) /\ \A a \in DOMAIN v8 : \A x \in v7 : v8[a] <= x[1]
  BY DEF SortInv, OutInOrder
<1>2. DOMAIN v3 = 1..Len(v9) /\ Len(v9) \in Nat /\ v2 \in Nat
  BY SortSizes DEF SortInv, SortTypes
<1>3. ASSUME NEW f \in DOMAIN v3, v2 # f \/ v1 \notin {"write", "error"}
      PROVE  Sorter!Permutes(v3[f].lines, v9[f].lines)
  <2>1. f < v2 \/ f > v2 \/ (f = v2 /\ v1 \in {"open", "create"}) \/ (f = v2 /\ v1 \in {"merge", "nil"})
    BY <1>2, <1>3 DEF SortInv, SortTypes
  <2>2. CASE f < v2
    BY <1>2, <2>2 DEF SortInv, FilesAreSorted
  <2>3. CASE f > v2 \/ (f = v2 /\ v1 \in {"open", "create"})
    <3>1. v3[f] = v9[f]
      BY <1>2, <2>3 DEF SortInv, FilesAreSorted
    <3>2. QED BY <3>1, PermutesItself
  <2>4. CASE f = v2 /\ v1 \in {"merge", "nil"}
    BY <1>2, <2>4 DEF SortInv, HeapIsRight
  <2>5. QED BY <2>1, <2>2, <2>3, <2>4
<1>4. QED BY <1>1, <1>3, SortComplete DEF Sorter!SortedAndComplete

(***************************************************************************)
(* For any files, wherever opening, creating or writing one fails: where   *)
(* no read fails every line comes out, in order, and none is lost that     *)
(* Sort has not to write back yet.                                         *)
(***************************************************************************)
THEOREM SortLosesNothing == Sorter!Spec /\ [](part = "sort") => []StreamsAreWhole
<1>1. ReadWell /\ part = "sort" => StreamsAreWhole
  BY SortCorrect DEF StreamsAreWhole
<1>2. Sorter!Init => ReadWell
  BY SortInit DEF Sorter!Init, ReadWell
<1>3. QED BY <1>1, <1>2, ReadWellNext, PTL DEF Sorter!Spec
-----------------------------------------------------------------------------
\* Cipher.  v1 is plain, v2 key, v3 sent, v4 used, v5 stream, v6 failed, v7 got, v8 taken.

Bytes   == SUBSET Bits
Streams == Seq(Bytes)

\* Both ends have taken as many bytes of the key as of the stream, and a byte of the
\* stream is that of the plain text and that of the key.
OtpInv ==
  /\ v1 \in Plains /\ v2 \in KeyStreams /\ v3 \in 0..Len(v1) /\ v4 = v3
  /\ v5 \in Streams /\ Len(v5) <= v3 /\ (~v6 => Len(v5) = v3)
  /\ \A i \in 1..Len(v5) : v5[i] = Otp!Xor(v1[i], v2[i])
  /\ v7 \in Streams /\ Len(v7) <= Len(v5) /\ v8 = Len(v7)
  /\ \A i \in 1..Len(v7) : v7[i] = v1[i]

LEMMA GivenStreams == ASSUME NEW p \in Plains, NEW k \in KeyStreams
                      PROVE  p \in Streams /\ k \in Streams /\ Len(p) \in Nat /\ Len(p) <= Len(k)
BY ServicesAssumption DEF Otp!CipherAssumption, Bytes, Streams

LEMMA Lengths == \A s \in Streams : Len(s) \in Nat /\ DOMAIN s = 1..Len(s)
BY DEF Streams

LEMMA XorTwice == ASSUME NEW x \in Bytes, NEW k \in Bytes
                  PROVE  Otp!Xor(x, k) \in Bytes /\ Otp!Xor(Otp!Xor(x, k), k) = x
BY DEF Otp!Xor, Bytes

\* What Apply makes of u, from position m of the key on.
LEMMA Applied ==
  ASSUME NEW u \in Streams, v2 \in Streams, NEW m \in Nat, m + Len(u) <= Len(v2),
         NEW t, t = Otp!Apply(u, m)
  PROVE  t \in Streams /\ Len(t) = Len(u) /\ \A i \in 1..Len(u) : t[i] = Otp!Xor(u[i], v2[m + i])
<1>1. Len(u) \in Nat /\ DOMAIN u = 1..Len(u)
  BY DEF Streams
<1>2. \A i \in 1..Len(u) : u[i] \in Bytes /\ v2[m + i] \in Bytes
  BY <1>1 DEF Streams
<1>3. t = [i \in 1..Len(u) |-> Otp!Xor(u[i], v2[m + i])]
  BY <1>1 DEF Otp!Apply
<1>4. \A i \in 1..Len(u) : t[i] = Otp!Xor(u[i], v2[m + i]) /\ t[i] \in Bytes
  BY <1>2, <1>3, XorTwice
<1>5. t \in [1..Len(u) -> Bytes]
  BY <1>3, <1>4
<1>6. t \in Streams /\ Len(t) = Len(u)
  BY <1>1, <1>5, FunctionIsSeq DEF Streams
<1>7. QED BY <1>4, <1>6

LEMMA Joined ==
  ASSUME NEW s \in Streams, NEW t \in Streams, NEW d, d = s \o t
  PROVE  d \in Streams /\ Len(d) = Len(s) + Len(t)
BY DEF Streams

LEMMA JoinedFirst ==
  ASSUME NEW s \in Streams, NEW t \in Streams, NEW d, d = s \o t, NEW i \in 1..Len(s)
  PROVE  d[i] = s[i]
BY DEF Streams

LEMMA JoinedLast ==
  ASSUME NEW s \in Streams, NEW t \in Streams, NEW d, d = s \o t, NEW i \in 1..Len(t)
  PROVE  d[Len(s) + i] = t[i]
BY DEF Streams

LEMMA Prefixed == ASSUME NEW s \in Streams, NEW m \in 0..Len(s),
                         NEW d, d = SubSeq(s, 1, m)
                  PROVE  d \in Streams /\ Len(d) = m /\ \A i \in 1..m : d[i] = s[i]
BY DEF Streams

LEMMA OtpInit == Otp!Init => OtpInv
BY GivenStreams DEF Otp!Init, OtpInv, Streams

LEMMA OtpNext == OtpInv /\ [Otp!Next]_(Otp!vars) => OtpInv'
<1> SUFFICES ASSUME OtpInv, [Otp!Next]_(Otp!vars) PROVE OtpInv'
  OBVIOUS
<1>0. v1 \in Streams /\ v2 \in Streams /\ Len(v1) \in Nat /\ Len(v2) \in Nat /\ Len(v1) <= Len(v2)
      /\ Len(v5) \in Nat /\ Len(v7) \in Nat /\ v3 \in Nat
  BY GivenStreams DEF OtpInv
<1>1. CASE Otp!Write
  <2>1. PICK n \in 1..Len(v1) - v3 : LET buf == Otp!Apply(SubSeq(v1, v3 + 1, v3 + n), v4) IN
          \E m \in 0..n : /\ ~v6 /\ v6' = (m < n) /\ v5' = v5 \o SubSeq(buf, 1, m)
                          /\ v3' = v3 + n /\ v4' = v4 + n /\ UNCHANGED <<v1, v2, v7, v8>>
    BY <1>1 DEF Otp!Write
  <2>2. v4 = v3 /\ v5 \in Streams /\ (~v6 => Len(v5) = v3)
        /\ \A i \in 1..Len(v5) : v5[i] = Otp!Xor(v1[i], v2[i])
    BY DEF OtpInv
  <2>3. PICK h \in Nat, p \in Streams, k \in Streams, c \in Streams : h = v3 /\ p = v1 /\ k = v2 /\ c = v5
    BY <1>0, <2>2
  <2>4. PICK buf : buf = Otp!Apply(SubSeq(p, h + 1, h + n), h)
    OBVIOUS
  <2>5. PICK m \in 0..n : /\ ~v6 /\ v6' = (m < n) /\ v5' = c \o SubSeq(buf, 1, m)
                          /\ v3' = h + n /\ v4' = h + n /\ UNCHANGED <<v1, v2, v7, v8>>
    BY <2>1, <2>2, <2>3, <2>4
  <2>6. n \in Nat /\ m \in Nat /\ m <= n /\ h + n <= Len(p) /\ h + n <= Len(k)
    BY <1>0, <2>3
  <2>7. buf \in Streams /\ Len(buf) = n /\ \A i \in 1..n : buf[i] = Otp!Xor(p[h + i], k[h + i])
    <3>1. PICK u : u = SubSeq(p, h + 1, h + n)
      OBVIOUS
    <3>2. u \in Streams /\ Len(u) = n /\ \A i \in 1..n : u[i] = p[h + i]
      BY <2>6, <3>1 DEF Streams
    <3>3. v2 \in Streams /\ h + Len(u) <= Len(v2) /\ buf = Otp!Apply(u, h)
      BY <2>3, <2>4, <2>6, <3>1, <3>2
    <3>4. buf \in Streams /\ Len(buf) = Len(u) /\ \A i \in 1..Len(u) : buf[i] = Otp!Xor(u[i], v2[h + i])
      BY <3>2, <3>3, Applied
    <3>5. QED BY <2>3, <3>2, <3>4
  <2>s. PICK s : s = SubSeq(buf, 1, m)
    OBVIOUS
  <2>8. s \in Streams /\ Len(s) = m /\ \A i \in 1..m : s[i] = buf[i]
    <3>1. m \in 0..Len(buf)
      BY <2>6, <2>7
    <3>2. QED BY <2>7, <2>s, <3>1, Prefixed
  <2>9. Len(c) = h /\ \A i \in 1..h : c[i] = Otp!Xor(p[i], k[i])
    BY <2>2, <2>3, <2>5
  <2>d. PICK d : d = c \o s
    OBVIOUS
  <2>10. d \in Streams /\ Len(d) = h + m /\ (\A i \in 1..h : d[i] = c[i])
         /\ (\A i \in 1..h + m : i > h => i - h \in 1..m /\ d[i] = s[i - h])
    <3>1. d \in Streams /\ Len(d) = Len(c) + Len(s)
      BY <2>8, <2>d, Joined
    <3>2. \A i \in 1..Len(c) : d[i] = c[i]
      BY <2>8, <2>d, JoinedFirst
    <3>3. \A i \in 1..Len(s) : d[Len(c) + i] = s[i]
      BY <2>8, <2>d, JoinedLast
    <3>4. \A i \in 1..h + m : i > h => i - h \in 1..m /\ i = h + (i - h)
      BY <2>6
    <3>5. QED BY <2>8, <2>9, <3>1, <3>2, <3>3, <3>4
  <2>11. \A i \in 1..h + m : d[i] = Otp!Xor(p[i], k[i])
    <3> TAKE i \in 1..h + m
    <3>1. CASE i <= h
      BY <2>6, <2>9, <2>10, <3>1
    <3>2. CASE i > h
      <4>1. PICK j \in 1..m : j = i - h
        BY <2>10, <3>2
      <4>2. j \in 1..n /\ h + j = i
        BY <2>6, <4>1
      <4>3. QED BY <2>7, <2>8, <2>10, <3>2, <4>1, <4>2
    <3>3. QED BY <2>6, <3>1, <3>2
  <2>12. v5' = d /\ v1' = p /\ v2' = k /\ v3' = h + n /\ v4' = h + n
    BY <2>3, <2>5, <2>s, <2>d
  <2>13. h + n \in 0..Len(p) /\ Len(d) <= h + n /\ (~v6' => Len(d) = h + n)
    <3>1. Len(p) \in Nat /\ Len(d) = h + m /\ (~v6' => ~(m < n))
      BY <1>0, <2>3, <2>5, <2>10
    <3>2. ~(m < n) => m = n
      BY <2>6
    <3>3. h + n \in 0..Len(p) /\ h + m <= h + n
      BY <2>6, <3>1
    <3>4. QED BY <3>1, <3>2, <3>3
  <2>14. v7 \in Streams /\ Len(v7) <= Len(d) /\ v8 = Len(v7) /\ (\A i \in 1..Len(v7) : v7[i] = p[i])
    BY <1>0, <2>3, <2>6, <2>9, <2>10 DEF OtpInv
  <2>15. v1' \in Plains /\ v2' \in KeyStreams /\ v7' = v7 /\ v8' = v8
    BY <2>5 DEF OtpInv
  <2>16. QED BY <2>10, <2>11, <2>12, <2>13, <2>14, <2>15 DEF OtpInv
<1>2. CASE Otp!Read
  <2>1. PICK n \in 0..Len(v5) - Len(v7) :
          /\ v7' = v7 \o Otp!Apply(SubSeq(v5, Len(v7) + 1, Len(v7) + n), v8)
          /\ v8' = v8 + n /\ UNCHANGED <<v1, v2, v3, v4, v5, v6>>
    BY <1>2 DEF Otp!Read
  <2>2. v5 \in Streams /\ v7 \in Streams /\ v8 = Len(v7) /\ Len(v5) <= Len(v1)
        /\ (\A i \in 1..Len(v5) : v5[i] = Otp!Xor(v1[i], v2[i])) /\ \A i \in 1..Len(v7) : v7[i] = v1[i]
    BY <1>0 DEF OtpInv
  <2>3. PICK p \in Streams, k \in Streams, c \in Streams, g \in Streams, m \in Nat :
          p = v1 /\ k = v2 /\ c = v5 /\ g = v7 /\ m = Len(g) /\ m = v8
    BY <1>0, <2>2
  <2>4. PICK t : t = Otp!Apply(SubSeq(c, m + 1, m + n), m)
    OBVIOUS
  <2>5. n \in Nat /\ m + n <= Len(c) /\ Len(c) <= Len(p) /\ Len(c) <= Len(k) /\ m + n <= Len(k)
    BY <1>0, <2>2, <2>3
  <2>6. t \in Streams /\ Len(t) = n /\ \A i \in 1..n : t[i] = Otp!Xor(c[m + i], k[m + i])
    <3>1. PICK u : u = SubSeq(c, m + 1, m + n)
      OBVIOUS
    <3>2. u \in Streams /\ Len(u) = n /\ \A i \in 1..n : u[i] = c[m + i]
      BY <2>5, <3>1 DEF Streams
    <3>3. v2 \in Streams /\ m + Len(u) <= Len(v2) /\ t = Otp!Apply(u, m)
      BY <2>3, <2>4, <2>5, <3>1, <3>2
    <3>4. t \in Streams /\ Len(t) = Len(u) /\ \A i \in 1..Len(u) : t[i] = Otp!Xor(u[i], v2[m + i])
      BY <3>2, <3>3, Applied
    <3>5. QED BY <2>3, <3>2, <3>4
  <2>7. \A j \in 1..Len(c) : Otp!Xor(c[j], k[j]) = p[j]
    <3> TAKE j \in 1..Len(c)
    <3>1. j \in 1..Len(p) /\ j \in 1..Len(k)
      BY <2>5
    <3>2. c[j] = Otp!Xor(p[j], k[j]) /\ p[j] \in Bytes /\ k[j] \in Bytes
      BY <2>2, <2>3, <3>1 DEF Streams
    <3>3. QED BY <3>2, XorTwice
  <2>d. PICK d : d = g \o t
    OBVIOUS
  <2>8. d \in Streams /\ Len(d) = m + n /\ (\A i \in 1..m : d[i] = g[i])
        /\ (\A i \in 1..m + n : i > m => i - m \in 1..n /\ d[i] = t[i - m])
    <3>1. d \in Streams /\ Len(d) = Len(g) + Len(t)
      BY <2>6, <2>d, Joined
    <3>2. \A i \in 1..Len(g) : d[i] = g[i]
      BY <2>6, <2>d, JoinedFirst
    <3>3. \A i \in 1..Len(t) : d[Len(g) + i] = t[i]
      BY <2>6, <2>d, JoinedLast
    <3>4. \A i \in 1..m + n : i > m => i - m \in 1..n /\ i = m + (i - m)
      BY <2>5
    <3>5. Len(g) = m /\ Len(t) = n
      BY <2>3, <2>6
    <3>6. \A i \in 1..m + n : i > m => i - m \in 1..n /\ d[i] = t[i - m]
      BY <3>3, <3>4, <3>5
    <3>7. Len(d) = m + n /\ (\A i \in 1..m : d[i] = g[i])
      BY <3>1, <3>2, <3>5
    <3>8. QED BY <3>1, <3>6, <3>7
  <2>9. \A i \in 1..m + n : d[i] = p[i]
    <3> TAKE i \in 1..m + n
    <3>1. CASE i <= m
      BY <2>2, <2>3, <2>5, <2>8, <3>1
    <3>2. CASE i > m
      <4>1. PICK j \in 1..n : j = i - m
        BY <2>8, <3>2
      <4>2. m + j = i /\ i \in 1..Len(c)
        BY <2>5, <4>1
      <4>3. QED BY <2>6, <2>7, <2>8, <3>2, <4>1, <4>2
    <3>3. QED BY <2>5, <3>1, <3>2
  <2>10. v7' = d /\ v8' = m + n /\ UNCHANGED <<v1, v2, v3, v4, v5, v6>>
    BY <2>1, <2>3, <2>4, <2>d
  <2>11. Len(d) <= Len(v5)
    BY <2>3, <2>5, <2>8
  <2>12. v1 \in Plains /\ v2 \in KeyStreams /\ v3 \in 0..Len(v1) /\ v4 = v3 /\ Len(v5) <= v3 /\ (~v6 => Len(v5) = v3)
    BY DEF OtpInv
  <2>13. QED BY <2>2, <2>3, <2>8, <2>9, <2>10, <2>11, <2>12 DEF OtpInv
<1>3. CASE UNCHANGED Otp!vars
  BY <1>3 DEF Otp!vars, OtpInv
<1>4. QED BY <1>1, <1>2, <1>3 DEF Otp!Next

(***************************************************************************)
(* For any message and any key stream as long as it: what is read is what  *)
(* was written, however the calls and the stream below cut it up.          *)
(***************************************************************************)
THEOREM SecretsAreRead == Otp!Spec /\ [](part = "cipher") => []StreamsAreWhole
<1>1. OtpInv /\ part = "cipher" => StreamsAreWhole
  <2>1. SUFFICES ASSUME OtpInv, part = "cipher" PROVE Otp!ReadsWhatWasWritten
    BY DEF StreamsAreWhole
  <2>2. v1 \in Streams /\ v7 \in Streams /\ Len(v7) <= Len(v1) /\ (\A i \in 1..Len(v7) : v7[i] = v1[i])
        /\ (~v6 => Len(v5) = v3)
    BY <2>1, GivenStreams DEF OtpInv
  <2>3. SubSeq(v7, 1, Len(v7)) = SubSeq(v1, 1, Len(v7))
    BY <2>2
  <2>4. QED BY <2>2, <2>3 DEF Otp!ReadsWhatWasWritten, Otp!IsPrefix
<1>2. QED BY <1>1, OtpInit, OtpNext, PTL DEF Otp!Spec
==============================================================================
