------------------------------ MODULE ToolsProofs ------------------------------
(* Proofs about the programs of MCTools, for any courses, schedules,       *)
(* repositories, lines, structs and requests.                              *)
EXTENDS MCTools, SequenceTheorems, FiniteSetTheorems, WellFoundedInduction, TLAPS

-----------------------------------------------------------------------------
\* Numbers and sequences, as in ServicesProofs.

\* A set of naturals that is not empty has a least element.  A proof by induction takes
\* the least number for which what it claims would fail.
LEMMA LeastOf == ASSUME NEW S \in SUBSET Nat, S # {} PROVE Min(S) \in S /\ \A n \in S : Min(S) <= n
<1>1. PICK z \in S : TRUE
  OBVIOUS
<1> DEFINE T == {0..n : n \in {k \in S : k <= z}}
<1>2. IsWellFoundedOn(StrictSubsetOrdering(0..z), SUBSET (0..z))
  <2>1. IsFiniteSet(0..z)
    BY FS_Interval
  <2>2. FiniteSubsetsOf(0..z) = SUBSET (0..z)
    BY <2>1, FS_FiniteSubsetsOfFinite
  <2>3. IsWellFoundedOn(StrictSubsetOrdering(0..z), FiniteSubsetsOf(0..z))
    BY FS_StrictSubsetOrderingWellFounded
  <2>4. QED BY <2>2, <2>3
<1>3. T # {} /\ T \subseteq SUBSET (0..z)
  BY <1>1
<1>4. PICK A \in T : \A B \in T : ~(<<B, A>> \in StrictSubsetOrdering(0..z))
  <2> HIDE DEF T
  <2>1. QED BY <1>2, <1>3, WFMin
<1>5. PICK m \in S : m <= z /\ A = 0..m
  BY <1>4
<1>6. \A n \in S : m <= n
  <2>1. SUFFICES ASSUME NEW n \in S, n < m PROVE FALSE
    BY <1>5
  <2>2. (0..n) \in T /\ n <= z
    BY <1>5, <2>1
  <2>3. (0..n) \in SUBSET (0..z) /\ A \in SUBSET (0..z) /\ 0..n \subseteq A /\ 0..n # A
    BY <1>3, <1>5, <2>1, <2>2
  <2>4. <<0..n, A>> \in StrictSubsetOrdering(0..z)
    BY <2>3 DEF StrictSubsetOrdering
  <2>5. QED BY <1>4, <2>2, <2>4
<1>7. QED BY <1>5, <1>6 DEF Min

\* A function on 1..n is a sequence of length n.
LEMMA FunctionIsSeq == ASSUME NEW S, NEW n \in Nat, NEW f \in [1..n -> S]
                       PROVE  f \in Seq(S) /\ Len(f) = n
<1>1. f \in Seq(S)
  BY SeqDef
<1>2. Len(f) \in Nat /\ 1..Len(f) = 1..n
  BY <1>1, LenProperties
<1>3. QED BY <1>1, <1>2

-----------------------------------------------------------------------------
\* Sorting by rank.  R is a strict order of S.

Rank(S, R, x) == Cardinality({y \in S : <<y, x>> \in R})
Orders(R, S) ==
  /\ \A x \in S : <<x, x>> \notin R
  /\ \A x, y, z \in S : <<x, y>> \in R /\ <<y, z>> \in R => <<x, z>> \in R
  /\ \A x, y \in S : x # y => <<x, y>> \in R \/ <<y, x>> \in R

LEMMA RankIsNat == ASSUME NEW S, IsFiniteSet(S), NEW R, NEW x PROVE Rank(S, R, x) \in Nat
BY FS_Subset, FS_CardinalityType DEF Rank

\* Ranks grow with the order and begin with 0.
LEMMA RanksGrow ==
  ASSUME NEW S, IsFiniteSet(S), NEW R, Orders(R, S)
  PROVE  /\ \A x \in S : Rank(S, R, x) + 1 \in 1..Cardinality(S)
         /\ \A x, y \in S : <<x, y>> \in R => Rank(S, R, x) < Rank(S, R, y)
<1> DEFINE Below(x) == {y \in S : <<y, x>> \in R}
<1>1. \A x : IsFiniteSet(Below(x)) /\ Cardinality(Below(x)) \in Nat
  BY FS_Subset, FS_CardinalityType
<1>2. \A x \in S : Cardinality(Below(x)) <= Cardinality(S) /\ Cardinality(Below(x)) # Cardinality(S)
  <2> TAKE x \in S
  <2>1. Below(x) # S
    BY DEF Orders
  <2>2. Below(x) \in SUBSET S
    OBVIOUS
  <2> HIDE DEF Below
  <2>3. QED BY <2>1, <2>2, FS_Subset
<1>3. Cardinality(S) \in Nat
  BY FS_CardinalityType
<1>4. ASSUME NEW x \in S, NEW y \in S, <<x, y>> \in R
      PROVE  Cardinality(Below(x)) < Cardinality(Below(y))
  <2>1. Below(x) \in SUBSET Below(y) /\ Below(x) # Below(y)
    BY <1>4 DEF Orders
  <2> HIDE DEF Below
  <2>2. Cardinality(Below(x)) <= Cardinality(Below(y)) /\ Cardinality(Below(x)) # Cardinality(Below(y))
    BY <1>1, <2>1, FS_Subset
  <2>3. QED BY <1>1, <2>2
<1>5. \A x : Rank(S, R, x) = Cardinality(Below(x))
  BY DEF Rank
<1> HIDE DEF Below
<1>6. QED BY <1>1, <1>2, <1>3, <1>4, <1>5

\* So each number below the size of S is the rank of one element.
LEMMA RankOfOne ==
  ASSUME NEW S, IsFiniteSet(S), NEW R, Orders(R, S), NEW k \in 1..Cardinality(S)
  PROVE  \E x \in S : Rank(S, R, x) = k - 1
<1> DEFINE f == [x \in S |-> Rank(S, R, x) + 1]
<1>1. f \in Injection(S, 1..Cardinality(S))
  <2>1. f \in [S -> 1..Cardinality(S)]
    BY RanksGrow
  <2>2. \A x, y \in S : f[x] = f[y] => x = y
    <3> TAKE x, y \in S
    <3>1. PICK m, n \in Nat : m = Rank(S, R, x) /\ n = Rank(S, R, y)
      BY RankIsNat
    <3>2. x # y => m < n \/ n < m
      BY <3>1, RanksGrow DEF Orders
    <3>3. m + 1 = n + 1 => m = n
      OBVIOUS
    <3>4. QED BY <3>1, <3>2, <3>3
  <2>3. QED BY <2>1, <2>2 DEF Injection, IsInjective
<1>2. IsFiniteSet(1..Cardinality(S)) /\ Cardinality(1..Cardinality(S)) = Cardinality(S)
  <2>1. PICK n \in Nat : n = Cardinality(S)
    BY FS_CardinalityType
  <2>2. QED BY <2>1, FS_Interval
<1>3. f \in Surjection(S, 1..Cardinality(S))
  BY <1>1, <1>2, FS_Injection
<1>4. PICK x \in S : f[x] = k
  BY <1>3 DEF Surjection
<1>5. PICK m \in Nat : m = Rank(S, R, x)
  BY RankIsNat
<1>6. m + 1 = k
  BY <1>4, <1>5
<1>7. m = k - 1
  BY <1>6
<1>8. QED BY <1>5, <1>7

\* The elements of S from the first to the last, as Listing's Ranked has them.
RankedBy(S, R) == [k \in 1..Cardinality(S) |-> CHOOSE x \in S : Rank(S, R, x) = k - 1]

LEMMA RankedSorts ==
  ASSUME NEW S, IsFiniteSet(S), NEW R, Orders(R, S)
  PROVE  /\ RankedBy(S, R) \in [1..Cardinality(S) -> S]
         /\ \A x \in S : \E k \in 1..Cardinality(S) : RankedBy(S, R)[k] = x
         /\ \A i, j \in 1..Cardinality(S) : i < j => <<RankedBy(S, R)[i], RankedBy(S, R)[j]>> \in R
<1> DEFINE s == RankedBy(S, R)
<1>1. \A k \in 1..Cardinality(S) : s[k] \in S /\ Rank(S, R, s[k]) = k - 1
  <2> TAKE k \in 1..Cardinality(S)
  <2>1. \E x \in S : Rank(S, R, x) = k - 1
    BY RankOfOne
  <2>2. s[k] = CHOOSE x \in S : Rank(S, R, x) = k - 1
    BY DEF RankedBy
  <2>3. QED BY <2>1, <2>2
<1>2. \A x, y \in S : Rank(S, R, x) = Rank(S, R, y) => x = y
  <2> TAKE x, y \in S
  <2>1. PICK m, n \in Nat : m = Rank(S, R, x) /\ n = Rank(S, R, y)
    BY RankIsNat
  <2>2. x # y => m < n \/ n < m
    BY <2>1, RanksGrow DEF Orders
  <2>3. QED BY <2>1, <2>2
<1>3. s \in [1..Cardinality(S) -> S]
  BY <1>1 DEF RankedBy
<1>4. \A x \in S : \E k \in 1..Cardinality(S) : s[k] = x
  <2> TAKE x \in S
  <2>1. PICK m \in Nat : m = Rank(S, R, x)
    BY RankIsNat
  <2>2. m + 1 \in 1..Cardinality(S) /\ m = (m + 1) - 1
    BY <2>1, RanksGrow
  <2>3. s[m + 1] \in S /\ Rank(S, R, s[m + 1]) = Rank(S, R, x)
    BY <1>1, <2>1, <2>2
  <2>4. QED BY <1>2, <2>2, <2>3
<1>5. ASSUME NEW i \in 1..Cardinality(S), NEW j \in 1..Cardinality(S), i < j
      PROVE  <<s[i], s[j]>> \in R
  <2>1. s[i] \in S /\ s[j] \in S /\ Rank(S, R, s[i]) = i - 1 /\ Rank(S, R, s[j]) = j - 1
    BY <1>1
  <2>2. i \in Int /\ j \in Int /\ i - 1 # j - 1 /\ ~(j - 1 < i - 1)
    BY <1>5, FS_CardinalityType
  <2>3. s[i] # s[j] /\ <<s[j], s[i]>> \notin R
    BY <2>1, <2>2, RanksGrow
  <2>4. QED BY <2>1, <2>3 DEF Orders
<1>6. QED BY <1>3, <1>4, <1>5

-----------------------------------------------------------------------------
\* Which files testtool lists as private.

LEMMA ExporterSizes == ASSUME NEW S
                       PROVE  Exporter!Cardinality(S) = Cardinality(S) /\ Exporter!IsFiniteSet(S) = IsFiniteSet(S)
BY DEF Exporter!Cardinality, Cardinality, Exporter!IsFiniteSet, IsFiniteSet

\* The order in which InOrder has what it was given.
ByName(found) == {p \in found \X found : \/ p[1][1].name < p[2][1].name
                                         \/ p[1][1] = p[2][1] /\ p[1][2] < p[2][2]}
Named(found) == \A x, y \in found :
  /\ x[2] \in {1, 2} /\ x[1].name \in Nat /\ (x[1].name = y[1].name => x[1] = y[1])
  /\ (x[1] = y[1] /\ x[2] = y[2] => x = y)

LEMMA ByNameOrders == ASSUME NEW found, Named(found) PROVE Orders(ByName(found), found)
<1>1. \A x, y \in found : <<x, y>> \in ByName(found) <=> x[1].name < y[1].name \/ (x[1] = y[1] /\ x[2] < y[2])
  BY DEF ByName
<1>2. ASSUME NEW x \in found PROVE <<x, x>> \notin ByName(found)
  BY <1>1 DEF Named
<1>3. ASSUME NEW x \in found, NEW y \in found, NEW z \in found, <<x, y>> \in ByName(found), <<y, z>> \in ByName(found)
      PROVE  <<x, z>> \in ByName(found)
  BY <1>1, <1>3 DEF Named
<1>4. ASSUME NEW x \in found, NEW y \in found, x # y
      PROVE  <<x, y>> \in ByName(found) \/ <<y, x>> \in ByName(found)
  BY <1>1, <1>4 DEF Named
<1>5. QED BY <1>2, <1>3, <1>4 DEF Orders

LEMMA InOrderSorts ==
  ASSUME NEW found, IsFiniteSet(found), Named(found)
  PROVE  /\ Exporter!InOrder(found) = [k \in 1..Cardinality(found) |-> RankedBy(found, ByName(found))[k][1]]
         /\ Orders(ByName(found), found)
<1> DEFINE Before(x, y) == x[1].name < y[1].name \/ (x[1] = y[1] /\ x[2] < y[2])
           sorted == Exporter!Ranked(found, Before)
<1>1. \A x \in found : Rank(found, ByName(found), x) = Exporter!Cardinality({y \in found : Before(y, x)})
  <2> TAKE x \in found
  <2>1. {y \in found : <<y, x>> \in ByName(found)} = {y \in found : Before(y, x)}
    BY DEF ByName
  <2>2. QED BY <2>1, ExporterSizes DEF Rank
<1>2. sorted = [k \in 1..Exporter!Cardinality(found) |->
                  CHOOSE x \in found : Exporter!Cardinality({y \in found : Before(y, x)}) = k - 1]
  BY DEF Exporter!Ranked
<1>3. sorted = RankedBy(found, ByName(found))
  <2>1. \A k : (CHOOSE x \in found : Exporter!Cardinality({y \in found : Before(y, x)}) = k - 1)
               = (CHOOSE x \in found : Rank(found, ByName(found), x) = k - 1)
    BY <1>1
  <2>2. Exporter!Cardinality(found) = Cardinality(found)
    BY ExporterSizes
  <2>3. QED BY <1>2, <2>1, <2>2 DEF RankedBy
<1>4. Exporter!InOrder(found) = [k \in DOMAIN sorted |-> sorted[k][1]]
  BY DEF Exporter!InOrder
<1>5. DOMAIN sorted = 1..Cardinality(found)
  BY <1>3 DEF RankedBy
<1>6. QED BY <1>3, <1>4, <1>5, ByNameOrders

PrivateOf(r) == {f \in r : Exporter!Private(f)}

LEMMA CoursesAreTagged == \A repo \in Courses : IsFiniteSet(repo) /\ Exporter!WellTagged(repo)
BY ToolsAssumption, ExporterSizes DEF Exporter!ExportAssumption, Exporter!WellTagged

\* Of a course, list-private-files lists the private files there are, by their names.
LEMMA PrivateFilesFound ==
  ASSUME NEW repo \in Courses, NEW r \in SUBSET repo
  PROVE  LET s == Exporter!ListPrivateFiles(r) IN
         /\ s \in Seq(PrivateOf(r)) /\ \A f \in PrivateOf(r) : \E k \in 1..Len(s) : s[k] = f
         /\ \A i, j \in 1..Len(s) : i < j => s[i].name <= s[j].name
<1> DEFINE tagged == Exporter!GetPackageFiles(r, {"private", "solution"}) \ Exporter!GetPackageFiles(r, {})
           protos == {f \in r : f.kind = "proto" /\ "solution" \in f.wants}
           found  == ((tagged \cup protos) \X {1}) \cup ({f \in r : f.listed} \X {2})
           s      == Exporter!ListPrivateFiles(r)
<1>1. s = Exporter!InOrder(found)
  BY DEF Exporter!ListPrivateFiles
<1>2. IsFiniteSet(r) /\ \A f, g \in r : f.name \in Nat /\ (f.name = g.name => f = g)
  BY CoursesAreTagged, FS_Subset DEF Exporter!WellTagged
<1>3. tagged \cup protos = {f \in r : "private" \in f.wants \/ "solution" \in f.wants}
  <2>1. ASSUME NEW f \in r
        PROVE  f \in tagged \cup protos <=> "private" \in f.wants \/ "solution" \in f.wants
    <3>1. \/ f.wants = {}
          \/ /\ Exporter!IsGo(f) /\ f.wants \subseteq {"private", "solution"}
             /\ f.bars \cap {"private", "solution"} = {}
          \/ f.kind = "proto" /\ f.wants = {"solution"}
      BY CoursesAreTagged DEF Exporter!WellTagged
    <3>2. f \in tagged <=> /\ Exporter!IsGo(f) /\ f.wants \subseteq {"private", "solution"}
                           /\ f.bars \cap {"private", "solution"} = {} /\ f.wants # {}
      BY DEF Exporter!GetPackageFiles
    <3>3. f \in protos <=> f.kind = "proto" /\ "solution" \in f.wants
      OBVIOUS
    <3>4. f.kind = "proto" => ~Exporter!IsGo(f)
      BY DEF Exporter!IsGo
    <3> HIDE DEF tagged, protos
    <3>5. QED BY <3>1, <3>2, <3>3, <3>4
  <2>2. tagged \cup protos \subseteq r
    BY DEF Exporter!GetPackageFiles
  <2> HIDE DEF tagged, protos
  <2>3. QED BY <2>1, <2>2
<1>4. IsFiniteSet(found) /\ Named(found)
  <2>1. found \subseteq r \X {1, 2}
    BY <1>3
  <2>2. IsFiniteSet(r \X {1, 2})
    <3>1. IsFiniteSet({1, 2})
      <4>1. IsFiniteSet({} \cup {1})
        BY FS_EmptySet, FS_AddElement
      <4>2. IsFiniteSet(({} \cup {1}) \cup {2})
        BY <4>1, FS_AddElement
      <4>3. QED BY <4>2
    <3>2. QED BY <1>2, <3>1, FS_Product
  <2> HIDE DEF found
  <2>3. IsFiniteSet(found)
    BY <2>1, <2>2, FS_Subset
  <2>4. \A x \in found : x = <<x[1], x[2]>> /\ x[1] \in r /\ x[2] \in {1, 2}
    BY <2>1
  <2>5. QED BY <1>2, <2>3, <2>4 DEF Named
<1>5. \A f : f \in PrivateOf(r) <=> \E x \in found : x[1] = f
  <2>1. \A f : f \in PrivateOf(r) <=> f \in tagged \cup protos \/ f \in {g \in r : g.listed}
    BY <1>3 DEF PrivateOf, Exporter!Private
  <2> DEFINE byTags == tagged \cup protos
             byLine == {g \in r : g.listed}
  <2>2. found = (byTags \X {1}) \cup (byLine \X {2})
    OBVIOUS
  <2> HIDE DEF byTags, byLine, found
  <2>3. ASSUME NEW f, f \in byTags \/ f \in byLine PROVE \E x \in found : x[1] = f
    <3>1. <<f, 1>> \in found \/ <<f, 2>> \in found
      BY <2>2, <2>3
    <3>2. <<f, 1>>[1] = f /\ <<f, 2>>[1] = f
      OBVIOUS
    <3>3. QED BY <3>1, <3>2
  <2>4. ASSUME NEW x \in found PROVE x[1] \in byTags \/ x[1] \in byLine
    BY <2>2
  <2>5. QED BY <2>1, <2>3, <2>4 DEF byTags, byLine
<1> DEFINE b == RankedBy(found, ByName(found))
<1> HIDE DEF found, s, b
<1>6. PICK n \in Nat : n = Cardinality(found)
  BY <1>4, FS_CardinalityType
<1>7. /\ b \in [1..n -> found] /\ \A x \in found : \E k \in 1..n : b[k] = x
      /\ \A i, j \in 1..n : i < j => <<b[i], b[j]>> \in ByName(found)
      /\ s = [k \in 1..n |-> b[k][1]]
  BY <1>1, <1>4, <1>6, InOrderSorts, RankedSorts DEF b
<1>8. s \in [1..n -> PrivateOf(r)]
  BY <1>5, <1>7
<1>9. s \in Seq(PrivateOf(r)) /\ Len(s) = n
  BY <1>8, FunctionIsSeq
<1>10. \A f \in PrivateOf(r) : \E k \in 1..n : s[k] = f
  BY <1>5, <1>7
<1>11. ASSUME NEW i \in 1..n, NEW j \in 1..n, i < j
       PROVE  s[i].name <= s[j].name
  <2>1. <<b[i], b[j]>> \in ByName(found) /\ b[i] \in found /\ b[j] \in found
    BY <1>7, <1>11
  <2>2. b[i][1].name < b[j][1].name \/ b[i][1] = b[j][1]
    BY <2>1 DEF ByName
  <2>3. b[i][1].name \in Nat /\ b[j][1].name \in Nat
    BY <1>4, <2>1 DEF Named
  <2>4. QED BY <1>7, <2>2, <2>3
<1>12. QED BY <1>9, <1>10, <1>11 DEF s

-----------------------------------------------------------------------------
\* Export.  v1 is pc, v3 master, v4 public, v6 remote, v8 tree, v10 doomed, v11 push, v13 origin.

PublicOf(r) == {f \in r : ~Exporter!Private(f)}

(***************************************************************************)
(* From reset on, the work tree holds every file for the public that the   *)
(* run began with, and the private ones that are still to be removed.      *)
(***************************************************************************)
ExportInv ==
  /\ v3 \in Courses /\ \E repo \in Courses : v8 \subseteq repo
  /\ PublicOf(v4) = v4 /\ PublicOf(v6) = v6
  /\ v1 \in {"branch", "reset"} => v8 = v13
  /\ v1 = "remove" => /\ v10 \in Seq(PrivateOf(v13)) /\ \A f \in PrivateOf(v8) : \E k \in 1..Len(v10) : v10[k] = f
                      /\ PublicOf(v8) = PublicOf(v13) /\ v8 \subseteq v13
  /\ v1 \in {"delete", "commit"} => v8 = PublicOf(v13)
  /\ v1 \in {"push", "leave", "done"} => v4 = PublicOf(v13)
  /\ v1 \in {"leave", "done"} /\ v11 => v6 = v4

LEMMA ExportInit == Exporter!Init => ExportInv
BY DEF Exporter!Init, ExportInv, PublicOf

LEMMA ExportNext == ExportInv /\ [Exporter!Next]_(Exporter!vars) => ExportInv'
<1> SUFFICES ASSUME ExportInv, [Exporter!Next]_(Exporter!vars) PROVE ExportInv'
  OBVIOUS
<1> USE DEF ExportInv
<1>1. CASE Exporter!Start
  BY <1>1 DEF Exporter!Start, Exporter!Goto
<1>2. CASE Exporter!Fail
  BY <1>2 DEF Exporter!Fail, Exporter!settings
<1>3. CASE Exporter!CheckoutTemp
  BY <1>3 DEF Exporter!CheckoutTemp, Exporter!Goto, Exporter!settings
<1>4. CASE Exporter!ResetToPublic
  <2>1. PICK repo \in Courses : v8 \subseteq repo
    OBVIOUS
  <2>2. v10' \in Seq(PrivateOf(v8)) /\ \A f \in PrivateOf(v8) : \E k \in 1..Len(v10') : v10'[k] = f
    <3>1. v10' = Exporter!ListPrivateFiles(v8) /\ v8 \in SUBSET repo
      BY <1>4, <2>1 DEF Exporter!ResetToPublic
    <3> HIDE DEF ExportInv
    <3>2. QED BY <3>1, PrivateFilesFound
  <2>3. QED BY <1>4, <2>2 DEF Exporter!ResetToPublic, Exporter!Goto, Exporter!settings
<1>5. CASE Exporter!RemovePrivate
  <2>1. v1 = "remove" /\ v10 # <<>> /\ v10' = Tail(v10) /\ v8' = v8 \ {Head(v10)} /\ v1' \in {"remove", "idle"}
    BY <1>5 DEF Exporter!RemovePrivate
  <2>2. v10 \in Seq(PrivateOf(v13)) /\ \A f \in PrivateOf(v8) : \E k \in 1..Len(v10) : v10[k] = f
    BY <2>1
  <2>3. v10' \in Seq(PrivateOf(v13)) /\ Len(v10') = Len(v10) - 1 /\ Len(v10) \in Nat /\ Head(v10) = v10[1]
        /\ \A k \in 1..Len(v10') : v10'[k] = v10[k + 1]
    BY <2>1, <2>2
  <2>4. \A f \in PrivateOf(v8') : \E k \in 1..Len(v10') : v10'[k] = f
    <3> TAKE f \in PrivateOf(v8')
    <3>1. f \in PrivateOf(v8) /\ f # v10[1]
      BY <2>1, <2>3 DEF PrivateOf
    <3>2. PICK k \in 1..Len(v10) : v10[k] = f
      BY <2>2, <3>1
    <3>3. k - 1 \in 1..Len(v10') /\ (k - 1) + 1 = k
      BY <2>3, <3>1, <3>2
    <3>4. QED BY <2>3, <3>2, <3>3
  <2>5. PublicOf(v8') = PublicOf(v8)
    <3>1. Exporter!Private(Head(v10))
      BY <2>1, <2>2 DEF PrivateOf
    <3>2. QED BY <2>1, <3>1 DEF PublicOf
  <2>6. QED BY <1>5, <2>1, <2>3, <2>4, <2>5 DEF Exporter!RemovePrivate, Exporter!settings
<1>6. CASE Exporter!CheckoutPublic
  <2>1. v1 = "remove" /\ v10 = <<>>
    BY <1>6 DEF Exporter!CheckoutPublic, Exporter!Goto
  <2>2. PrivateOf(v8) = {}
    BY <2>1
  <2>3. v8 = PublicOf(v13)
    BY <2>1, <2>2 DEF PrivateOf, PublicOf
  <2>4. QED BY <1>6, <2>3 DEF Exporter!CheckoutPublic, Exporter!Goto, Exporter!settings
<1>7. CASE Exporter!DeleteTemp
  BY <1>7 DEF Exporter!DeleteTemp, Exporter!Goto, Exporter!settings
<1>8. CASE Exporter!Commit
  <2>1. PublicOf(v8) = v8
    BY <1>8 DEF Exporter!Commit, Exporter!Goto, PublicOf
  <2>2. QED BY <1>8, <2>1 DEF Exporter!Commit, Exporter!Goto, Exporter!settings
<1>9. CASE Exporter!Push
  BY <1>9 DEF Exporter!Push, Exporter!Goto, Exporter!settings
<1>10. CASE Exporter!Leave
  BY <1>10 DEF Exporter!Leave, Exporter!Goto, Exporter!settings
<1>11. CASE Exporter!WorkOn
  BY <1>11 DEF Exporter!WorkOn
<1>12. CASE UNCHANGED Exporter!vars
  BY <1>12 DEF Exporter!vars
<1>13. QED
  BY <1>1, <1>2, <1>3, <1>4, <1>5, <1>6, <1>7, <1>8, <1>9, <1>10, <1>11, <1>12 DEF Exporter!Next

(***************************************************************************)
(* Whatever files the courses have, wherever an export fails and whatever  *)
(* the next run finds: no private file is ever on public or pushed, and an *)
(* export that ends well publishes every other file it began with.         *)
(***************************************************************************)
THEOREM ExportsAreClean == Exporter!Spec => []OnlyThePublicIsPublished
<1>1. ExportInv => OnlyThePublicIsPublished
  BY DEF ExportInv, PublicOf, Exporter!OnlyThePublicIsPublished, OnlyThePublicIsPublished
<1>2. QED BY <1>1, ExportInit, ExportNext, PTL DEF Exporter!Spec

(***************************************************************************)
(* list-private-files shows the names of all the private files of a course *)
(* and of no other, in their order.                                        *)
(***************************************************************************)
THEOREM PrivateFilesAreShown == \A repo \in Courses : Exporter!PrivateAreShown(repo)
<1> TAKE repo \in Courses
<1> DEFINE s     == Exporter!ListPrivateFiles(repo)
           shown == Exporter!RunListPrivateFiles(repo)
<1>1. repo \in SUBSET repo
  OBVIOUS
<1>2. /\ s \in Seq(PrivateOf(repo)) /\ \A f \in PrivateOf(repo) : \E k \in 1..Len(s) : s[k] = f
      /\ \A i, j \in 1..Len(s) : i < j => s[i].name <= s[j].name
  BY <1>1, PrivateFilesFound
<1>3. shown = [k \in 1..Len(s) |-> s[k].name]
  BY <1>2 DEF Exporter!RunListPrivateFiles
<1> HIDE DEF s, shown
<1>4. Exporter!ToSet(shown) = {f.name : f \in PrivateOf(repo)}
  <2>1. \A k \in 1..Len(s) : s[k] \in PrivateOf(repo)
    BY <1>2
  <2>2. QED BY <1>2, <1>3, <2>1 DEF Exporter!ToSet
<1>5. PrivateOf(repo) = {g \in repo : Exporter!Private(g)}
  BY DEF PrivateOf
<1>6. QED BY <1>2, <1>3, <1>4, <1>5 DEF Exporter!PrivateAreShown, shown

-----------------------------------------------------------------------------
\* Grade flattens the groups to the sequence of all tasks.

\* f flattens the first m sequences of ss, one after the other.
Flattens(f, ss, T, m) ==
  f \in [1..m -> Seq(T)] /\ \A i \in 1..m : f[i] = IF i = 1 THEN ss[i] ELSE f[i - 1] \o ss[i]

LEMMA FlattenGoesOn ==
  ASSUME NEW T, NEW n \in Nat, NEW ss \in [1..n -> Seq(T)], NEW m \in 1..n,
         m # 1 => \E f : Flattens(f, ss, T, m - 1)
  PROVE  \E f : Flattens(f, ss, T, m)
<1>1. CASE m = 1
  <2> DEFINE g == [i \in 1..1 |-> ss[i]]
  <2>1. g \in [1..1 -> Seq(T)] /\ \A i \in 1..1 : i = 1 /\ g[i] = ss[i]
    BY <1>1
  <2>2. Flattens(g, ss, T, 1)
    BY <2>1 DEF Flattens
  <2>3. QED BY <1>1, <2>2
<1>2. CASE m # 1
  <2>1. PICK f \in [1..m - 1 -> Seq(T)] : \A i \in 1..m - 1 : f[i] = IF i = 1 THEN ss[i] ELSE f[i - 1] \o ss[i]
    BY <1>2 DEF Flattens
  <2> DEFINE g == [i \in 1..m |-> IF i = m THEN f[m - 1] \o ss[m] ELSE f[i]]
  <2>2. m - 1 \in 1..m - 1
    BY <1>2
  <2>3. f[m - 1] \o ss[m] \in Seq(T)
    BY <2>1, <2>2
  <2>4. \A i \in 1..m : i # m => i \in 1..m - 1 /\ (i # 1 => i - 1 \in 1..m /\ i - 1 # m)
    OBVIOUS
  <2>5. g \in [1..m -> Seq(T)]
    BY <2>1, <2>3, <2>4
  <2>6. g[m] = f[m - 1] \o ss[m] /\ \A i \in 1..m : i # m => g[i] = f[i]
    OBVIOUS
  <2> HIDE DEF g
  <2>7. g[m - 1] = f[m - 1]
    BY <1>2, <2>6
  <2>8. ASSUME NEW i \in 1..m PROVE g[i] = IF i = 1 THEN ss[i] ELSE g[i - 1] \o ss[i]
    <3>1. CASE i = m
      BY <1>2, <2>6, <2>7, <3>1
    <3>2. CASE i # m
      BY <2>1, <2>4, <2>6, <3>2
    <3>3. QED BY <3>1, <3>2
  <2>9. QED BY <2>5, <2>8 DEF Flattens
<1>3. QED BY <1>1, <1>2

LEMMA FlattenRuns ==
  ASSUME NEW T, NEW n \in Nat, NEW ss \in [1..n -> Seq(T)], n # 0
  PROVE  \E f : Flattens(f, ss, T, n)
<1> DEFINE Bad == {m \in 1..n : ~\E f : Flattens(f, ss, T, m)}
<1>1. Bad \in SUBSET Nat /\ \A m : m \in Bad <=> m \in 1..n /\ ~\E f : Flattens(f, ss, T, m)
  OBVIOUS
<1> HIDE DEF Bad
<1>2. SUFFICES ASSUME Bad # {} PROVE FALSE
  <2>1. n \in 1..n
    OBVIOUS
  <2>2. QED BY <1>1, <2>1
<1>3. PICK m \in Bad : \A k \in Bad : m <= k
  BY <1>1, <1>2, LeastOf
<1>4. m # 1 => \E f : Flattens(f, ss, T, m - 1)
  <2>1. SUFFICES ASSUME m # 1 PROVE m - 1 \in 1..n /\ ~(m <= m - 1)
    BY <1>1, <1>3
  <2>2. QED BY <1>1, <1>3, <2>1
<1>5. m \in 1..n
  BY <1>1, <1>3
<1>6. QED BY <1>1, <1>3, <1>4, <1>5, FlattenGoesOn

LEMMA FlattenIsSeq == ASSUME NEW T, NEW ss \in Seq(Seq(T)) PROVE Tool!FlattenSeq(ss) \in Seq(T)
<1>1. PICK n \in Nat : Len(ss) = n /\ ss \in [1..n -> Seq(T)]
  OBVIOUS
<1> DEFINE flatten[i \in 1..Len(ss)] == IF i = 1 THEN ss[i] ELSE flatten[i - 1] \o ss[i]
<1>2. CASE n = 0
  BY <1>1, <1>2 DEF Tool!FlattenSeq
<1>3. CASE n # 0
  <2>1. PICK f : Flattens(f, ss, T, n)
    BY <1>1, <1>3, FlattenRuns
  <2>2. f = [i \in 1..n |-> IF i = 1 THEN ss[i] ELSE f[i - 1] \o ss[i]]
    BY <2>1 DEF Flattens
  <2>3. flatten = [i \in 1..n |-> IF i = 1 THEN ss[i] ELSE flatten[i - 1] \o ss[i]]
    BY <1>1, <2>2
  <2>4. Tool!FlattenSeq(ss) = flatten[n]
    BY <1>1, <1>3 DEF Tool!FlattenSeq
  <2> HIDE DEF flatten
  <2>5. \A i \in 1..n : flatten[i] = IF i = 1 THEN ss[i] ELSE flatten[i - 1] \o ss[i]
    BY <2>3
  <2> DEFINE Bad == {i \in 1..n : flatten[i] \notin Seq(T)}
  <2>6. Bad \in SUBSET Nat /\ \A i : i \in Bad <=> i \in 1..n /\ flatten[i] \notin Seq(T)
    OBVIOUS
  <2> HIDE DEF Bad
  <2>7. Bad = {}
    <3>1. SUFFICES ASSUME Bad # {} PROVE FALSE
      OBVIOUS
    <3>2. PICK m \in Bad : \A k \in Bad : m <= k
      BY <2>6, <3>1, LeastOf
    <3>3. m \in 1..n /\ flatten[m] \notin Seq(T)
      BY <2>6, <3>2
    <3>4. m # 1
      BY <1>1, <2>5, <3>3
    <3>5. m - 1 \in 1..n /\ ~(m <= m - 1)
      BY <3>3, <3>4
    <3>6. flatten[m - 1] \in Seq(T)
      BY <2>6, <3>2, <3>5
    <3>7. PICK s \in Seq(T), t \in Seq(T) : s = flatten[m - 1] /\ t = ss[m]
      BY <1>1, <3>3, <3>6
    <3>8. flatten[m] = s \o t
      BY <2>5, <3>3, <3>4, <3>7
    <3>9. QED BY <3>3, <3>7, <3>8
  <2>8. QED BY <1>3, <2>4, <2>6, <2>7
<1>4. QED BY <1>1, <1>2, <1>3

-----------------------------------------------------------------------------
\* Grade.  v1 is pc, v2 deadlines, v3 changed, v4 todo, v5 testFailed, v6 failed, v7 tries,
\* v8 verdicts, v9 reports.

TaskRecords == [name : Tasks, watch : SUBSET Changeable]

LEMMA AllTasksIsSeq == v2 \in Schedules => Tool!AllTasks \in Seq(TaskRecords)
<1> SUFFICES ASSUME v2 \in Schedules PROVE Tool!AllTasks \in Seq(TaskRecords)
  OBVIOUS
<1>1. v2 \in Seq([dates : {"valid", "broken"}, tasks : Seq(TaskRecords)])
  BY ToolsAssumption DEF Tool!GradeAssumption, TaskRecords
<1> DEFINE ss == [g \in DOMAIN v2 |-> v2[g].tasks]
<1>2. PICK n \in Nat : n = Len(v2)
  BY <1>1
<1> DEFINE Groups == [dates : {"valid", "broken"}, tasks : Seq(TaskRecords)]
<1>3. DOMAIN v2 = 1..n /\ \A g \in 1..n : v2[g].tasks \in Seq(TaskRecords)
  <2>1. \A x \in Groups : x.tasks \in Seq(TaskRecords)
    OBVIOUS
  <2> HIDE DEF Groups
  <2>2. v2 \in Seq(Groups)
    BY <1>1 DEF Groups
  <2>3. v2 \in [1..n -> Groups]
    BY <1>2, <2>2
  <2>4. QED BY <2>1, <2>3
<1>4. ss \in [1..n -> Seq(TaskRecords)]
  BY <1>3
<1> HIDE DEF ss
<1>5. ss \in Seq(Seq(TaskRecords))
  BY <1>4, FunctionIsSeq
<1>6. QED BY <1>5, FlattenIsSeq DEF Tool!AllTasks, ss

\* Of every task concerned, a file of the commit touches the task.
LEMMA ConcernedAreTouched ==
  ASSUME v2 \in Schedules, NEW t \in Tool!Concerned
  PROVE  t.name \in UNION {Tool!Touched(f) : f \in Tool!ListChangedFiles}
<1>1. PICK n \in Nat : Tool!AllTasks \in [1..n -> TaskRecords] /\ Len(Tool!AllTasks) = n
  BY AllTasksIsSeq
<1>2. PICK f \in v3 : f.dir = t.name \/ f \in t.watch
  BY DEF Tool!Concerned
<1>3. PICK i \in 1..n : t = Tool!AllTasks[i]
  BY <1>1 DEF Tool!Concerned, Tool!ToSet
<1>4. t.name \in Tool!Touched(f)
  <2>1. CASE f \in t.watch
    BY <1>1, <1>3, <2>1 DEF Tool!Touched, Tool!ToSet
  <2>2. CASE f.dir = t.name
    <3> DEFINE I == {k \in 1..Len(Tool!AllTasks) : Tool!AllTasks[k].name = f.dir}
    <3>1. I # {} /\ I \in SUBSET Nat /\ 0 \notin I
      BY <1>1, <1>3, <2>2
    <3>2. Tool!FindTask(f.dir) = Tool!Min(I)
      BY <3>1 DEF Tool!FindTask, Tool!SelectInSeq
    <3>3. Tool!Min(I) = Min(I)
      BY DEF Tool!Min, Min
    <3>4. \A k \in I : Tool!AllTasks[k].name = f.dir
      OBVIOUS
    <3> HIDE DEF I
    <3>5. Min(I) \in I
      BY <3>1, LeastOf
    <3>6. QED BY <2>2, <3>1, <3>2, <3>3, <3>4, <3>5 DEF Tool!Touched
  <2>3. QED BY <1>2, <2>1, <2>2
<1>5. QED BY <1>4 DEF Tool!ListChangedFiles

LEMMA TouchedAreTasks ==
  ASSUME v2 \in Schedules
  PROVE  LET U == UNION {Tool!Touched(f) : f \in Tool!ListChangedFiles} IN U \subseteq Tasks /\ IsFiniteSet(U)
<1> DEFINE U == UNION {Tool!Touched(f) : f \in Tool!ListChangedFiles}
<1>1. PICK n \in Nat : Tool!AllTasks \in [1..n -> TaskRecords] /\ Len(Tool!AllTasks) = n
  BY AllTasksIsSeq
<1> DEFINE names == {Tool!AllTasks[i].name : i \in 1..n}
<1>2. names \subseteq Tasks
  BY <1>1 DEF TaskRecords
<1>3. ASSUME NEW f PROVE Tool!Touched(f) \subseteq names
  <2>1. {t.name : t \in {x \in Tool!ToSet(Tool!AllTasks) : f \in x.watch}} \subseteq names
    BY <1>1 DEF Tool!ToSet
  <2>2. Tool!FindTask(f.dir) # 0 => Tool!FindTask(f.dir) \in 1..n
    <3> DEFINE I == {k \in 1..Len(Tool!AllTasks) : Tool!AllTasks[k].name = f.dir}
    <3>1. I \in SUBSET Nat /\ I \subseteq 1..n
      BY <1>1
    <3>2. Tool!FindTask(f.dir) = IF I # {} THEN Tool!Min(I) ELSE 0
      BY DEF Tool!FindTask, Tool!SelectInSeq
    <3>3. Tool!Min(I) = Min(I)
      BY DEF Tool!Min, Min
    <3> HIDE DEF I
    <3>4. I # {} => Min(I) \in I
      BY <3>1, LeastOf
    <3>5. QED BY <3>1, <3>2, <3>3, <3>4
  <2>3. QED BY <2>1, <2>2 DEF Tool!Touched
<1>4. IsFiniteSet(names)
  <2>1. IsFiniteSet(1..n)
    BY FS_Interval
  <2> DEFINE g == [i \in 1..n |-> Tool!AllTasks[i].name]
  <2>2. names = {g[i] : i \in 1..n}
    OBVIOUS
  <2>3. g \in Surjection(1..n, names)
    BY DEF Surjection
  <2>4. QED BY <2>1, <2>3, FS_Surjection
<1>5. U \subseteq names
  BY <1>3
<1> HIDE DEF U, names
<1>6. U \subseteq Tasks /\ IsFiniteSet(U)
  BY <1>2, <1>4, <1>5, FS_Subset
<1>7. QED BY <1>6 DEF U

\* The order of the numbers of a set.
Less(S) == {p \in S \X S : p[1] < p[2]}

LEMMA ToolSizes == ASSUME NEW S PROVE Tool!Cardinality(S) = Cardinality(S)
BY DEF Tool!Cardinality, Cardinality, Tool!IsFiniteSet, IsFiniteSet

\* The tasks to test: those touched, in their order, each once.
LEMMA ChangedTasksFound ==
  ASSUME v2 \in Schedules
  PROVE  LET s == Tool!FindChangedTasks IN
         /\ s \in Seq(Tasks) /\ \A i, j \in 1..Len(s) : i < j => s[i] < s[j]
         /\ \A t \in Tool!Concerned : \E k \in 1..Len(s) : s[k] = t.name
<1> DEFINE U == UNION {Tool!Touched(f) : f \in Tool!ListChangedFiles}
           s == Tool!FindChangedTasks
           b == RankedBy(U, Less(U))
<1>1. U \subseteq Tasks /\ IsFiniteSet(U) /\ U \subseteq Nat
  BY TouchedAreTasks, ToolsAssumption DEF Tool!GradeAssumption
<1>2. \A t \in Tool!Concerned : t.name \in U
  BY ConcernedAreTouched
<1>3. s = [k \in 1..Tool!Cardinality(U) |-> CHOOSE x \in U : Tool!Cardinality({y \in U : y < x}) = k - 1]
  BY DEF Tool!FindChangedTasks, Tool!Ranked
<1> HIDE DEF U, s, b
<1>4. Orders(Less(U), U)
  <2>1. \A x, y \in U : <<x, y>> \in Less(U) <=> x < y
    BY DEF Less
  <2>2. QED BY <1>1, <2>1 DEF Orders
<1>5. s = b
  <2>1. \A x \in U : Rank(U, Less(U), x) = Tool!Cardinality({y \in U : y < x})
    <3> TAKE x \in U
    <3>1. {y \in U : <<y, x>> \in Less(U)} = {y \in U : y < x}
      BY DEF Less
    <3>2. QED BY <3>1, ToolSizes DEF Rank
  <2>2. \A k : (CHOOSE x \in U : Tool!Cardinality({y \in U : y < x}) = k - 1)
               = (CHOOSE x \in U : Rank(U, Less(U), x) = k - 1)
    BY <2>1
  <2>3. Tool!Cardinality(U) = Cardinality(U)
    BY ToolSizes
  <2>4. b = [k \in 1..Cardinality(U) |-> CHOOSE x \in U : Rank(U, Less(U), x) = k - 1]
    BY DEF RankedBy, b
  <2>5. s = [k \in 1..Cardinality(U) |-> CHOOSE x \in U : Tool!Cardinality({y \in U : y < x}) = k - 1]
    BY <1>3, <2>3
  <2>6. ASSUME NEW k \in 1..Cardinality(U) PROVE s[k] = b[k]
    <3>1. s[k] = CHOOSE x \in U : Tool!Cardinality({y \in U : y < x}) = k - 1
      BY <2>5
    <3>2. b[k] = CHOOSE x \in U : Rank(U, Less(U), x) = k - 1
      BY <2>4
    <3>3. QED BY <2>2, <3>1, <3>2
  <2>7. QED BY <2>4, <2>5, <2>6
<1>6. PICK n \in Nat : n = Cardinality(U)
  BY <1>1, FS_CardinalityType
<1>7. /\ s \in [1..n -> U] /\ \A x \in U : \E k \in 1..n : s[k] = x
      /\ \A i, j \in 1..n : i < j => <<s[i], s[j]>> \in Less(U)
  BY <1>1, <1>4, <1>5, <1>6, RankedSorts DEF b
<1>8. s \in [1..n -> Tasks]
  BY <1>1, <1>7
<1>9. s \in Seq(Tasks) /\ Len(s) = n
  BY <1>8, FunctionIsSeq
<1>10. \A i, j \in 1..n : i < j => s[i] < s[j]
  BY <1>7 DEF Less
<1>11. QED BY <1>2, <1>7, <1>9, <1>10 DEF s

\* What Tail leaves of a sequence.
In(x, s) == \E i \in 1..Len(s) : s[i] = x

LEMMA HeadAndTail ==
  ASSUME NEW T, NEW s \in Seq(T), s # <<>>
  PROVE  /\ Head(s) = s[1] /\ s[1] \in T /\ Tail(s) \in Seq(T)
         /\ \A i \in 1..Len(Tail(s)) : Tail(s)[i] = s[i + 1] /\ i + 1 \in 2..Len(s)
         /\ \A x : In(x, s) <=> x = s[1] \/ In(x, Tail(s))
<1>1. PICK n \in Nat : n = Len(s) /\ s \in [1..n -> T] /\ n # 0
  OBVIOUS
<1>2. Head(s) = s[1] /\ Tail(s) \in Seq(T) /\ Len(Tail(s)) = n - 1 /\ \A i \in 1..n - 1 : Tail(s)[i] = s[i + 1]
  BY <1>1
<1>3. \A i \in 1..n - 1 : i + 1 \in 2..n
  BY <1>1
<1>4. \A i \in 1..n : i = 1 \/ (i - 1 \in 1..n - 1 /\ (i - 1) + 1 = i)
  BY <1>1
<1>5. 1 \in 1..n /\ \A i \in 2..n : i \in 1..n
  BY <1>1
<1>6. ASSUME NEW x PROVE In(x, s) <=> x = s[1] \/ In(x, Tail(s))
  <2>1. ASSUME In(x, s), x # s[1] PROVE In(x, Tail(s))
    <3>1. PICK i \in 1..n : s[i] = x
      BY <1>1, <2>1 DEF In
    <3>2. i - 1 \in 1..n - 1 /\ Tail(s)[i - 1] = x
      BY <1>2, <1>4, <2>1, <3>1
    <3>3. QED BY <1>2, <3>2 DEF In
  <2>2. x = s[1] \/ In(x, Tail(s)) => In(x, s)
    BY <1>1, <1>2, <1>3, <1>5 DEF In
  <2>3. QED BY <2>1, <2>2
<1>7. QED BY <1>1, <1>2, <1>3, <1>5, <1>6

\* The names of the tasks the commit concerns.
NamesConcerned == {t.name : t \in Tool!Concerned}

LEMMA ConcernedAreTasks == v2 \in Schedules => NamesConcerned \subseteq Tasks
<1> SUFFICES ASSUME v2 \in Schedules, NEW t \in Tool!Concerned PROVE t.name \in Tasks
  BY DEF NamesConcerned
<1>1. t.name \in UNION {Tool!Touched(f) : f \in Tool!ListChangedFiles}
  BY ConcernedAreTouched
<1>2. QED BY <1>1, TouchedAreTasks

LEMMA ConcernedStay == UNCHANGED <<v2, v3>> => NamesConcerned' = NamesConcerned
<1> SUFFICES ASSUME v2' = v2, v3' = v3 PROVE NamesConcerned' = NamesConcerned
  OBVIOUS
<1>1. Tool!AllTasks' = Tool!AllTasks
  BY DEF Tool!AllTasks
<1>2. Tool!Concerned' = Tool!Concerned
  BY <1>1 DEF Tool!Concerned
<1>3. QED BY <1>2 DEF NamesConcerned

Said == {"untested", "passed", "failed", "error"}
GradeTypes ==
  /\ v1 \in {"start", "test", "report", "fatal", "exit 0", "exit 1"} /\ v2 \in Schedules
  /\ v4 \in Seq(Tasks) /\ v5 \in BOOLEAN /\ v6 \in BOOLEAN
  /\ v8 \in [Tasks -> Said] /\ v9 \subseteq Tasks \X BOOLEAN

\* No task is to be tested twice, and only the head of todo has been tested, when it is reported.
TodoUntested ==
  /\ \A i, j \in 1..Len(v4) : i < j => v4[i] < v4[j]
  /\ v1 = "start" => v9 = {} /\ v8 = [t \in Tasks |-> "untested"]
  /\ v1 = "test" => \A i \in 1..Len(v4) : v8[v4[i]] = "untested"
  /\ v1 = "report" => /\ v4 # <<>> /\ v8[v4[1]] = IF v5 THEN "failed" ELSE "passed"
                      /\ \A i \in 2..Len(v4) : v8[v4[i]] = "untested"

\* What has been tested is known: an error, reported, or the head of todo.
Known(t) == v8[t] = "error" \/ In(t, v4) \/ <<t, v8[t] = "failed">> \in v9
AllKnown ==
  /\ ~v6 => \A t \in Tasks : v8[t] \in {"untested", "passed"}
  /\ v1 \in {"test", "report", "fatal"} => \A t \in NamesConcerned : Known(t)
  /\ v1 = "exit 0" => \A t \in NamesConcerned : <<t, FALSE>> \in v9

ReportsTrue == \A r \in v9 : v8[r[1]] = IF r[2] THEN "failed" ELSE "passed"

GradeInv == GradeTypes /\ TodoUntested /\ AllKnown /\ ReportsTrue

LEMMA GradeInit == Tool!Init => GradeInv
<1> SUFFICES ASSUME Tool!Init PROVE GradeInv
  OBVIOUS
<1>1. v1 = "start" /\ v2 \in Schedules /\ v4 = <<>> /\ v5 = FALSE /\ v6 = FALSE /\ v8 = [t \in Tasks |-> "untested"] /\ v9 = {}
  BY DEF Tool!Init
<1>2. GradeTypes
  <2>1. v8 \in [Tasks -> Said] /\ <<>> \in Seq(Tasks)
    BY <1>1 DEF Said
  <2>2. QED BY <1>1, <2>1 DEF GradeTypes
<1>3. QED BY <1>1, <1>2 DEF GradeInv, TodoUntested, AllKnown, ReportsTrue

LEMMA GradeStart == GradeInv /\ Tool!Start => GradeInv'
<1> SUFFICES ASSUME GradeInv, Tool!Start PROVE GradeInv'
  OBVIOUS
<1>1. v1 = "start" /\ UNCHANGED <<v2, v3, v5, v6, v7, v8, v9>>
      /\ ((v1' = "exit 1" /\ v4' = v4) \/ (v1' = "test" /\ v4' = Tool!FindChangedTasks))
  <2>1. v1 = "start" /\ UNCHANGED <<v2, v3, v5, v6, v7, v8, v9>>
    BY DEF Tool!Start
  <2>2. (v1' = "exit 1" /\ v4' = v4) \/ (v1' = "test" /\ v4' = Tool!FindChangedTasks)
    BY DEF Tool!Start, Tool!Exit
  <2>3. QED BY <2>1, <2>2
<1>2. v2 \in Schedules /\ v9 = {} /\ v8 = [t \in Tasks |-> "untested"]
  BY <1>1 DEF GradeInv, GradeTypes, TodoUntested
<1>3. CASE v4' = v4 /\ v1' = "exit 1"
  BY <1>1, <1>3 DEF GradeInv, GradeTypes, TodoUntested, AllKnown, ReportsTrue
<1>4. CASE v4' = Tool!FindChangedTasks /\ v1' = "test"
  <2>1. v4' \in Seq(Tasks) /\ (\A i, j \in 1..Len(v4') : i < j => v4'[i] < v4'[j])
        /\ \A t \in Tool!Concerned : \E k \in 1..Len(v4') : v4'[k] = t.name
    BY <1>2, <1>4, ChangedTasksFound
  <2>2. GradeTypes'
    BY <1>1, <1>4, <2>1 DEF GradeInv, GradeTypes
  <2>3. TodoUntested'
    BY <1>1, <1>2, <1>4, <2>1 DEF TodoUntested
  <2>4. \A t \in NamesConcerned' : In(t, v4')
    <3>1. \A t \in NamesConcerned : In(t, v4')
      BY <2>1 DEF NamesConcerned, In
    <3>2. QED BY <1>1, <3>1, ConcernedStay
  <2>5. AllKnown'
    BY <1>1, <1>2, <1>4, <2>4 DEF AllKnown, Known
  <2>6. QED BY <1>1, <1>2, <2>2, <2>3, <2>5 DEF GradeInv, ReportsTrue
<1>5. QED BY <1>1, <1>3, <1>4

LEMMA GradeTest == ASSUME NEW v \in {"passed", "failed", "error"} PROVE GradeInv /\ Tool!Test(v) => GradeInv'
<1> SUFFICES ASSUME GradeInv, Tool!Test(v) PROVE GradeInv'
  OBVIOUS
<1>1. /\ v1 = "test" /\ v4 # <<>> /\ v8' = [v8 EXCEPT ![Head(v4)] = v]
      /\ v6' = (v6 \/ v # "passed") /\ v5' = (v = "failed") /\ UNCHANGED <<v2, v3, v9>>
      /\ \/ v = "error" /\ v4' = Tail(v4) /\ v1' = "test"
         \/ v # "error" /\ v1' = "report" /\ v4' = v4
  BY DEF Tool!Test
<1>2. v4 \in Seq(Tasks) /\ Tasks \subseteq Nat
  BY ToolsAssumption DEF GradeInv, GradeTypes, Tool!GradeAssumption
<1>3. /\ Head(v4) = v4[1] /\ v4[1] \in Tasks /\ Tail(v4) \in Seq(Tasks)
      /\ \A i \in 1..Len(Tail(v4)) : Tail(v4)[i] = v4[i + 1] /\ i + 1 \in 2..Len(v4)
      /\ \A x : In(x, v4) <=> x = v4[1] \/ In(x, Tail(v4))
  BY <1>1, <1>2, HeadAndTail
<1>4. \A t \in Tasks : v8'[t] = IF t = v4[1] THEN v ELSE v8[t]
  BY <1>1, <1>3 DEF GradeInv, GradeTypes
<1>5. \A i \in 2..Len(v4) : v4[i] \in Tasks /\ v4[i] # v4[1] /\ i \in 1..Len(v4)
  <2>1. \A i, j \in 1..Len(v4) : i < j => v4[i] < v4[j]
    BY DEF GradeInv, TodoUntested
  <2>2. \A i \in 2..Len(v4) : i \in 1..Len(v4) /\ 1 \in 1..Len(v4) /\ 1 < i
    BY <1>2
  <2>3. \A i \in 2..Len(v4) : v4[i] \in Tasks /\ v4[1] < v4[i]
    BY <1>2, <2>1, <2>2
  <2>4. ASSUME NEW m \in Nat, NEW n \in Nat, m < n PROVE m # n
    BY <2>4
  <2>5. QED BY <1>2, <1>3, <2>2, <2>3, <2>4
<1>6. \A r \in v9 : r[1] \in Tasks /\ r[1] # v4[1]
  <2>1. v8[v4[1]] = "untested"
    BY <1>1, <1>2 DEF GradeInv, TodoUntested
  <2>2. QED BY <2>1 DEF GradeInv, GradeTypes, ReportsTrue
<1>7. GradeTypes'
  BY <1>1, <1>2, <1>3 DEF GradeInv, GradeTypes, Said
<1>8. ReportsTrue'
  BY <1>1, <1>4, <1>6 DEF GradeInv, ReportsTrue
<1>9. NamesConcerned' = NamesConcerned /\ NamesConcerned \subseteq Tasks
  BY <1>1, ConcernedStay, ConcernedAreTasks DEF GradeInv, GradeTypes
<1>10. AllKnown'
  <2>1. ~v6' => \A t \in Tasks : v8'[t] \in {"untested", "passed"}
    BY <1>1, <1>4 DEF GradeInv, AllKnown
  <2>2. ASSUME NEW t \in NamesConcerned PROVE Known(t)'
    <3>1. Known(t) /\ t \in Tasks
      BY <1>1, <1>9 DEF GradeInv, AllKnown
    <3>2. CASE t = v4[1]
      BY <1>1, <1>3, <1>4, <3>1, <3>2 DEF Known
    <3>3. CASE t # v4[1]
      BY <1>1, <1>3, <1>4, <3>1, <3>3 DEF Known
    <3>4. QED BY <3>2, <3>3
  <2>3. QED BY <1>1, <1>9, <2>1, <2>2 DEF AllKnown
<1>11. TodoUntested'
  <2>1. \A i \in 1..Len(v4) : v8[v4[i]] = "untested"
    BY <1>1 DEF GradeInv, TodoUntested
  <2>2. \A i \in 2..Len(v4) : v8'[v4[i]] = "untested"
    BY <1>4, <1>5, <2>1
  <2>3. CASE v = "error"
    <3>1. v4' = Tail(v4) /\ v1' = "test" /\ \A i \in 1..Len(v4') : v8'[v4'[i]] = "untested"
      BY <1>1, <1>3, <2>2, <2>3, SMTT(30)
    <3>2. \A i, j \in 1..Len(v4') : i < j => v4'[i] < v4'[j]
      <4>1. \A i, j \in 1..Len(v4) : i < j => v4[i] < v4[j]
        BY DEF GradeInv, TodoUntested
      <4>2. \A i, j \in 1..Len(v4') : i < j => i + 1 < j + 1 /\ i + 1 \in 1..Len(v4) /\ j + 1 \in 1..Len(v4)
        BY <1>3, <1>5, <3>1
      <4>3. QED BY <1>3, <3>1, <4>1, <4>2
    <3>3. QED BY <3>1, <3>2 DEF TodoUntested
  <2>4. CASE v # "error"
    <3>1. v8'[v4[1]] = IF v5' THEN "failed" ELSE "passed"
      BY <1>1, <1>3, <1>4, <2>4
    <3>2. QED BY <1>1, <2>2, <2>4, <3>1 DEF GradeInv, TodoUntested
  <2>5. QED BY <2>3, <2>4
<1>12. QED BY <1>7, <1>8, <1>10, <1>11 DEF GradeInv

LEMMA GradeTestDies == GradeInv /\ Tool!TestDies => GradeInv'
<1> SUFFICES ASSUME GradeInv, Tool!TestDies PROVE GradeInv'
  OBVIOUS
<1>1. v1 = "test" /\ v1' = "fatal" /\ UNCHANGED <<v2, v3, v4, v5, v6, v8, v9>>
  BY DEF Tool!TestDies, Tool!Exit
<1>2. GradeTypes' /\ TodoUntested' /\ ReportsTrue'
  BY <1>1 DEF GradeInv, GradeTypes, TodoUntested, ReportsTrue
<1>3. AllKnown'
  BY <1>1, ConcernedStay DEF GradeInv, AllKnown, Known
<1>4. QED BY <1>2, <1>3 DEF GradeInv

LEMMA GradeReported == GradeInv /\ Tool!Reported => GradeInv'
<1> SUFFICES ASSUME GradeInv, Tool!Reported PROVE GradeInv'
  OBVIOUS
<1>1. /\ v1 = "report" /\ v1' = "test" /\ v9' = v9 \cup {<<Head(v4), v5>>} /\ v4' = Tail(v4)
      /\ UNCHANGED <<v2, v3, v5, v6, v8>>
  BY DEF Tool!Reported, Tool!Record
<1>2. v4 \in Seq(Tasks) /\ v4 # <<>> /\ v8[v4[1]] = (IF v5 THEN "failed" ELSE "passed")
      /\ \A i \in 2..Len(v4) : v8[v4[i]] = "untested" /\ i \in 1..Len(v4)
  BY <1>1 DEF GradeInv, GradeTypes, TodoUntested
<1>3. /\ Head(v4) = v4[1] /\ v4[1] \in Tasks /\ Tail(v4) \in Seq(Tasks)
      /\ \A i \in 1..Len(Tail(v4)) : Tail(v4)[i] = v4[i + 1] /\ i + 1 \in 2..Len(v4)
      /\ \A x : In(x, v4) <=> x = v4[1] \/ In(x, Tail(v4))
  BY <1>2, HeadAndTail
<1>4. GradeTypes'
  BY <1>1, <1>3 DEF GradeInv, GradeTypes
<1>5. ReportsTrue'
  BY <1>1, <1>2, <1>3 DEF GradeInv, ReportsTrue
<1>6. TodoUntested'
  <2>1. \A i \in 1..Len(v4') : v8'[v4'[i]] = "untested"
    BY <1>1, <1>2, <1>3
  <2>2. \A i, j \in 1..Len(v4') : i < j => v4'[i] < v4'[j]
    BY <1>1, <1>2, <1>3 DEF GradeInv, TodoUntested
  <2>3. QED BY <1>1, <2>1, <2>2 DEF TodoUntested
<1>7. AllKnown'
  <2>1. ASSUME NEW t \in NamesConcerned PROVE Known(t)'
    <3>1. Known(t)
      BY <1>1, <2>1 DEF GradeInv, AllKnown
    <3>2. t = v4[1] => <<t, v8[t] = "failed">> \in v9'
      <4>1. v5 = (v8[v4[1]] = "failed")
        BY <1>2 DEF GradeInv, GradeTypes
      <4>2. QED BY <1>1, <1>3, <4>1
    <3>3. QED BY <1>1, <1>3, <3>1, <3>2 DEF Known
  <2>2. QED BY <1>1, <2>1, ConcernedStay DEF GradeInv, AllKnown
<1>8. QED BY <1>4, <1>5, <1>6, <1>7 DEF GradeInv

LEMMA GradeReportFails == GradeInv /\ Tool!ReportFails => GradeInv'
<1> SUFFICES ASSUME GradeInv, Tool!ReportFails PROVE GradeInv'
  OBVIOUS
<1>1. /\ v1 = "report" /\ v1' \in {"report", "fatal"} /\ (v9' = v9 \cup {<<Head(v4), v5>>} \/ v9' = v9)
      /\ UNCHANGED <<v2, v3, v4, v5, v6, v8>>
  BY DEF Tool!ReportFails, Tool!Record, Tool!Exit
<1>2. v4 \in Seq(Tasks) /\ v4 # <<>> /\ v8[v4[1]] = (IF v5 THEN "failed" ELSE "passed")
  BY <1>1 DEF GradeInv, GradeTypes, TodoUntested
<1>3. Head(v4) = v4[1] /\ v4[1] \in Tasks
  BY <1>2
<1>4. GradeTypes'
  <2>1. v9 \subseteq Tasks \X BOOLEAN /\ v5 \in BOOLEAN
    BY DEF GradeInv, GradeTypes
  <2>2. v9' \subseteq Tasks \X BOOLEAN
    BY <1>1, <1>3, <2>1
  <2>3. QED BY <1>1, <2>2 DEF GradeInv, GradeTypes
<1>5. ReportsTrue'
  BY <1>1, <1>2, <1>3 DEF GradeInv, ReportsTrue
<1>6. TodoUntested'
  BY <1>1 DEF GradeInv, TodoUntested
<1>7. AllKnown'
  BY <1>1, ConcernedStay DEF GradeInv, AllKnown, Known
<1>8. QED BY <1>4, <1>5, <1>6, <1>7 DEF GradeInv

LEMMA GradeFinish == GradeInv /\ Tool!Finish => GradeInv'
<1> SUFFICES ASSUME GradeInv, Tool!Finish PROVE GradeInv'
  OBVIOUS
<1>1. /\ v1 = "test" /\ v4 = <<>> /\ v1' = (IF v6 THEN "exit 1" ELSE "exit 0")
      /\ UNCHANGED <<v2, v3, v4, v5, v6, v8, v9>>
  BY DEF Tool!Finish, Tool!Exit
<1>2. ASSUME ~v6, NEW t \in NamesConcerned PROVE <<t, FALSE>> \in v9
  <2>1. t \in Tasks
    BY ConcernedAreTasks DEF GradeInv, GradeTypes
  <2>2. Known(t) /\ v8[t] \in {"untested", "passed"}
    BY <1>1, <1>2, <2>1 DEF GradeInv, AllKnown
  <2>3. ~In(t, v4)
    <3>1. v4 = <<>>
      BY <1>1
    <3>2. 1..Len(v4) = {}
      BY <3>1
    <3>3. QED BY <3>2 DEF In
  <2>4. v8[t] # "error" /\ (v8[t] = "failed") = FALSE
    BY <2>2
  <2>5. QED BY <2>2, <2>3, <2>4 DEF Known
<1>3. GradeTypes' /\ TodoUntested' /\ ReportsTrue'
  BY <1>1 DEF GradeInv, GradeTypes, TodoUntested, ReportsTrue
<1>4. AllKnown'
  BY <1>1, <1>2, ConcernedStay DEF GradeInv, AllKnown
<1>5. QED BY <1>3, <1>4 DEF GradeInv

LEMMA GradeNext == GradeInv /\ [Tool!Next]_(Tool!vars) => GradeInv'
<1> SUFFICES ASSUME GradeInv, [Tool!Next]_(Tool!vars) PROVE GradeInv'
  OBVIOUS
<1>1. CASE UNCHANGED Tool!vars
  BY <1>1, ConcernedStay DEF Tool!vars, GradeInv, GradeTypes, TodoUntested, AllKnown, ReportsTrue, Known
<1>2. CASE Tool!Next
  BY <1>2, GradeStart, GradeTest, GradeTestDies, GradeReported, GradeReportFails, GradeFinish DEF Tool!Next
<1>3. QED BY <1>1, <1>2

(***************************************************************************)
(* For any schedule, commit and failures of the server: what it recorded   *)
(* of a task is what its test said, and grade exits with 0 only if all the *)
(* tasks the commit concerns passed and the server knows.                  *)
(***************************************************************************)
THEOREM GradesReported == Tool!Spec /\ [](part = "grade") => []GradesAreTrue
<1>1. GradeInv => Tool!GradesAreTrue
  <2> SUFFICES ASSUME GradeInv PROVE Tool!GradesAreTrue
    OBVIOUS
  <2>1. \A x : x \in Tool!ToSet(v4) <=> In(x, v4)
    <3>1. v4 \in Seq(Tasks)
      BY DEF GradeInv, GradeTypes
    <3>2. DOMAIN v4 = 1..Len(v4)
      BY <3>1
    <3>3. QED BY <3>2 DEF Tool!ToSet, In
  <2>2. \A t \in Tool!Concerned : t.name \in NamesConcerned
    BY DEF NamesConcerned
  <2>3. QED BY <2>1, <2>2 DEF GradeInv, AllKnown, ReportsTrue, Known, Tool!GradesAreTrue
<1>2. GradeInv /\ part = "grade" => GradesAreTrue
  BY <1>1 DEF GradesAreTrue
<1>3. QED BY <1>2, GradeInit, GradeNext, PTL DEF Tool!Spec

-----------------------------------------------------------------------------
\* Sums of functions, which CalCoverage and Counts take.

\* g[s] is the sum of f over s, for the subsets of S in D.
First(s) == CHOOSE x \in s : TRUE
SumsUp(g, f, D) == g \in [D -> Nat] /\ \A s \in D : g[s] = IF s = {} THEN 0 ELSE f[First(s)] + g[s \ {First(s)}]
UpTo(S, n) == {s \in SUBSET S : Cardinality(s) <= n}

LEMMA FirstIsIn == \A s : s # {} => First(s) \in s
BY DEF First

LEMMA SmallSets ==
  ASSUME NEW S, IsFiniteSet(S), NEW n \in Nat
  PROVE  /\ UpTo(S, 0) = {{}}
         /\ \A s \in UpTo(S, n + 1) : s # {} => s \ {First(s)} \in UpTo(S, n) /\ First(s) \in S
         /\ UpTo(S, n) \subseteq UpTo(S, n + 1)
<1>1. \A s \in SUBSET S : IsFiniteSet(s) /\ Cardinality(s) \in Nat /\ (Cardinality(s) = 0 <=> s = {})
  BY FS_Subset, FS_CardinalityType, FS_EmptySet
<1>2. UpTo(S, 0) = {{}}
  BY <1>1 DEF UpTo
<1>3. ASSUME NEW s \in UpTo(S, n + 1), s # {}
      PROVE  s \ {First(s)} \in UpTo(S, n) /\ First(s) \in S
  <2>1. First(s) \in s /\ s \in SUBSET S /\ IsFiniteSet(s) /\ Cardinality(s) <= n + 1
    BY <1>1, <1>3, FirstIsIn DEF UpTo
  <2>2. Cardinality(s \ {First(s)}) = Cardinality(s) - 1 /\ s \ {First(s)} \in SUBSET S
    BY <2>1, FS_RemoveElement
  <2>3. PICK m \in Nat : m = Cardinality(s)
    BY <1>1, <2>1
  <2>4. m - 1 <= n
    BY <2>1, <2>3
  <2>5. QED BY <2>1, <2>2, <2>3, <2>4 DEF UpTo
<1>4. ASSUME NEW s \in UpTo(S, n) PROVE s \in UpTo(S, n + 1)
  <2>1. PICK m \in Nat : m = Cardinality(s)
    BY <1>1 DEF UpTo
  <2>2. m <= n => m <= n + 1
    OBVIOUS
  <2>3. QED BY <2>1, <2>2 DEF UpTo
<1>5. QED BY <1>2, <1>3, <1>4

LEMMA SumGoesOn ==
  ASSUME NEW S, IsFiniteSet(S), NEW f \in [S -> Nat], NEW n \in Nat, NEW g, SumsUp(g, f, UpTo(S, n))
  PROVE  \E h : SumsUp(h, f, UpTo(S, n + 1))
<1> DEFINE D == UpTo(S, n)
           E == UpTo(S, n + 1)
           h == [s \in E |-> IF s = {} THEN 0 ELSE f[First(s)] + g[s \ {First(s)}]]
<1>1. g \in [D -> Nat] /\ \A s \in D : g[s] = IF s = {} THEN 0 ELSE f[First(s)] + g[s \ {First(s)}]
  BY DEF SumsUp
<1>2. \A s \in E : s # {} => s \ {First(s)} \in D /\ First(s) \in S
  BY SmallSets
<1>3. D \subseteq E
  BY SmallSets
<1> HIDE DEF D, E
<1>4. h \in [E -> Nat]
  <2>1. \A s \in E : s # {} => f[First(s)] \in Nat /\ g[s \ {First(s)}] \in Nat
    BY <1>1, <1>2
  <2>2. \A a, b \in Nat : a + b \in Nat
    OBVIOUS
  <2>3. QED BY <2>1, <2>2
<1>5. \A s \in D : h[s] = g[s]
  BY <1>1, <1>3
<1>6. \A s \in E : h[s] = IF s = {} THEN 0 ELSE f[First(s)] + h[s \ {First(s)}]
  <2> TAKE s \in E
  <2>1. CASE s = {}
    BY <2>1
  <2>2. CASE s # {}
    <3>1. h[s \ {First(s)}] = g[s \ {First(s)}]
      BY <1>2, <1>5, <2>2
    <3>2. h[s] = f[First(s)] + g[s \ {First(s)}]
      BY <2>2
    <3>3. QED BY <2>2, <3>1, <3>2
  <2>3. QED BY <2>1, <2>2
<1>7. SumsUp(h, f, E)
  <2> HIDE DEF h
  <2>1. QED BY <1>4, <1>6 DEF SumsUp
<1>8. QED BY <1>7 DEF E

LEMMA SumsExist ==
  ASSUME NEW S, IsFiniteSet(S), NEW f \in [S -> Nat], NEW n \in Nat
  PROVE  \E g : SumsUp(g, f, UpTo(S, n))
<1> DEFINE Bad == {m \in Nat : ~\E g : SumsUp(g, f, UpTo(S, m))}
<1>1. Bad \in SUBSET Nat /\ \A m : m \in Bad <=> m \in Nat /\ ~\E g : SumsUp(g, f, UpTo(S, m))
  OBVIOUS
<1> HIDE DEF Bad
<1>2. SUFFICES ASSUME Bad # {} PROVE FALSE
  BY <1>1
<1>3. PICK m \in Bad : \A k \in Bad : m <= k
  BY <1>1, <1>2, LeastOf
<1>4. m \in Nat /\ ~\E g : SumsUp(g, f, UpTo(S, m))
  BY <1>1, <1>3
<1>5. CASE m = 0
  <2> DEFINE g == [s \in {{}} |-> 0]
  <2>1. g \in [{{}} -> Nat] /\ g[{}] = 0
    OBVIOUS
  <2> HIDE DEF g
  <2>2. SumsUp(g, f, {{}})
    BY <2>1 DEF SumsUp
  <2>3. UpTo(S, 0) = {{}}
    BY <1>4, SmallSets
  <2>4. QED BY <1>4, <1>5, <2>2, <2>3
<1>6. CASE m # 0
  <2>1. PICK k \in Nat : m = k + 1 /\ ~(m <= k)
    <3>1. m - 1 \in Nat /\ m = (m - 1) + 1 /\ ~(m <= m - 1)
      BY <1>4, <1>6
    <3>2. QED BY <3>1
  <2>2. PICK g : SumsUp(g, f, UpTo(S, k))
    BY <1>1, <1>3, <2>1
  <2>3. \E h : SumsUp(h, f, UpTo(S, k + 1))
    BY <2>2, SumGoesOn
  <2>4. QED BY <1>4, <2>1, <2>3
<1>7. QED BY <1>5, <1>6

\* The sum of naturals is one, and 0 only if they all are.
LEMMA SumIsNat ==
  ASSUME NEW S, IsFiniteSet(S), NEW f \in [S -> Nat]
  PROVE  /\ Checker!SumFunction(f) \in Nat
         /\ Checker!SumFunction(f) = 0 <=> \A x \in S : f[x] = 0
<1> DEFINE iter[s \in SUBSET S] == IF s = {} THEN 0 ELSE f[First(s)] + iter[s \ {First(s)}]
<1>1. PICK n \in Nat : n = Cardinality(S)
  BY FS_CardinalityType
<1>2. UpTo(S, n) = SUBSET S
  <2>1. \A s \in SUBSET S : Cardinality(s) <= n
    BY <1>1, FS_Subset
  <2>2. QED BY <2>1 DEF UpTo
<1>3. PICK g : SumsUp(g, f, SUBSET S)
  <2>1. \E g : SumsUp(g, f, UpTo(S, n))
    BY SumsExist
  <2>2. QED BY <1>2, <2>1
<1>4. g = [s \in SUBSET S |-> IF s = {} THEN 0 ELSE f[First(s)] + g[s \ {First(s)}]]
  BY <1>3 DEF SumsUp
<1>5. iter = [s \in SUBSET S |-> IF s = {} THEN 0 ELSE f[First(s)] + iter[s \ {First(s)}]]
  BY <1>4
<1>6. Checker!SumFunction(f) = iter[S]
  <2>1. DOMAIN f = S
    OBVIOUS
  <2>2. QED
    BY <2>1 DEF Checker!SumFunction, Checker!SumFunctionOnSet, Checker!FoldFunctionOnSet, Checker!MapThenFoldSet, First
<1> HIDE DEF iter
<1>7. \A s \in SUBSET S : iter[s] = IF s = {} THEN 0 ELSE f[First(s)] + iter[s \ {First(s)}]
  BY <1>5
<1> DEFINE Good(s) == iter[s] \in Nat /\ (iter[s] = 0 <=> \A x \in s : f[x] = 0)
           Bad     == {k \in Nat : \E s \in SUBSET S : Cardinality(s) = k /\ ~Good(s)}
<1>8. Bad \in SUBSET Nat /\ \A k : k \in Bad <=> k \in Nat /\ \E s \in SUBSET S : Cardinality(s) = k /\ ~Good(s)
  OBVIOUS
<1> HIDE DEF Bad
<1>9. Bad = {}
  <2>1. SUFFICES ASSUME Bad # {} PROVE FALSE
    OBVIOUS
  <2>2. PICK k \in Bad : \A m \in Bad : k <= m
    BY <1>8, <2>1, LeastOf
  <2>3. PICK s \in SUBSET S : Cardinality(s) = k /\ ~Good(s)
    BY <1>8, <2>2
  <2>4. s # {}
    BY <1>7, <2>3
  <2> DEFINE x == First(s)
             t == s \ {x}
  <2>5. x \in s /\ x \in S /\ t \in SUBSET S /\ f[x] \in Nat
    BY <2>4, FirstIsIn
  <2>6. k \in Nat /\ Cardinality(t) = k - 1 /\ k - 1 \in Nat /\ ~(k <= k - 1)
    <3>1. IsFiniteSet(s)
      BY FS_Subset
    <3>2. Cardinality(t) = Cardinality(s) - 1 /\ Cardinality(t) \in Nat
      BY <2>5, <3>1, FS_RemoveElement, FS_Subset, FS_CardinalityType
    <3>3. k \in Nat
      BY <1>8, <2>2
    <3>4. QED BY <2>3, <3>2, <3>3
  <2>7. Good(t)
    BY <1>8, <2>2, <2>5, <2>6
  <2>8. iter[s] = f[x] + iter[t]
    BY <1>7, <2>4
  <2>9. PICK a, b \in Nat : a = f[x] /\ b = iter[t]
    BY <2>5, <2>7
  <2>10. a + b \in Nat /\ (a + b = 0 <=> a = 0 /\ b = 0)
    OBVIOUS
  <2>11. (\A y \in s : f[y] = 0) <=> f[x] = 0 /\ \A y \in t : f[y] = 0
    BY <2>5
  <2>12. Good(s)
    BY <2>7, <2>8, <2>9, <2>10, <2>11
  <2>13. QED BY <2>3, <2>12
<1>10. Good(S)
  <2>1. S \in SUBSET S /\ n \in Nat
    OBVIOUS
  <2>2. QED BY <1>1, <1>8, <1>9, <2>1
<1>11. QED BY <1>6, <1>10

-----------------------------------------------------------------------------
\* Submission: what CheckCoverage computes is what was covered.

LEMMA CheckerSizes == ASSUME NEW S
                      PROVE  Checker!Cardinality(S) = Cardinality(S) /\ Checker!IsFiniteSet(S) = IsFiniteSet(S)
BY DEF Checker!Cardinality, Cardinality, Checker!IsFiniteSet, IsFiniteSet

LEMMA ProfilesAreFinite == \A p \in Profiles : IsFiniteSet(DOMAIN p) /\ \A b \in DOMAIN p : b.stmts \in Nat /\ p[b] \in Nat
BY ToolsAssumption, CheckerSizes DEF Checker!SubmissionAssumption

\* The blocks of some profiles, and those that ran.
BlocksOf(ps) == UNION {DOMAIN ps[i] : i \in DOMAIN ps}
HitOf(ps)    == {b \in BlocksOf(ps) : \E i \in DOMAIN ps : b \in DOMAIN ps[i] /\ ps[i][b] > 0}

LEMMA BlocksAreFinite ==
  ASSUME NEW ps \in Seq(Profiles)
  PROVE  /\ IsFiniteSet(BlocksOf(ps)) /\ \A b \in BlocksOf(ps) : b.stmts \in Nat
         /\ IsFiniteSet(DOMAIN ps) /\ \A i \in DOMAIN ps : ps[i] \in Profiles
<1>1. PICK n \in Nat : ps \in [1..n -> Profiles]
  OBVIOUS
<1>2. IsFiniteSet(1..n)
  BY FS_Interval
<1> DEFINE Ds == {DOMAIN ps[i] : i \in 1..n}
           g  == [i \in 1..n |-> DOMAIN ps[i]]
<1>3. g \in Surjection(1..n, Ds)
  BY DEF Surjection
<1>4. IsFiniteSet(Ds)
  BY <1>2, <1>3, FS_Surjection
<1>5. \A D \in Ds : IsFiniteSet(D)
  BY <1>1, ProfilesAreFinite
<1> HIDE DEF Ds
<1>6. IsFiniteSet(UNION Ds)
  BY <1>4, <1>5, FS_UNION
<1>7. BlocksOf(ps) = UNION Ds
  BY <1>1 DEF BlocksOf, Ds
<1>8. ASSUME NEW b \in BlocksOf(ps) PROVE b.stmts \in Nat
  BY <1>1, <1>8, ProfilesAreFinite DEF BlocksOf
<1>9. QED BY <1>1, <1>2, <1>6, <1>7, <1>8

LEMMA StmtsAreNat ==
  ASSUME NEW S, IsFiniteSet(S), \A b \in S : b.stmts \in Nat
  PROVE  Checker!Stmts(S) \in Nat
<1> DEFINE f == [b \in S |-> b.stmts]
<1>1. f \in [S -> Nat]
  OBVIOUS
<1> HIDE DEF f
<1>2. Checker!SumFunction(f) \in Nat
  BY <1>1, SumIsNat
<1>3. QED BY <1>2 DEF Checker!Stmts, f

LEMMA CountsAreHits ==
  ASSUME NEW ps \in Seq(Profiles)
  PROVE  /\ DOMAIN Checker!Counts(ps) = BlocksOf(ps)
         /\ {b \in BlocksOf(ps) : Checker!Counts(ps)[b] > 0} = HitOf(ps)
<1>1. Checker!Counts(ps) = [b \in BlocksOf(ps) |->
        Checker!SumFunction([i \in {j \in DOMAIN ps : b \in DOMAIN ps[j]} |-> ps[i][b]])]
  BY DEF Checker!Counts, BlocksOf
<1>2. ASSUME NEW b \in BlocksOf(ps)
      PROVE  Checker!Counts(ps)[b] > 0 <=> \E i \in DOMAIN ps : b \in DOMAIN ps[i] /\ ps[i][b] > 0
  <2> DEFINE I == {j \in DOMAIN ps : b \in DOMAIN ps[j]}
             f == [i \in I |-> ps[i][b]]
  <2>1. f \in [I -> Nat]
    <3>1. \A i \in I : ps[i][b] \in Nat
      BY BlocksAreFinite, ProfilesAreFinite
    <3>2. QED BY <3>1
  <2>2. IsFiniteSet(I)
    <3>1. I \in SUBSET (DOMAIN ps)
      OBVIOUS
    <3>2. QED BY <3>1, BlocksAreFinite, FS_Subset
  <2>3. Checker!Counts(ps)[b] = Checker!SumFunction(f)
    BY <1>1
  <2>4. \A i \in I : f[i] = ps[i][b]
    OBVIOUS
  <2>5. \A i \in DOMAIN ps : i \in I <=> b \in DOMAIN ps[i]
    OBVIOUS
  <2> HIDE DEF f, I
  <2>6. Checker!SumFunction(f) \in Nat /\ (Checker!SumFunction(f) = 0 <=> \A i \in I : f[i] = 0)
    BY <2>1, <2>2, SumIsNat
  <2>7. Checker!Counts(ps)[b] > 0 <=> \E i \in I : f[i] # 0
    BY <2>3, <2>6
  <2>8. \A i \in I : f[i] # 0 <=> ps[i][b] > 0
    <3>1. \A i \in I : f[i] \in Nat
      BY <2>1
    <3>2. QED BY <2>4, <3>1
  <2>9. I \subseteq DOMAIN ps
    BY DEF I
  <2>10. QED BY <2>5, <2>7, <2>8, <2>9
<1>3. QED BY <1>1, <1>2 DEF HitOf

\* What CheckCoverage decides, but for the rounding.
LEMMA PoorDecides ==
  ASSUME v9 \in Seq(Profiles), v6.percent \in 0..100
  PROVE  IF Checker!Poor(v6.percent) THEN ~Checker!EnoughIsCovered \/ Checker!RoundedDown ELSE Checker!EnoughIsCovered
<1>1. PICK hit, all \in Nat : hit = Checker!Stmts(HitOf(v9)) /\ all = Checker!Stmts(BlocksOf(v9))
  <2>1. HitOf(v9) \in SUBSET BlocksOf(v9)
    BY DEF HitOf
  <2>2. IsFiniteSet(HitOf(v9)) /\ \A b \in HitOf(v9) : b.stmts \in Nat
    BY <2>1, BlocksAreFinite, FS_Subset
  <2>3. Checker!Stmts(HitOf(v9)) \in Nat
    BY <2>2, StmtsAreNat
  <2>4. Checker!Stmts(BlocksOf(v9)) \in Nat
    BY BlocksAreFinite, StmtsAreNat
  <2>5. QED BY <2>3, <2>4
<1>2. Checker!CalCoverage(v9) = <<hit, all>>
  BY <1>1, CountsAreHits DEF Checker!CalCoverage
<1>3. PICK p, x, y, z \in Nat : p = v6.percent /\ x = 100 * hit /\ y = p * all /\ z = all /\ (z = 0 => y = 0)
  <2>1. PICK p \in 0..100 : p = v6.percent
    OBVIOUS
  <2>0. \A m, n \in Nat : m * n \in Nat /\ m * 0 = 0
    OBVIOUS
  <2>2. p \in Nat /\ 100 * hit \in Nat /\ p * all \in Nat /\ p * 0 = 0
    <3>1. 100 \in Nat /\ \A m \in 0..100 : m \in Nat
      OBVIOUS
    <3>2. QED BY <2>0, <3>1
  <2>3. QED BY <1>1, <2>1, <2>2
<1>4. Checker!Poor(v6.percent) <=> x < y \/ (x = y /\ <<hit, all>> \in Short) \/ (z = 0 /\ 0 < p)
  BY <1>2, <1>3 DEF Checker!Poor
<1>5. Checker!EnoughIsCovered <=> IF z = 0 THEN p = 0 ELSE x >= y
  BY <1>1, <1>3 DEF Checker!EnoughIsCovered, Checker!Blocks, Checker!Hit, BlocksOf, HitOf
<1>6. Checker!RoundedDown <=> x = y /\ <<hit, all>> \in Short
  BY <1>1, <1>3 DEF Checker!RoundedDown, Checker!Blocks, Checker!Hit, BlocksOf, HitOf
<1>7. (x < y) <=> ~(x >= y)
  BY <1>3
<1>8. z = 0 => x >= y
  BY <1>3
<1>9. (0 < p) <=> ~(p = 0)
  BY <1>3
<1>10. QED BY <1>4, <1>5, <1>6, <1>7, <1>8, <1>9

-----------------------------------------------------------------------------
\* Submission.  v1 is pc, v2 student, v3 private, v4 tmp, v5 whose, v6 coverage, v7 bins,
\* v8 tests, v9 profiles, v10 verdict, v11 ran.

Unique(F) == IsFiniteSet(F) /\ \A f, g \in F : f.name \in Nat /\ (f.name = g.name => f = g)

\* Sorting by names.
ByNames(F) == {p \in F \X F : p[1].name < p[2].name}

LEMMA SortedKeepsAll == ASSUME NEW F, Unique(F) PROVE Checker!ToSet(Checker!Sorted(F)) = F
<1> DEFINE s == Checker!Sorted(F)
           b == RankedBy(F, ByNames(F))
<1>1. Orders(ByNames(F), F)
  <2>1. \A f, g \in F : <<f, g>> \in ByNames(F) <=> f.name < g.name
    BY DEF ByNames
  <2>2. QED BY <2>1 DEF Unique, Orders
<1>2. s = [k \in 1..Checker!Cardinality(F) |->
             CHOOSE x \in F : Checker!Cardinality({y \in F : y.name < x.name}) = k - 1]
  BY DEF Checker!Sorted, Checker!Ranked
<1>3. \A x \in F : Rank(F, ByNames(F), x) = Checker!Cardinality({y \in F : y.name < x.name})
  <2> TAKE x \in F
  <2>1. {y \in F : <<y, x>> \in ByNames(F)} = {y \in F : y.name < x.name}
    BY DEF ByNames
  <2>2. QED BY <2>1, CheckerSizes DEF Rank
<1>4. \A k : (CHOOSE x \in F : Checker!Cardinality({y \in F : y.name < x.name}) = k - 1)
             = (CHOOSE x \in F : Rank(F, ByNames(F), x) = k - 1)
  BY <1>3
<1>5. b = [k \in 1..Cardinality(F) |-> CHOOSE x \in F : Rank(F, ByNames(F), x) = k - 1]
  BY DEF RankedBy
<1> HIDE DEF s, b
<1>6. DOMAIN s = 1..Cardinality(F) /\ \A k \in 1..Cardinality(F) : s[k] = b[k]
  <2>1. Checker!Cardinality(F) = Cardinality(F)
    BY CheckerSizes
  <2>2. s = [k \in 1..Cardinality(F) |-> CHOOSE x \in F : Checker!Cardinality({y \in F : y.name < x.name}) = k - 1]
    BY <1>2, <2>1
  <2>3. ASSUME NEW k \in 1..Cardinality(F) PROVE s[k] = b[k]
    <3>1. s[k] = CHOOSE x \in F : Checker!Cardinality({y \in F : y.name < x.name}) = k - 1
      BY <2>2
    <3>2. b[k] = CHOOSE x \in F : Rank(F, ByNames(F), x) = k - 1
      BY <1>5
    <3>3. QED BY <1>4, <3>1, <3>2
  <2>4. QED BY <2>2, <2>3
<1>7. b \in [1..Cardinality(F) -> F] /\ \A x \in F : \E k \in 1..Cardinality(F) : b[k] = x
  BY <1>1, RankedSorts DEF Unique, b
<1>8. QED BY <1>6, <1>7 DEF Checker!ToSet, s

LEMMA TestsAreListed ==
  ASSUME NEW F, Unique(F)
  PROVE  Checker!ToSet(Checker!ListTestFiles(F)) = {f \in Checker!GetPackageFiles(F, {"private"}) : f.kind = "test"}
<1> DEFINE G == {f \in Checker!GetPackageFiles(F, {"private"}) : f.kind = "test"}
<1>1. G \in SUBSET F
  BY DEF Checker!GetPackageFiles
<1>2. Unique(G)
  BY <1>1, FS_Subset DEF Unique
<1>3. Checker!ListTestFiles(F) = Checker!Sorted(G)
  BY DEF Checker!ListTestFiles
<1> HIDE DEF G
<1>4. QED BY <1>2, <1>3, SortedKeepsAll DEF G

\* A repository whose paths are the names of its files.
Repository(r) == IsFiniteSet(DOMAIN r) /\ \A x \in DOMAIN r : x \in Nat /\ r[x].name = x

LEMMA FilesAreUnique ==
  ASSUME NEW r, Repository(r)
  PROVE  Unique(Checker!Files(r)) /\ \A f \in Checker!Files(r) : f.name \in DOMAIN r /\ r[f.name] = f
<1> DEFINE g == [x \in DOMAIN r |-> r[x]]
<1>1. g \in Surjection(DOMAIN r, Checker!Files(r))
  BY DEF Surjection, Checker!Files
<1>2. IsFiniteSet(Checker!Files(r))
  BY <1>1, FS_Surjection DEF Repository
<1>3. \A f \in Checker!Files(r) : f.name \in DOMAIN r /\ r[f.name] = f /\ f.name \in Nat
  BY DEF Checker!Files, Repository
<1>4. QED BY <1>2, <1>3 DEF Unique

LEMMA GivenRepositories ==
  /\ \A r \in Students \cup Privates : Repository(r)
  /\ \A r \in Privates : /\ Checker!WellTagged(Checker!Files(r)) /\ Config \subseteq DOMAIN r
                         /\ \A f \in Checker!Files(r) : /\ "change" \in f.bars => Checker!IsGo(f) /\ f.wants = {}
                                                        /\ f.kind = "test" => "private" \notin f.bars
BY ToolsAssumption, CheckerSizes DEF Checker!SubmissionAssumption, Repository

\* What the four rsyncs copy, and the tests of the teacher's.
TestNames      == Checker!Named(Checker!ToSet(Checker!ListTestFiles(Checker!Files(v3))))
ProtectedNames == Checker!Named(Checker!ListProtectedFiles(Checker!Files(v3)))
DataNames      == {f.name : f \in {g \in Checker!Files(v3) : g.kind = "testdata"}}
TheirTests     == {f \in Checker!Files(v3) : f.kind = "test" /\ "solution" \notin f.wants}

LEMMA TestsAreTests ==
  ASSUME v3 \in Privates, NEW f \in TheirTests
  PROVE  f \in Checker!ToSet(Checker!ListTestFiles(Checker!Files(v3))) /\ f.name \in TestNames
<1>1. f \in Checker!Files(v3) /\ f.kind = "test" /\ "solution" \notin f.wants /\ "private" \notin f.bars
  BY GivenRepositories DEF TheirTests
<1>2. \/ f.wants = {}
      \/ Checker!IsGo(f) /\ f.wants \subseteq {"private", "solution"}
      \/ f.kind = "proto" /\ f.wants = {"solution"}
  BY <1>1, GivenRepositories DEF Checker!WellTagged
<1>3. f \in Checker!GetPackageFiles(Checker!Files(v3), {"private"})
  BY <1>1, <1>2 DEF Checker!GetPackageFiles, Checker!IsGo
<1>4. Unique(Checker!Files(v3))
  BY GivenRepositories, FilesAreUnique
<1>5. f \in Checker!ToSet(Checker!ListTestFiles(Checker!Files(v3)))
  BY <1>1, <1>3, <1>4, TestsAreListed
<1>6. QED BY <1>5 DEF TestNames, Checker!Named

\* The teacher's files are among those copied.
LEMMA TeachersAreCopied ==
  v3 \in Privates => Checker!Teachers \subseteq TestNames \cup ProtectedNames \cup DataNames \cup Config
<1> SUFFICES ASSUME v3 \in Privates, NEW g \in Checker!Files(v3),
                    \/ g.kind \in {"test", "testdata"} /\ "solution" \notin g.wants
                    \/ "change" \in g.bars \/ g.name \in Config
             PROVE  g.name \in TestNames \cup ProtectedNames \cup DataNames \cup Config
  BY DEF Checker!Teachers
<1>1. CASE g.kind = "test" /\ "solution" \notin g.wants
  BY <1>1, TestsAreTests DEF TheirTests
<1>2. CASE g.kind = "testdata"
  BY <1>2 DEF DataNames
<1>3. CASE "change" \in g.bars
  <2>1. Checker!IsGo(g) /\ g.wants = {}
    BY <1>3, GivenRepositories
  <2>2. g \in Checker!ListProtectedFiles(Checker!Files(v3))
    BY <1>3, <2>1 DEF Checker!ListProtectedFiles, Checker!GetPackageFiles
  <2>3. QED BY <2>2 DEF ProtectedNames, Checker!Named
<1>4. QED BY <1>1, <1>2, <1>3

LEMMA CopiedNames ==
  v3 \in Privates => TestNames \subseteq DOMAIN v3 /\ ProtectedNames \subseteq DOMAIN v3 /\ DataNames \subseteq DOMAIN v3 /\ Config \subseteq DOMAIN v3
<1> SUFFICES ASSUME v3 \in Privates
             PROVE  TestNames \subseteq DOMAIN v3 /\ ProtectedNames \subseteq DOMAIN v3 /\ DataNames \subseteq DOMAIN v3 /\ Config \subseteq DOMAIN v3
  OBVIOUS
<1>1. Unique(Checker!Files(v3)) /\ \A f \in Checker!Files(v3) : f.name \in DOMAIN v3
  BY GivenRepositories, FilesAreUnique
<1>2. Checker!ToSet(Checker!ListTestFiles(Checker!Files(v3))) \subseteq Checker!Files(v3)
  BY <1>1, TestsAreListed DEF Checker!GetPackageFiles
<1>3. Checker!ListProtectedFiles(Checker!Files(v3)) \subseteq Checker!Files(v3)
  BY DEF Checker!ListProtectedFiles, Checker!GetPackageFiles
<1>4. QED BY <1>1, <1>2, <1>3, GivenRepositories DEF TestNames, ProtectedNames, DataNames, Checker!Named

TmpTypes ==
  /\ v3 \in Privates /\ Repository(v4) /\ DOMAIN v5 = DOMAIN v4
  /\ \A x \in DOMAIN v4 : v5[x] = "teacher" => x \in DOMAIN v3 /\ v4[x] = v3[x]

Copied(S) == \A x \in S : x \in DOMAIN v4 /\ v5[x] = "teacher"
AllCopied ==
  /\ v1 \notin {"tests", "dead"} => Copied(TestNames)
  /\ v1 \notin {"tests", "protected", "dead"} => Copied(ProtectedNames)
  /\ v1 \notin {"tests", "protected", "testdata", "dead"} => Copied(DataNames)
  /\ v1 \notin {"tests", "protected", "testdata", "config", "dead"} => Copied(Config)

CoverageTypes == v6.percent \in 0..100 /\ v6.enabled \in BOOLEAN /\ v9 \in Seq(Profiles)

\* A package of the teacher's tests is among those left or has passed every run, and the
\* one under test those before it.
Passed(p, hows) == \A how \in hows : <<p, how>> \in v11
Hows == {"test", "race", "bench"}
AllRun ==
  /\ v1 \in {"build", "next", "race", "bench", "compare", "lint"} => \A f \in TheirTests : f.pkg \in v8 \/ Passed(f.pkg, Hows)
  /\ v1 \in {"race", "bench", "compare"} => v8 # {} /\ <<Checker!Current, "test">> \in v11
  /\ v1 \in {"bench", "compare"} => <<Checker!Current, "race">> \in v11
  /\ v1 = "compare" => <<Checker!Current, "bench">> \in v11
  /\ v1 = "lint" => v8 = {} /\ (v6.enabled => Checker!EnoughIsCovered)

VerdictTrue ==
  /\ v1 # "over" => v10 = "none"
  /\ v10 = "passed" => (\A f \in TheirTests : Passed(f.pkg, Hows)) /\ (v6.enabled => Checker!EnoughIsCovered)
  /\ v10 = "uncovered" => v6.enabled /\ (~Checker!EnoughIsCovered \/ Checker!RoundedDown)

SubmissionInv == TmpTypes /\ AllCopied /\ CoverageTypes /\ AllRun /\ VerdictTrue

LEMMA SubmissionInit == Checker!Init => SubmissionInv
<1> SUFFICES ASSUME Checker!Init PROVE SubmissionInv
  OBVIOUS
<1>1. /\ v1 = "tests" /\ v2 \in Students /\ v3 \in Privates /\ v4 = v2 /\ v5 = [x \in DOMAIN v2 |-> "student"]
      /\ v6 = Checker!NoCoverage /\ v9 = <<>> /\ v10 = "none"
  BY DEF Checker!Init
<1>2. TmpTypes
  BY <1>1, GivenRepositories DEF TmpTypes
<1>3. CoverageTypes
  <2>1. v6.percent \in 0..100 /\ v6.enabled \in BOOLEAN
    BY <1>1 DEF Checker!NoCoverage
  <2>2. v9 \in Seq(Profiles)
    BY <1>1
  <2>3. QED BY <2>1, <2>2 DEF CoverageTypes
<1>4. QED BY <1>1, <1>2, <1>3 DEF SubmissionInv, AllCopied, AllRun, VerdictTrue

\* What a copy does.
LEMMA CopyKeeps ==
  ASSUME TmpTypes, NEW S, S \subseteq DOMAIN v3, Checker!Copy(S), v3' = v3
  PROVE  /\ TmpTypes' /\ Copied(S)' /\ (Copied(TestNames) => Copied(TestNames)')
         /\ (Copied(ProtectedNames) => Copied(ProtectedNames)') /\ (Copied(DataNames) => Copied(DataNames)')
<1>1. /\ v4' = [x \in DOMAIN v4 \cup S |-> IF x \in S THEN v3[x] ELSE v4[x]]
      /\ v5' = [x \in DOMAIN v4 \cup S |-> IF x \in S THEN "teacher" ELSE v5[x]]
  BY DEF Checker!Copy
<1>2. Repository(v3) /\ Repository(v4) /\ v3 \in Privates
  BY GivenRepositories DEF TmpTypes
<1>3. Repository(v4')
  <2>1. IsFiniteSet(DOMAIN v4 \cup S)
    BY <1>2, FS_Subset, FS_Union DEF Repository
  <2>2. QED BY <1>1, <1>2, <2>1 DEF Repository
<1>4. TmpTypes'
  BY <1>1, <1>2, <1>3 DEF TmpTypes
<1>5. TestNames' = TestNames /\ ProtectedNames' = ProtectedNames /\ DataNames' = DataNames
  BY DEF TestNames, ProtectedNames, DataNames
<1>6. ASSUME NEW T PROVE Copied(T) => \A x \in T : x \in DOMAIN v4' /\ v5'[x] = "teacher"
  BY <1>1 DEF Copied
<1>7. \A x \in S : x \in DOMAIN v4' /\ v5'[x] = "teacher"
  BY <1>1
<1>8. (Copied(TestNames) => Copied(TestNames)')
         /\ (Copied(ProtectedNames) => Copied(ProtectedNames)') /\ (Copied(DataNames) => Copied(DataNames)')
  BY <1>5, <1>6 DEF Copied
<1>9. QED BY <1>4, <1>7, <1>8 DEF Copied

LEMMA CopiesNext ==
  SubmissionInv /\ (Checker!CopyTests \/ Checker!CopyProtected \/ Checker!CopyTestdata \/ Checker!CopyConfig)
  => SubmissionInv'
<1> SUFFICES ASSUME SubmissionInv, NEW S,
                    \/ v1 = "tests" /\ v1' = "protected" /\ S = TestNames
                    \/ v1 = "protected" /\ v1' = "testdata" /\ S = ProtectedNames
                    \/ v1 = "testdata" /\ v1' = "config" /\ S = DataNames
                    \/ v1 = "config" /\ v1' = "list" /\ S = Config,
                    Checker!Copy(S), UNCHANGED <<v2, v3, v6, v7, v8, v9, v10, v11>>
             PROVE  SubmissionInv'
  BY DEF Checker!CopyTests, Checker!CopyProtected, Checker!CopyTestdata, Checker!CopyConfig, Checker!CopyFiles,
         TestNames, ProtectedNames, DataNames
<1>1. S \subseteq DOMAIN v3
  BY CopiedNames DEF SubmissionInv, TmpTypes
<1>2. /\ TmpTypes' /\ Copied(S)' /\ (Copied(TestNames) => Copied(TestNames)')
      /\ (Copied(ProtectedNames) => Copied(ProtectedNames)') /\ (Copied(DataNames) => Copied(DataNames)')
  BY <1>1, CopyKeeps DEF SubmissionInv
<1>3. TestNames' = TestNames /\ ProtectedNames' = ProtectedNames /\ DataNames' = DataNames
  BY DEF TestNames, ProtectedNames, DataNames
<1>4. AllCopied'
  BY <1>2, <1>3 DEF SubmissionInv, AllCopied, Copied
<1>5. CoverageTypes' /\ AllRun' /\ VerdictTrue'
  BY DEF SubmissionInv, CoverageTypes, AllRun, VerdictTrue
<1>6. QED BY <1>2, <1>4, <1>5 DEF SubmissionInv

\* getCoverageRequirements demands a percentage.
LEMMA RequirementsArePercentages ==
  ASSUME NEW F
  PROVE  LET asks == Checker!GetCoverageRequirements(F) IN asks.percent \in 0..100 /\ asks.enabled \in BOOLEAN
<1> DEFINE all == Checker!FlattenSeq([k \in DOMAIN Checker!ListTestFiles(F) |-> Checker!ListTestFiles(F)[k].comments])
           I   == {k \in 1..Len(all) : Checker!Demands(all[k])}
           i   == Checker!SelectInSeq(all, Checker!Demands)
           asks == Checker!GetCoverageRequirements(F)
<1>1. asks = IF i = 0 THEN Checker!NoCoverage
            ELSE [enabled |-> TRUE, percent |-> all[i].percent, packages |-> all[i].packages]
  BY DEF Checker!GetCoverageRequirements
<1>2. i = IF I # {} THEN Checker!Min(I) ELSE 0
  BY DEF Checker!SelectInSeq
<1>3. Checker!Min(I) = Min(I)
  BY DEF Checker!Min, Min
<1>4. I \in SUBSET Nat /\ \A k \in I : all[k].percent \in 0..100
  BY DEF Checker!Demands
<1> HIDE DEF all, I, i, asks
<1>5. i # 0 => i \in I
  <2>1. I # {} => Min(I) \in I
    BY <1>4, LeastOf
  <2>2. QED BY <1>2, <1>3, <2>1
<1>6. asks.percent \in 0..100 /\ asks.enabled \in BOOLEAN
  <2>1. CASE i = 0
    <3>1. asks = [enabled |-> FALSE, percent |-> 0, packages |-> {}]
      BY <1>1, <2>1 DEF Checker!NoCoverage
    <3>2. QED BY <3>1
  <2>2. CASE i # 0
    <3>1. all[i].percent \in 0..100
      BY <1>4, <1>5, <2>2
    <3>2. asks.percent = all[i].percent /\ asks.enabled = TRUE
      BY <1>1, <2>2
    <3>3. QED BY <3>1, <3>2
  <2>3. QED BY <2>1, <2>2
<1>7. QED BY <1>6 DEF asks

LEMMA ListNext == SubmissionInv /\ Checker!List => SubmissionInv'
<1> SUFFICES ASSUME SubmissionInv, Checker!List PROVE SubmissionInv'
  OBVIOUS
<1> DEFINE asks  == Checker!GetCoverageRequirements(Checker!Files(v3))
           from == IF asks.enabled THEN Checker!Files(v4) ELSE Checker!Files(v3)
<1>1. /\ v1 = "list" /\ v1' = "build" /\ v6' = asks /\ v8' = Checker!TestPkgs(from)
      /\ UNCHANGED <<v2, v3, v4, v5, v9, v10, v11>>
  BY DEF Checker!List, Checker!repos
<1>2. v3 \in Privates /\ Repository(v4) /\ Copied(TestNames) /\ \A x \in DOMAIN v4 : v5[x] = "teacher" => v4[x] = v3[x]
  BY <1>1 DEF SubmissionInv, TmpTypes, AllCopied
<1>3. ASSUME NEW f \in TheirTests PROVE f.pkg \in v8'
  <2>1. f \in Checker!ToSet(Checker!ListTestFiles(Checker!Files(v3))) /\ f.name \in TestNames
    BY <1>2, TestsAreTests
  <2>2. CASE ~asks.enabled
    BY <1>1, <2>1, <2>2 DEF Checker!TestPkgs
  <2>3. CASE asks.enabled
    <3>1. Unique(Checker!Files(v3)) /\ f \in Checker!Files(v3) /\ v3[f.name] = f
      BY <1>2, GivenRepositories, FilesAreUnique DEF TheirTests
    <3>2. v4[f.name] = f /\ f.name \in DOMAIN v4
      BY <1>2, <2>1, <3>1 DEF Copied
    <3>3. f \in Checker!Files(v4) /\ Unique(Checker!Files(v4))
      BY <1>2, <3>2, FilesAreUnique DEF Checker!Files
    <3>4. f \in Checker!GetPackageFiles(Checker!Files(v3), {"private"}) /\ f.kind = "test"
      BY <2>1, <3>1, TestsAreListed
    <3>5. f \in Checker!GetPackageFiles(Checker!Files(v4), {"private"})
      BY <3>3, <3>4 DEF Checker!GetPackageFiles
    <3>6. f \in Checker!ToSet(Checker!ListTestFiles(Checker!Files(v4)))
      BY <3>3, <3>4, <3>5, TestsAreListed
    <3>7. QED BY <1>1, <2>3, <3>6 DEF Checker!TestPkgs
  <2>4. QED BY <2>2, <2>3
<1>4. CoverageTypes'
  <2>1. asks.percent \in 0..100 /\ asks.enabled \in BOOLEAN
    BY RequirementsArePercentages
  <2> HIDE DEF asks
  <2>2. QED BY <1>1, <2>1 DEF SubmissionInv, CoverageTypes
<1>5. TheirTests' = TheirTests /\ TestNames' = TestNames /\ ProtectedNames' = ProtectedNames /\ DataNames' = DataNames
  BY <1>1 DEF TheirTests, TestNames, ProtectedNames, DataNames
<1> HIDE DEF asks, from
<1>6. TmpTypes' /\ AllCopied'
  BY <1>1, <1>5 DEF SubmissionInv, TmpTypes, AllCopied, Copied
<1>7. AllRun'
  BY <1>1, <1>3, <1>5 DEF AllRun
<1>8. VerdictTrue'
  BY <1>1 DEF SubmissionInv, VerdictTrue
<1>9. QED BY <1>4, <1>6, <1>7, <1>8 DEF SubmissionInv

Preparing == {"tests", "protected", "testdata", "config", "list"}

\* After the preparations the repositories stay as they are.
LEMMA ReposStay ==
  ASSUME SubmissionInv, UNCHANGED <<v2, v3, v4, v5>>, v1' = "dead" \/ v1 \notin Preparing \cup {"dead"}
  PROVE  TmpTypes' /\ AllCopied' /\ TheirTests' = TheirTests
<1>1. TheirTests' = TheirTests /\ TestNames' = TestNames /\ ProtectedNames' = ProtectedNames /\ DataNames' = DataNames
  BY DEF TheirTests, TestNames, ProtectedNames, DataNames
<1>2. TmpTypes'
  BY DEF SubmissionInv, TmpTypes
<1>3. CASE v1' = "dead"
  BY <1>1, <1>2, <1>3 DEF AllCopied
<1>4. CASE v1 \notin Preparing \cup {"dead"}
  <2>1. Copied(TestNames) /\ Copied(ProtectedNames) /\ Copied(DataNames) /\ Copied(Config)
    BY <1>4 DEF SubmissionInv, AllCopied, Preparing
  <2>2. Copied(TestNames)' /\ Copied(ProtectedNames)' /\ Copied(DataNames)' /\ Copied(Config)'
    BY <1>1, <2>1 DEF Copied
  <2>3. QED BY <1>1, <1>2, <2>2 DEF AllCopied
<1>5. QED BY <1>1, <1>2, <1>3, <1>4

LEMMA EnoughStays ==
  UNCHANGED <<v6, v9>> =>
    Checker!EnoughIsCovered' = Checker!EnoughIsCovered /\ Checker!RoundedDown' = Checker!RoundedDown
<1> HAVE UNCHANGED <<v6, v9>>
<1>1. Checker!Blocks' = Checker!Blocks /\ Checker!Hit' = Checker!Hit
  BY DEF Checker!Blocks, Checker!Hit
<1>2. QED BY <1>1 DEF Checker!EnoughIsCovered, Checker!RoundedDown

LEMMA CurrentIsLeft == (v8 # {} => Checker!Current \in v8) /\ (v8' = v8 => Checker!Current' = Checker!Current)
BY DEF Checker!Current

\* Steps that neither run a test nor return.
LEMMA PreparedNext ==
  SubmissionInv /\ ((\E p \in v7 : Checker!Build(p)) \/ Checker!Built \/ Checker!Fatal \/ Checker!SandboxFails) => SubmissionInv'
<1> SUFFICES ASSUME SubmissionInv,
                    (\E p \in v7 : Checker!Build(p)) \/ Checker!Built \/ Checker!Fatal \/ Checker!SandboxFails
             PROVE  SubmissionInv'
  OBVIOUS
<1>1. /\ UNCHANGED <<v2, v3, v4, v5, v6, v8, v9, v11>>
      /\ \/ v1 = "build" /\ v1' \in {"build", "next"} /\ v10' = v10
         \/ v1 = "build" /\ v1' = "over" /\ v10' = "error"
         \/ v1 # "over" /\ v1' = "dead" /\ v10' = v10
  BY DEF Checker!Build, Checker!Built, Checker!Fatal, Checker!SandboxFails, Checker!Return, Checker!repos
<1>2. TmpTypes' /\ AllCopied' /\ TheirTests' = TheirTests
  BY <1>1, ReposStay DEF Preparing
<1>3. CoverageTypes'
  BY <1>1 DEF SubmissionInv, CoverageTypes
<1>4. AllRun'
  BY <1>1, <1>2 DEF SubmissionInv, AllRun, Passed
<1>5. VerdictTrue'
  BY <1>1, <1>2 DEF SubmissionInv, VerdictTrue
<1>6. QED BY <1>2, <1>3, <1>4, <1>5 DEF SubmissionInv

\* Runs that pass.
LEMMA RunsNext ==
  SubmissionInv /\ (Checker!RunTest \/ Checker!RunRace \/ Checker!RunBench \/ Checker!Compare) => SubmissionInv'
<1> SUFFICES ASSUME SubmissionInv, Checker!RunTest \/ Checker!RunRace \/ Checker!RunBench \/ Checker!Compare
             PROVE  SubmissionInv'
  OBVIOUS
<1> DEFINE c == Checker!Current
<1>1. /\ UNCHANGED <<v2, v3, v4, v5, v6>> /\ (v9' = v9 \/ \E f \in Profiles : v9' = Append(v9, f))
      /\ \/ v1 = "next" /\ v1' = "race" /\ v8 # {} /\ v8' = v8 /\ v11' = v11 \cup {<<c, "test">>} /\ v10' = v10
         \/ v1 = "race" /\ v1' = "bench" /\ v8 # {} /\ v8' = v8 /\ v11' = v11 \cup {<<c, "race">>} /\ v10' = v10
         \/ v1 = "bench" /\ v1' = "next" /\ v8' = v8 \ {c} /\ v11' = v11 \cup {<<c, "bench">>} /\ v10' = v10
         \/ v1 = "bench" /\ v1' = "compare" /\ v8 # {} /\ v8' = v8 /\ v11' = v11 \cup {<<c, "bench">>} /\ v10' = v10
         \/ v1 = "compare" /\ v1' = "over" /\ v8' = v8 /\ v11' = v11 /\ v10' = "error"
         \/ v1 = "compare" /\ v1' = "next" /\ v8' = v8 \ {c} /\ v11' = v11 /\ v10' = v10
  <2>1. CASE Checker!RunTest
    BY <2>1 DEF Checker!RunTest, Checker!Passes, Checker!repos
  <2>2. CASE Checker!RunRace
    BY <2>2 DEF Checker!RunRace, Checker!Passes, Checker!repos
  <2>3. CASE Checker!RunBench
    BY <2>3 DEF Checker!RunBench, Checker!Passes, Checker!repos
  <2>4. CASE Checker!Compare
    BY <2>4 DEF Checker!Compare, Checker!Return, Checker!repos
  <2>5. QED BY <2>1, <2>2, <2>3, <2>4
<1>2. TmpTypes' /\ AllCopied' /\ TheirTests' = TheirTests
  BY <1>1, ReposStay DEF Preparing
<1>3. CoverageTypes'
  <2>1. v9 \in Seq(Profiles)
    BY DEF SubmissionInv, CoverageTypes
  <2>2. v9' \in Seq(Profiles)
    BY <1>1, <2>1
  <2>3. QED BY <1>1, <2>2 DEF SubmissionInv, CoverageTypes
<1>4. v8' = v8 => Checker!Current' = c
  BY CurrentIsLeft
<1>5. AllRun'
  <2>1. \A f \in TheirTests : f.pkg \in v8 \/ Passed(f.pkg, Hows)
    BY <1>1 DEF SubmissionInv, AllRun
  <2>2. \A p : Passed(p, Hows) => Passed(p, Hows)'
    BY <1>1 DEF Passed
  <2>3. /\ v1 \in {"bench", "compare"} => <<c, "test">> \in v11 /\ <<c, "race">> \in v11
        /\ v1 = "compare" => <<c, "bench">> \in v11
        /\ v1 = "race" => <<c, "test">> \in v11
    BY DEF SubmissionInv, AllRun
  <2>4. v8' # v8 => v8' = v8 \ {c} /\ \A how \in Hows : <<c, how>> \in v11'
    BY <1>1, <2>3 DEF Hows
  <2> HIDE DEF c
  <2>5. \A p \in v8 : p \in v8' \/ Passed(p, Hows)'
    BY <2>4 DEF Passed
  <2>6. \A f \in TheirTests' : f.pkg \in v8' \/ Passed(f.pkg, Hows)'
    BY <1>2, <2>1, <2>2, <2>5
  <2>7. /\ v1' \in {"race", "bench", "compare"} => v8' # {} /\ <<Checker!Current', "test">> \in v11'
        /\ v1' \in {"bench", "compare"} => <<Checker!Current', "race">> \in v11'
        /\ v1' = "compare" => <<Checker!Current', "bench">> \in v11'
        /\ v1' # "lint"
    BY <1>1, <1>4, <2>3
  <2>8. QED BY <2>6, <2>7 DEF AllRun
<1>6. VerdictTrue'
  <2>1. v10 = "none" /\ v10' \in {"none", "error"} /\ (v1' # "over" => v10' = "none")
    BY <1>1 DEF SubmissionInv, VerdictTrue
  <2>2. QED BY <2>1 DEF VerdictTrue
<1>7. QED BY <1>2, <1>3, <1>5, <1>6 DEF SubmissionInv

\* The end of all tests.
LEMMA EndsNext == SubmissionInv /\ (Checker!Fails \/ Checker!CheckCoverage \/ Checker!Lint) => SubmissionInv'
<1> SUFFICES ASSUME SubmissionInv, Checker!Fails \/ Checker!CheckCoverage \/ Checker!Lint PROVE SubmissionInv'
  OBVIOUS
<1>1. /\ UNCHANGED <<v2, v3, v4, v5, v6, v8, v9, v11>>
      /\ \/ v1 \in {"next", "race", "bench"} /\ v1' = "over" /\ v10' = "failed"
         \/ /\ v1 = "next" /\ v8 = {} /\ v1' = "over" /\ v10' = "uncovered" /\ v6.enabled /\ Checker!Poor(v6.percent)
         \/ v1 = "next" /\ v8 = {} /\ v1' = "over" /\ v10' = "error"
         \/ /\ v1 = "next" /\ v8 = {} /\ v1' = "lint" /\ v10' = v10
            /\ ~(v6.enabled /\ Checker!Poor(v6.percent))
         \/ v1 = "lint" /\ v1' = "over" /\ v10' \in {"error", "passed"}
  <2>1. CASE Checker!Fails
    BY <2>1 DEF Checker!Fails, Checker!Return, Checker!repos
  <2>2. CASE Checker!CheckCoverage
    BY <2>2 DEF Checker!CheckCoverage, Checker!Return, Checker!repos
  <2>3. CASE Checker!Lint
    BY <2>3 DEF Checker!Lint, Checker!Return, Checker!repos
  <2>4. QED BY <2>1, <2>2, <2>3
<1>2. TmpTypes' /\ AllCopied' /\ TheirTests' = TheirTests
  BY <1>1, ReposStay DEF Preparing
<1>3. CoverageTypes'
  BY <1>1 DEF SubmissionInv, CoverageTypes
<1>4. IF Checker!Poor(v6.percent) THEN ~Checker!EnoughIsCovered \/ Checker!RoundedDown ELSE Checker!EnoughIsCovered
  BY PoorDecides DEF SubmissionInv, CoverageTypes
<1>5. Checker!EnoughIsCovered' = Checker!EnoughIsCovered /\ Checker!RoundedDown' = Checker!RoundedDown
  BY <1>1, EnoughStays
<1>6. v1 \in {"next", "lint"} => \A f \in TheirTests : f.pkg \in v8 \/ Passed(f.pkg, Hows)
  BY DEF SubmissionInv, AllRun
<1>7. v1 = "lint" => v8 = {} /\ (v6.enabled => Checker!EnoughIsCovered)
  BY DEF SubmissionInv, AllRun
<1>8. AllRun'
  BY <1>1, <1>2, <1>4, <1>5, <1>6 DEF AllRun, Passed
<1>9. VerdictTrue'
  <2>1. v1 # "over" /\ v10 = "none"
    BY <1>1 DEF SubmissionInv, VerdictTrue
  <2>2. QED BY <1>1, <1>2, <1>4, <1>5, <1>6, <1>7, <2>1 DEF VerdictTrue, Passed
<1>10. QED BY <1>2, <1>3, <1>8, <1>9 DEF SubmissionInv

LEMMA SubmissionNext == SubmissionInv /\ [Checker!Next]_(Checker!vars) => SubmissionInv'
<1> SUFFICES ASSUME SubmissionInv, [Checker!Next]_(Checker!vars) PROVE SubmissionInv'
  OBVIOUS
<1>1. CASE UNCHANGED Checker!vars
  <2>1. UNCHANGED <<v1, v2, v3, v4, v5, v6, v7, v8, v9, v10, v11>>
    BY <1>1 DEF Checker!vars
  <2>2. /\ Checker!EnoughIsCovered' = Checker!EnoughIsCovered /\ Checker!RoundedDown' = Checker!RoundedDown
        /\ Checker!Current' = Checker!Current
    BY <2>1, EnoughStays, CurrentIsLeft
  <2>3. TheirTests' = TheirTests /\ TestNames' = TestNames /\ ProtectedNames' = ProtectedNames /\ DataNames' = DataNames
    BY <2>1 DEF TheirTests, TestNames, ProtectedNames, DataNames
  <2>4. TmpTypes' /\ AllCopied' /\ CoverageTypes'
    BY <2>1, <2>3 DEF SubmissionInv, TmpTypes, AllCopied, CoverageTypes, Copied
  <2>5. AllRun' /\ VerdictTrue'
    BY <2>1, <2>2, <2>3 DEF SubmissionInv, AllRun, VerdictTrue, Passed
  <2>6. QED BY <2>4, <2>5 DEF SubmissionInv
<1>2. CASE Checker!Next
  BY <1>2, CopiesNext, ListNext, PreparedNext, RunsNext, EndsNext DEF Checker!Next
<1>3. QED BY <1>1, <1>2

(***************************************************************************)
(* For any student's and teacher's repositories and profiles, whatever the *)
(* commands return: what is run is the teacher's wherever the teacher has  *)
(* a say, a submission passes only after every test of the teacher's has   *)
(* in all three ways and if all profiles together cover enough, and it is  *)
(* refused for coverage only if they cover too little, or just enough and  *)
(* the float falls short of it.                                            *)
(***************************************************************************)
THEOREM SubmissionsTested == Checker!Spec /\ [](part = "submission") => []GradesAreTrue
<1>1. SubmissionInv => Checker!PassedMeansTested
  <2> SUFFICES ASSUME SubmissionInv PROVE Checker!PassedMeansTested
    OBVIOUS
  <2>1. ASSUME v1 \notin {"tests", "protected", "testdata", "config", "dead"}, NEW x \in Checker!Teachers
        PROVE  v5[x] = "teacher"
    <3>1. x \in TestNames \cup ProtectedNames \cup DataNames \cup Config
      BY TeachersAreCopied DEF SubmissionInv, TmpTypes
    <3>2. QED BY <2>1, <3>1 DEF SubmissionInv, AllCopied, Copied
  <2>2. v10 = "passed" =>
          /\ \A f \in Checker!Files(v3) : f.kind = "test" /\ "solution" \notin f.wants =>
               \A how \in {"test", "race", "bench"} : <<f.pkg, how>> \in v11
          /\ v6.enabled => Checker!EnoughIsCovered
    BY DEF SubmissionInv, VerdictTrue, Passed, Hows, TheirTests
  <2>3. v10 = "uncovered" => v6.enabled /\ (~Checker!EnoughIsCovered \/ Checker!RoundedDown)
    BY DEF SubmissionInv, VerdictTrue
  <2>4. QED BY <2>1, <2>2, <2>3 DEF Checker!PassedMeansTested
<1>2. SubmissionInv /\ part = "submission" => GradesAreTrue
  BY <1>1 DEF GradesAreTrue
<1>3. QED BY <1>2, SubmissionInit, SubmissionNext, PTL DEF Checker!Spec

-----------------------------------------------------------------------------
\* Forth.  v1 is stack, v2 words, v3 out, v4 log.

Definitions == [name : STRING, body : Seq(STRING)]
Meanings    == [STRING -> Seq(STRING)]

LEMMA ShortSequences == ASSUME NEW S, NEW x \in S PROVE <<x>> \in Seq(S) /\ <<>> \in Seq(S) /\ <<x>> # <<>>
OBVIOUS

LEMMA OneOfMany == ASSUME NEW S, NEW s \in Seq(S), NEW i \in 1..Len(s) PROVE s[i] \in S
OBVIOUS

LEMMA PartOfSeq == ASSUME NEW S, NEW s \in Seq(S), NEW a \in 1..Len(s), NEW b \in Int, b <= Len(s)
                   PROVE  SubSeq(s, a, b) \in Seq(S)
OBVIOUS

\* A set of numbers up to k that is not empty has a greatest.
LEMMA GreatestOf == ASSUME NEW k \in Nat, NEW S \in SUBSET (1..k), S # {}
                    PROVE  \E m \in S : \A j \in S : j <= m
<1> DEFINE T == {k - j : j \in S}
<1>1. T \in SUBSET Nat /\ T # {} /\ \A j \in S : k - j \in T
  <2>1. \A j \in S : k - j \in T
    OBVIOUS
  <2>2. \A j \in S : k - j \in Nat
    OBVIOUS
  <2>3. T \subseteq Nat
    BY <2>2
  <2>4. QED BY <2>1, <2>3
<1>2. \A n \in T : \E j \in S : n = k - j
  OBVIOUS
<1> HIDE DEF T
<1>3. PICK n \in T : \A x \in T : n <= x
  BY <1>1, LeastOf
<1>4. PICK m \in S : n = k - m
  BY <1>2
<1>5. \A j \in S : k - m <= k - j
  BY <1>1, <1>3, <1>4
<1>6. QED BY <1>5

\* What a token means after k of the definitions l, if M tells it for fewer.
Earlier(l, k, t) == {j \in 1..k : l[j].name = t}
LastOf(S)        == CHOOSE j \in S : \A i \in S : i <= j
Body(l, M, m)    == [i \in DOMAIN l[m].body |-> M[m - 1][l[m].body[i]]]
Sense(l, M, k, t) ==
  IF Words!IsNumber(t) THEN <<t>>
  ELSE IF Earlier(l, k, t) # {} THEN Words!FlattenSeq(Body(l, M, LastOf(Earlier(l, k, t))))
  ELSE IF t \in Words!Builtins THEN <<t>> ELSE <<>>
Agrees(l, k, M) == \A j \in 0..k : M[j] = [t \in STRING |-> Sense(l, M, j, t)]
Tells(l, k, M)  == M \in [0..k -> Meanings] /\ Agrees(l, k, M)

LEMMA LastIs == ASSUME NEW l, NEW k \in Nat, NEW t, NEW m, Earlier(l, k, t) # {}, m = LastOf(Earlier(l, k, t))
                PROVE  m \in 1..k /\ l[m].name = t /\ \A j \in 1..k : l[j].name = t => j <= m
<1> DEFINE S == Earlier(l, k, t)
<1>1. S \in SUBSET (1..k) /\ \A j : j \in S <=> j \in 1..k /\ l[j].name = t
  BY DEF Earlier
<1> HIDE DEF S
<1>2. \E n \in S : \A j \in S : j <= n
  BY <1>1, GreatestOf DEF S
<1>3. m \in S /\ \A j \in S : j <= m
  BY <1>2 DEF LastOf, S
<1>4. QED BY <1>1, <1>3

\* Only what M says of less than k counts, and it gives a sequence.
LEMMA BodyIs ==
  ASSUME NEW l, NEW m \in Nat \ {0}, l[m] \in Definitions, NEW M, M[m - 1] \in Meanings
  PROVE  Words!FlattenSeq(Body(l, M, m)) \in Seq(STRING)
<1>1. PICK s \in Seq(STRING) : s = l[m].body
  BY DEF Definitions
<1>2. PICK n \in Nat : n = Len(s) /\ s \in [1..n -> STRING]
  OBVIOUS
<1>3. \A x \in STRING : M[m - 1][x] \in Seq(STRING)
  BY DEF Meanings
<1>4. Body(l, M, m) \in [1..n -> Seq(STRING)]
  BY <1>1, <1>2, <1>3 DEF Body
<1>5. Body(l, M, m) \in Seq(Seq(STRING))
  BY <1>2, <1>4, FunctionIsSeq
<1>6. Tool!FlattenSeq(Body(l, M, m)) \in Seq(STRING)
  BY <1>5, FlattenIsSeq
<1>7. QED BY <1>6 DEF Tool!FlattenSeq, Words!FlattenSeq

LEMMA SenseIs ==
  ASSUME NEW l, NEW k \in Nat, \A j \in 1..k : l[j] \in Definitions, NEW M, \A j \in 0..k - 1 : M[j] \in Meanings,
         NEW t \in STRING
  PROVE  Sense(l, M, k, t) \in Seq(STRING)
<1>1. CASE Earlier(l, k, t) = {} \/ Words!IsNumber(t)
  <2>1. <<t>> \in Seq(STRING) /\ <<>> \in Seq(STRING)
    BY ShortSequences
  <2>2. QED BY <1>1, <2>1 DEF Sense
<1>2. CASE Earlier(l, k, t) # {} /\ ~Words!IsNumber(t)
  <2>1. PICK m : m = LastOf(Earlier(l, k, t))
    OBVIOUS
  <2>2. m \in 1..k
    BY <1>2, <2>1, LastIs
  <2>3. m \in Nat \ {0} /\ m - 1 \in 0..k - 1
    BY <2>2
  <2>4. Words!FlattenSeq(Body(l, M, m)) \in Seq(STRING)
    BY <2>2, <2>3, BodyIs
  <2>5. QED BY <1>2, <2>1, <2>4 DEF Sense
<1>3. QED BY <1>1, <1>2

SameLog(l, d, k)   == \A j \in 1..k : d[j] = l[j]
SameBelow(M, N, k) == \A j \in 0..k - 1 : N[j] = M[j]

LEMMA SenseOfFewer ==
  ASSUME NEW l, NEW d, NEW k \in Nat, SameLog(l, d, k), NEW M, NEW N, SameBelow(M, N, k), NEW t
  PROVE  Sense(d, N, k, t) = Sense(l, M, k, t)
<1>1. Earlier(d, k, t) = Earlier(l, k, t)
  BY DEF Earlier, SameLog
<1>2. CASE Earlier(l, k, t) # {}
  <2>1. PICK m : m = LastOf(Earlier(l, k, t))
    OBVIOUS
  <2>2. m \in 1..k
    BY <1>2, <2>1, LastIs
  <2>3. m - 1 \in 0..k - 1
    BY <2>2
  <2>4. Body(d, N, m) = Body(l, M, m)
    BY <2>2, <2>3 DEF Body, SameLog, SameBelow
  <2>5. QED BY <1>1, <1>2, <2>1, <2>4 DEF Sense
<1>3. QED BY <1>1, <1>2 DEF Sense

LEMMA SaysWhat ==
  ASSUME NEW l, NEW k \in Nat, NEW M, Tells(l, k, M), NEW j \in 0..k, NEW t \in STRING
  PROVE  M[j][t] = Sense(l, M, j, t)
BY DEF Tells, Agrees

\* There is such an M, and only one.
LEMMA TellsMore ==
  ASSUME NEW l, NEW k \in Nat, \A j \in 1..k : l[j] \in Definitions, k # 0 => \E M : Tells(l, k - 1, M)
  PROVE  \E M : Tells(l, k, M)
<1>1. PICK M : k # 0 => Tells(l, k - 1, M)
  OBVIOUS
<1> DEFINE last == [t \in STRING |-> Sense(l, M, k, t)]
           N    == [j \in 0..k |-> IF j = k THEN last ELSE M[j]]
<1>2. \A j \in 0..k : j # k => k # 0 /\ j \in 0..k - 1
  OBVIOUS
<1>3. \A j \in 0..k - 1 : k # 0 /\ M[j] \in Meanings /\ M[j] = [t \in STRING |-> Sense(l, M, j, t)]
  <2>1. SUFFICES ASSUME NEW j \in 0..k - 1 PROVE k # 0 /\ M[j] \in Meanings /\ M[j] = [t \in STRING |-> Sense(l, M, j, t)]
    OBVIOUS
  <2>2. k # 0
    OBVIOUS
  <2>3. M \in [0..k - 1 -> Meanings] /\ Agrees(l, k - 1, M)
    BY <1>1, <2>2 DEF Tells
  <2>4. QED BY <2>2, <2>3 DEF Agrees
<1>4. last \in Meanings
  BY <1>3, SenseIs DEF Meanings
<1>5. last = [t \in STRING |-> Sense(l, M, k, t)]
  OBVIOUS
<1> HIDE DEF last
<1>6. N \in [0..k -> Meanings] /\ N[k] = last /\ \A j \in 0..k - 1 : N[j] = M[j]
  <2>1. \A j \in 0..k : (IF j = k THEN last ELSE M[j]) \in Meanings
    BY <1>2, <1>3, <1>4
  <2>2. k \in 0..k /\ \A j \in 0..k - 1 : j \in 0..k /\ j # k
    OBVIOUS
  <2>3. QED BY <2>1, <2>2
<1> HIDE DEF N
<1>7. ASSUME NEW j \in 0..k PROVE N[j] = [t \in STRING |-> Sense(l, N, j, t)]
  <2>1. \A t : Sense(l, N, j, t) = Sense(l, M, j, t)
    <3>1. SameBelow(M, N, j) /\ SameLog(l, l, j)
      BY <1>6 DEF SameBelow, SameLog
    <3>2. j \in Nat
      OBVIOUS
    <3>3. QED BY <3>1, <3>2, SenseOfFewer
  <2>2. CASE j = k
    <3>1. N[j] = [t \in STRING |-> Sense(l, M, j, t)]
      BY <1>5, <1>6, <2>2
    <3>2. QED BY <2>1, <3>1
  <2>3. CASE j # k
    <3>1. j \in 0..k - 1
      BY <1>2, <2>3
    <3>2. N[j] = [t \in STRING |-> Sense(l, M, j, t)]
      BY <1>3, <1>6, <3>1
    <3>3. QED BY <2>1, <3>2
  <2>4. QED BY <2>2, <2>3
<1>8. QED BY <1>6, <1>7 DEF Tells, Agrees

LEMMA OneTells ==
  ASSUME NEW l, NEW k \in Nat, \A j \in 1..k : l[j] \in Definitions
  PROVE  \E M : Tells(l, k, M)
<1> DEFINE Bad == {n \in 0..k : ~\E M : Tells(l, n, M)}
<1>1. Bad \in SUBSET Nat /\ \A n : n \in Bad <=> n \in 0..k /\ ~\E M : Tells(l, n, M)
  OBVIOUS
<1> HIDE DEF Bad
<1>2. SUFFICES ASSUME Bad # {} PROVE FALSE
  <2>1. k \in 0..k
    OBVIOUS
  <2>2. QED BY <1>1, <2>1
<1>3. PICK n \in Bad : \A j \in Bad : n <= j
  BY <1>1, <1>2, LeastOf
<1>4. n \in 0..k /\ n \in Nat /\ \A j \in 1..n : l[j] \in Definitions
  BY <1>1, <1>3
<1>5. n # 0 => \E M : Tells(l, n - 1, M)
  <2>1. SUFFICES ASSUME n # 0 PROVE n - 1 \in 0..k /\ ~(n <= n - 1)
    BY <1>1, <1>3
  <2>2. QED BY <1>4, <2>1
<1>6. QED BY <1>1, <1>3, <1>4, <1>5, TellsMore

\* The first k definitions decide what was meant after the first k.
LEMMA OnlyOneTells ==
  ASSUME NEW l, NEW d, NEW n \in Nat, NEW m \in Nat, NEW k \in Nat, k <= n, k <= m, SameLog(l, d, k),
         NEW M, Agrees(l, n, M), NEW N, Agrees(d, m, N)
  PROVE  \A j \in 0..k : N[j] = M[j]
<1> DEFINE Bad == {j \in 0..k : N[j] # M[j]}
<1>1. Bad \in SUBSET Nat /\ \A j : j \in Bad <=> j \in 0..k /\ N[j] # M[j]
  OBVIOUS
<1> HIDE DEF Bad
<1>2. SUFFICES ASSUME Bad # {} PROVE FALSE
  BY <1>1
<1>3. PICK j \in Bad : \A i \in Bad : j <= i
  BY <1>1, <1>2, LeastOf
<1>4. j \in 0..k /\ j \in Nat /\ j \in 0..n /\ j \in 0..m /\ SameLog(l, d, j)
  BY <1>1, <1>3 DEF SameLog
<1>5. SameBelow(M, N, j)
  <2>1. \A i \in 0..j - 1 : i \in 0..k /\ ~(j <= i)
    BY <1>4
  <2>2. QED BY <1>1, <1>3, <2>1 DEF SameBelow
<1>6. N[j] = M[j]
  <2>1. \A t : Sense(d, N, j, t) = Sense(l, M, j, t)
    <3>1. j \in Nat /\ SameLog(l, d, j)
      BY <1>4
    <3>2. QED BY <1>5, <3>1, SenseOfFewer
  <2>2. M[j] = [t \in STRING |-> Sense(l, M, j, t)] /\ N[j] = [t \in STRING |-> Sense(d, N, j, t)]
    BY <1>4 DEF Agrees
  <2>3. QED BY <2>1, <2>2
<1>7. QED BY <1>1, <1>3, <1>6

TheOne(l, n) == CHOOSE f : f = [k \in 0..n |-> [t \in STRING |-> Sense(l, f, k, t)]]

LEMMA TheOneTells ==
  ASSUME NEW l, NEW n \in Nat, \A j \in 1..n : l[j] \in Definitions, NEW N, N = TheOne(l, n)
  PROVE  Tells(l, n, N)
<1>1. PICK M : Tells(l, n, M)
  BY OneTells
<1>2. M = [k \in 0..n |-> [t \in STRING |-> Sense(l, M, k, t)]]
  BY <1>1 DEF Tells, Agrees
<1>3. N = [k \in 0..n |-> [t \in STRING |-> Sense(l, N, k, t)]]
  BY <1>2 DEF TheOne
<1>4. Agrees(l, n, N)
  BY <1>3 DEF Agrees
<1>5. \A k \in 0..n : N[k] = M[k]
  <2>1. Agrees(l, n, M) /\ SameLog(l, l, n) /\ n <= n
    BY <1>1 DEF Tells, SameLog
  <2>2. QED BY <1>4, <2>1, OnlyOneTells
<1>6. M = [k \in 0..n |-> M[k]] /\ N = [k \in 0..n |-> N[k]]
  <2>1. DOMAIN M = 0..n /\ M = [k \in DOMAIN M |-> M[k]]
    BY <1>2
  <2>2. DOMAIN N = 0..n /\ N = [k \in DOMAIN N |-> N[k]]
    BY <1>3
  <2>3. QED BY <2>1, <2>2
<1>7. N = M
  BY <1>5, <1>6
<1>8. QED BY <1>1, <1>7

LEMMA MeaningIs == Words!Meaning = TheOne(v4, Len(v4)) /\ Words!Meaning' = TheOne(v4', Len(v4'))
BY DEF Words!Meaning, TheOne, Sense, Earlier, LastOf, Body

ForthTypes ==
  /\ v4 \in Seq(Definitions) /\ \A j \in 1..Len(v4) : ~Words!IsNumber(v4[j].name)
  /\ DOMAIN v2 = {v4[j].name : j \in 1..Len(v4)} /\ \A w \in DOMAIN v2 : v2[w] \in Seq(STRING)

ForthInv == ForthTypes /\ Words!WordsKeepTheirMeaning

LEMMA ForthInit == Words!Init => ForthInv
<1> SUFFICES ASSUME Words!Init PROVE ForthInv
  OBVIOUS
<1>1. v4 = <<>> /\ DOMAIN v2 = {} /\ Len(v4) = 0
  BY DEF Words!Init
<1>2. v4 \in Seq(Definitions) /\ 1..Len(v4) = {}
  BY <1>1
<1>3. ForthTypes
  BY <1>1, <1>2 DEF ForthTypes
<1>4. QED BY <1>1, <1>3 DEF ForthInv, Words!WordsKeepTheirMeaning

\* A user's line, and its part between the name and the semicolon.
LEMMA LineIs == ASSUME NEW line \in Words!Typed PROVE line \in Seq(STRING) /\ line # <<>>
BY ToolsAssumption DEF Words!ForthAssumption

LEMMA BodyOfLine ==
  ASSUME NEW line \in Seq(STRING), NEW end, end = Words!SelectInSubSeq(line, 3, Len(line), Words!EndsDefinition), end # 0
  PROVE  SubSeq(line, 3, end - 1) \in Seq(STRING)
<1>1. PICK n \in Nat : n = Len(line)
  OBVIOUS
<1>2. PICK I : I = {i \in 3..n : Words!EndsDefinition(line[i])}
  OBVIOUS
<1>3. end = IF I # {} THEN Words!Min(I) ELSE 0
  BY <1>1, <1>2 DEF Words!SelectInSubSeq
<1>4. Words!Min(I) = Min(I)
  BY DEF Words!Min, Min
<1>5. I \in SUBSET Nat /\ \A i \in I : i \in 3..n
  <2>1. \A i \in 3..n : i \in Nat
    BY <1>1
  <2>2. QED BY <1>2, <2>1
<1>6. end \in 3..n
  BY <1>3, <1>4, <1>5, LeastOf
<1>7. 3 \in 1..Len(line) /\ end - 1 \in Int /\ end - 1 <= Len(line)
  BY <1>1, <1>6
<1>8. QED BY <1>7, PartOfSeq

\* What a token of a new definition is bound to is what it means, unless a user's word
\* hides an operation.
LEMMA BoundToMeaning ==
  ASSUME ForthInv, \A k \in DOMAIN v4 : ~Words!Overrides(k), NEW t \in STRING,
         t \in Words!Builtins => \A j \in 1..Len(v4) : v4[j].name # t
  PROVE  Words!Bind(t) = Words!Meaning[Len(v4)][t]
<1>1. PICK n \in Nat : n = Len(v4)
  BY DEF ForthInv, ForthTypes
<1>2. Words!Meaning[n][t] = Sense(v4, Words!Meaning, n, t)
  <2>1. Tells(v4, n, Words!Meaning)
    BY <1>1, MeaningIs, TheOneTells DEF ForthInv, ForthTypes
  <2>2. n \in 0..n
    BY <1>1
  <2>3. QED BY <2>1, <2>2 DEF Tells, Agrees
<1>3. CASE Words!IsNumber(t)
  BY <1>1, <1>2, <1>3 DEF Words!Bind, Sense
<1>4. CASE ~Words!IsNumber(t) /\ t \in DOMAIN v2
  <2>1. v2[t] = Words!Meaning[n][t]
    BY <1>1, <1>4 DEF ForthInv, Words!WordsKeepTheirMeaning
  <2>2. t \notin Words!Builtins
    BY <1>4 DEF ForthInv, ForthTypes
  <2>3. v2[t] \in Seq(STRING)
    BY <1>4 DEF ForthInv, ForthTypes
  <2>4. v2[t] \o <<>> = v2[t]
    BY <2>3
  <2>5. QED BY <1>1, <1>4, <2>1, <2>2, <2>4 DEF Words!Bind
<1>5. CASE ~Words!IsNumber(t) /\ t \notin DOMAIN v2
  <2>1. Earlier(v4, n, t) = {}
    BY <1>1, <1>5 DEF ForthInv, ForthTypes, Earlier
  <2>2. <<>> \o <<t>> = <<t>> /\ <<>> \o <<>> = <<>>
    OBVIOUS
  <2>3. QED BY <1>1, <1>2, <1>5, <2>1, <2>2 DEF Words!Bind, Sense
<1>6. QED BY <1>3, <1>4, <1>5

LEMMA BindIsSeq == ASSUME ForthTypes, NEW t \in STRING PROVE Words!Bind(t) \in Seq(STRING)
<1>1. <<t>> \in Seq(STRING) /\ <<>> \in Seq(STRING)
  BY ShortSequences
<1>2. PICK a \in Seq(STRING), b \in Seq(STRING) :
        /\ a = (IF t \in DOMAIN v2 THEN v2[t] ELSE <<>>) /\ b = (IF t \in Words!Builtins THEN <<t>> ELSE <<>>)
  BY <1>1 DEF ForthTypes
<1>3. a \o b \in Seq(STRING)
  OBVIOUS
<1>4. Words!Bind(t) = IF Words!IsNumber(t) THEN <<t>> ELSE a \o b
  BY <1>2 DEF Words!Bind
<1>5. QED BY <1>1, <1>3, <1>4

LEMMA DefinedWords ==
  ASSUME ForthInv, NEW line \in Seq(STRING), Words!Define(line), v4' # v4
  PROVE  \E d \in Definitions :
           /\ ~Words!IsNumber(d.name) /\ v4' = Append(v4, d)
           /\ DOMAIN v2' = DOMAIN v2 \cup {d.name} /\ v2'[d.name] = Words!MakeDefinition(d.body)
           /\ \A w \in DOMAIN v2 : w # d.name => v2'[w] = v2[w]
<1> DEFINE end == Words!SelectInSubSeq(line, 3, Len(line), Words!EndsDefinition)
           body == SubSeq(line, 3, end - 1)
<1>1. PICK d : d = [name |-> line[2], body |-> body]
  OBVIOUS
<1>2. /\ ~(Len(line) < 3) /\ ~Words!IsNumber(line[2]) /\ end # 0 /\ v4' = Append(v4, d)
      /\ v2' = [w \in DOMAIN v2 \cup {line[2]} |-> IF w = line[2] THEN Words!MakeDefinition(body) ELSE v2[w]]
  BY <1>1 DEF Words!Define
<1>3. Len(line) >= 3 /\ line[2] \in STRING
  <2>1. Len(line) >= 3 /\ 2 \in 1..Len(line)
    BY <1>2
  <2>2. QED BY <2>1, OneOfMany
<1>4. body \in Seq(STRING)
  BY <1>2, <1>3, BodyOfLine
<1> HIDE DEF end, body
<1>5. d \in Definitions /\ d.name = line[2] /\ d.body = body
  BY <1>1, <1>3, <1>4 DEF Definitions
<1>6. QED BY <1>2, <1>5

LEMMA LogGrows2 ==
  ASSUME NEW l \in Seq(Definitions), NEW d \in Definitions, NEW m, m = Append(l, d)
  PROVE  m \in Seq(Definitions) /\ Len(m) = Len(l) + 1 /\ m[Len(m)] = d /\ \A j \in 1..Len(l) : m[j] = l[j]
OBVIOUS

LEMMA ForthDefines ==
  ASSUME ForthInv, NEW line \in Seq(STRING), Words!Define(line), v4' # v4
  PROVE  ForthInv'
<1>1. PICK d \in Definitions :
           /\ ~Words!IsNumber(d.name) /\ v4' = Append(v4, d)
           /\ DOMAIN v2' = DOMAIN v2 \cup {d.name} /\ v2'[d.name] = Words!MakeDefinition(d.body)
           /\ \A w \in DOMAIN v2 : w # d.name => v2'[w] = v2[w]
  BY DefinedWords
<1>2. PICK n \in Nat : n = Len(v4) /\ v4 \in Seq(Definitions) /\ DOMAIN v4 = 1..n
  BY DEF ForthInv, ForthTypes
<1>3. /\ v4' \in Seq(Definitions) /\ Len(v4') = n + 1 /\ v4'[n + 1] = d /\ \A j \in 1..n : v4'[j] = v4[j]
      /\ DOMAIN v4' = 1..n + 1
  BY <1>1, <1>2, LogGrows2
<1>4. \A j \in 1..n + 1 : j = n + 1 \/ j \in 1..n
  OBVIOUS
<1>5. \A j \in 1..n : j \in 1..n + 1
  OBVIOUS
<1>6. n + 1 \in 1..n + 1 /\ n \in 0..n /\ n \in 0..n + 1 /\ n + 1 \in 0..n + 1 /\ n + 1 - 1 = n /\ n + 1 \in Nat /\ n <= n + 1 /\ n <= n
  OBVIOUS
<1>7. PICK k \in Nat : k = Len(d.body) /\ d.body \in [1..k -> STRING]
  BY DEF Definitions
<1> DEFINE bound == [i \in DOMAIN d.body |-> Words!Bind(d.body[i])]
<1>8. bound \in [1..k -> Seq(STRING)]
  BY <1>7, BindIsSeq DEF ForthInv
<1>9. Words!MakeDefinition(d.body) = Words!FlattenSeq(bound)
  BY DEF Words!MakeDefinition
<1>10. Words!MakeDefinition(d.body) \in Seq(STRING)
  <2>1. bound \in Seq(Seq(STRING))
    BY <1>8, FunctionIsSeq
  <2>2. Tool!FlattenSeq(bound) \in Seq(STRING)
    BY <2>1, FlattenIsSeq
  <2>3. QED BY <1>9, <2>2 DEF Tool!FlattenSeq, Words!FlattenSeq
<1>11. ForthTypes'
  <2>1. DOMAIN v2' = {v4'[j].name : j \in 1..n + 1}
    BY <1>1, <1>2, <1>3, <1>4, <1>5, <1>6 DEF ForthInv, ForthTypes
  <2>2. \A j \in 1..n + 1 : ~Words!IsNumber(v4'[j].name)
    BY <1>1, <1>2, <1>3, <1>4 DEF ForthInv, ForthTypes
  <2>3. \A w \in DOMAIN v2' : v2'[w] \in Seq(STRING)
    BY <1>1, <1>10 DEF ForthInv, ForthTypes
  <2>4. QED BY <1>3, <2>1, <2>2, <2>3 DEF ForthTypes
<1>12. ASSUME \A j \in DOMAIN v4' : ~Words!Overrides(j)', NEW w \in DOMAIN v2'
       PROVE  v2'[w] = Words!Meaning'[n + 1][w]
  <2>1. PICK M : M = Words!Meaning /\ Tells(v4, n, M)
    BY <1>2, MeaningIs, TheOneTells
  <2>2. PICK N : N = Words!Meaning' /\ Tells(v4', n + 1, N)
    BY <1>3, <1>6, MeaningIs, TheOneTells
  <2>3. \A j \in 0..n : N[j] = M[j]
    <3>1. Agrees(v4, n, M) /\ Agrees(v4', n + 1, N)
      BY <2>1, <2>2 DEF Tells
    <3>2. SameLog(v4, v4', n)
      BY <1>3 DEF SameLog
    <3>3. QED BY <1>6, <3>1, <3>2, OnlyOneTells
  <2>4. \A t \in STRING : N[n + 1][t] = Sense(v4', N, n + 1, t) /\ M[n][t] = Sense(v4, M, n, t)
    BY <1>6, <2>1, <2>2, SaysWhat
  <2>5. \A j \in 1..n : ~Words!Overrides(j)
    <3>1. TAKE j \in 1..n
    <3>2. ~Words!Overrides(j)' /\ \A i \in 1..j - 1 : i \in 1..n
      BY <1>3, <1>5, <1>12
    <3>3. QED BY <1>3, <3>2 DEF Words!Overrides
  <2>6. \A t \in STRING : t \in Words!ToSet(d.body) \cap Words!Builtins => \A j \in 1..n : v4[j].name # t
    <3>1. ~Words!Overrides(n + 1)'
      BY <1>3, <1>6, <1>12
    <3>2. QED BY <1>3, <1>6, <3>1 DEF Words!Overrides
  <2>7. w \in STRING
    <3>1. \A j \in 1..n : v4[j] \in Definitions
      BY <1>2
    <3>2. w = d.name \/ \E j \in 1..n : w = v4[j].name
      BY <1>1, <1>2, <1>12 DEF ForthInv, ForthTypes
    <3>3. QED BY <3>1, <3>2 DEF Definitions
  <2>8. CASE w = d.name
    <3>1. n + 1 \in Earlier(v4', n + 1, w)
      BY <1>3, <1>6, <2>8 DEF Earlier
    <3>2. PICK m : m = LastOf(Earlier(v4', n + 1, w))
      OBVIOUS
    <3>3. m \in 1..n + 1 /\ n + 1 <= m
      BY <1>3, <1>6, <2>8, <3>1, <3>2, LastIs
    <3>4. m = n + 1
      BY <3>3
    <3>5. Body(v4', N, n + 1) = bound
      <4>1. \A i \in 1..k : N[n][d.body[i]] = Words!Bind(d.body[i])
        <5>1. TAKE i \in 1..k
        <5>2. PICK t \in STRING : t = d.body[i]
          BY <1>7
        <5>3. t \in Words!ToSet(d.body)
          BY <1>7, <5>2 DEF Words!ToSet
        <5>4. t \in Words!Builtins => \A j \in 1..n : v4[j].name # t
          BY <2>6, <5>3
        <5>5. Words!Bind(t) = M[n][t]
          BY <1>2, <2>1, <2>5, <5>4, BoundToMeaning
        <5>6. N[n] = M[n]
          BY <1>6, <2>3
        <5>7. QED BY <5>2, <5>5, <5>6
      <4>2. v4'[n + 1].body = d.body /\ N[n + 1 - 1] = N[n] /\ DOMAIN d.body = 1..k
        BY <1>3, <1>6, <1>7
      <4>3. Body(v4', N, n + 1) = [i \in DOMAIN d.body |-> N[n][d.body[i]]]
        BY <4>2 DEF Body
      <4>4. QED BY <4>1, <4>2, <4>3
    <3>6. ~Words!IsNumber(w)
      BY <1>1, <2>8
    <3>7. Sense(v4', N, n + 1, w) = Words!FlattenSeq(bound)
      BY <3>1, <3>2, <3>4, <3>5, <3>6 DEF Sense
    <3>8. QED BY <1>1, <1>9, <2>2, <2>4, <2>7, <2>8, <3>7
  <2>9. CASE w # d.name
    <3>1. w \in DOMAIN v2 /\ v2'[w] = v2[w]
      BY <1>1, <2>9
    <3>2. v2[w] = M[n][w]
      BY <1>2, <2>1, <2>5, <3>1 DEF ForthInv, Words!WordsKeepTheirMeaning
    <3>3. Earlier(v4', n + 1, w) = Earlier(v4, n, w)
      BY <1>3, <1>4, <1>5, <2>9 DEF Earlier
    <3>4. Earlier(v4, n, w) # {} /\ ~Words!IsNumber(w)
      BY <1>2, <3>1 DEF ForthInv, ForthTypes, Earlier
    <3>5. PICK m : m = LastOf(Earlier(v4, n, w))
      OBVIOUS
    <3>6. m \in 1..n
      BY <3>4, <3>5, LastIs
    <3>7. v4'[m] = v4[m] /\ m - 1 \in 0..n
      BY <1>3, <3>6
    <3>8. Body(v4', N, m) = Body(v4, M, m)
      BY <2>3, <3>7 DEF Body
    <3>9. Sense(v4', N, n + 1, w) = Sense(v4, M, n, w)
      BY <3>3, <3>4, <3>5, <3>8 DEF Sense
    <3>10. QED BY <2>2, <2>4, <2>7, <3>1, <3>2, <3>9
  <2>10. QED BY <2>8, <2>9
<1>13. QED BY <1>3, <1>11, <1>12 DEF ForthInv, Words!WordsKeepTheirMeaning

LEMMA ForthNext == ForthInv /\ [Words!Next]_(Words!vars) => ForthInv'
<1> SUFFICES ASSUME ForthInv, [Words!Next]_(Words!vars) PROVE ForthInv'
  OBVIOUS
<1>1. CASE UNCHANGED <<v2, v4>>
  <2>1. Words!Meaning' = Words!Meaning
    BY <1>1, MeaningIs
  <2>2. \A k : Words!Overrides(k)' <=> Words!Overrides(k)
    BY <1>1 DEF Words!Overrides
  <2>3. Words!WordsKeepTheirMeaning'
    BY <1>1, <2>1, <2>2 DEF ForthInv, Words!WordsKeepTheirMeaning
  <2>4. QED BY <1>1, <2>3 DEF ForthInv, ForthTypes
<1>2. ASSUME NEW line \in Words!Typed, Words!Process(line) PROVE ForthInv'
  <2>1. line \in Seq(STRING)
    BY LineIs
  <2>2. CASE Words!Define(line)
    <3>1. CASE v4' = v4
      <4>1. \A d : Append(v4, d) # v4
        <5>1. v4 \in Seq(Definitions)
          BY DEF ForthInv, ForthTypes
        <5>2. QED BY <5>1
      <4>2. UNCHANGED v2
        BY <2>2, <3>1, <4>1 DEF Words!Define
      <4>3. QED BY <1>1, <3>1, <4>2
    <3>2. QED BY <2>1, <2>2, <3>1, ForthDefines
  <2>3. CASE Words!EvaluateLine(line)
    BY <1>1, <2>3 DEF Words!EvaluateLine
  <2>4. QED BY <1>2, <2>2, <2>3 DEF Words!Process
<1>3. CASE Words!Bye
  BY <1>1, <1>3 DEF Words!Bye
<1>4. CASE UNCHANGED Words!vars
  BY <1>1, <1>4 DEF Words!vars
<1>5. QED BY <1>2, <1>3, <1>4 DEF Words!Next, Words!ReadLine

(* Forth: whatever the user redefines later, operations and the word itself          *)
(* included, a word does what its tokens meant when it was defined, as long as no    *)
(* redefined operation occurs in a definition (Process and makeDefinition).          *)
THEOREM MeaningsAreKept == Words!Spec /\ [](part = "forth") => []WordsKeepTheirMeaning
<1>1. ForthInv => Words!WordsKeepTheirMeaning
  BY DEF ForthInv
<1>2. Words!WordsKeepTheirMeaning /\ part = "forth" => WordsKeepTheirMeaning
  BY DEF WordsKeepTheirMeaning
<1>3. QED BY <1>1, <1>2, ForthInit, ForthNext, PTL DEF Words!Spec

-----------------------------------------------------------------------------
\* Reflect.  v1 is struct, v2 form, v3 left, v4 value, v5 error, v6 done.

Fields == [name : STRING \ {Tags!NoName}, tag : STRING, kind : STRING, slice : BOOLEAN]
Texts  == Seq(STRING)
Name(i) == Tags!NameOf(v1[i])

\* A field is read when it is the one its name means, and the name has come.
Read(i) == Tags!Field(Name(i)) = i /\ Name(i) \in DOMAIN v2 \ v3
AllFit(kind, xs) == \A k \in 1..Len(xs) : Tags!Takes(kind, xs[k])

TagsTypes ==
  /\ v1 \in Structs /\ v2 \in Forms /\ v3 \subseteq DOMAIN v2
  /\ v4 \in [1..Len(v1) -> Texts] /\ v6 \in BOOLEAN
  /\ ~v6 => v5 = Tags!NoName
\* What is in a field fits it and came under its name.
OnlyWhatFits ==
  \A i \in 1..Len(v1) : \A k \in 1..Len(v4[i]) :
    /\ Tags!Takes(v1[i].kind, v4[i][k]) /\ Name(i) \in DOMAIN v2
    /\ \E j \in 1..Len(v2[Name(i)]) : v4[i][k] = v2[Name(i)][j]
UnreadIsEmpty == \A i \in 1..Len(v1) : ~Read(i) => v4[i] = <<>>
ReadIsFilled ==
  v5 = Tags!NoName => \A i \in 1..Len(v1) : Read(i) => v4[i] = Tags!Said(i) /\ AllFit(v1[i].kind, v2[Name(i)])
\* Unpack stops at a name with a value that does not fit.
StopsForReason ==
  /\ v6 /\ v5 = Tags!NoName => v3 = {}
  /\ v5 \notin {Tags!NoName, "form"} => /\ v5 \in DOMAIN v2 /\ Tags!Field(v5) # 0
                               /\ ~AllFit(v1[Tags!Field(v5)].kind, v2[v5])

TagsInv == TagsTypes /\ OnlyWhatFits /\ UnreadIsEmpty /\ ReadIsFilled /\ StopsForReason

LEMMA StructIs == v1 \in Structs => v1 \in Seq(Fields)
BY ToolsAssumption DEF Tags!ReflectAssumption, Fields

LEMMA FormIs == v2 \in Forms => \A name \in DOMAIN v2 : v2[name] \in Texts
BY ToolsAssumption DEF Tags!ReflectAssumption, Texts

LEMMA TextsAre == \A xs \in Texts : Len(xs) \in Nat /\ DOMAIN xs = 1..Len(xs) /\ Tags!ToSet(xs) = {xs[k] : k \in 1..Len(xs)}
BY DEF Texts, Tags!ToSet

\* Of several fields with one name the last is meant.
LEMMA FieldIs ==
  ASSUME v1 \in Structs, NEW name, NEW i, i = Tags!Field(name)
  PROVE  /\ i # 0 => i \in 1..Len(v1) /\ Name(i) = name
         /\ \A j \in 1..Len(v1) : Name(j) = name => i # 0 /\ j <= i
<1> DEFINE I == {j \in 1..Len(v1) : Tags!NameOf(v1[j]) = name}
<1>1. PICK n \in Nat : n = Len(v1)
  BY StructIs
<1>2. I \in SUBSET (1..n) /\ \A j : j \in I <=> j \in 1..n /\ Name(j) = name
  BY <1>1 DEF Name
<1>3. i = IF I # {} THEN Tags!Max(I) ELSE 0
  BY DEF Tags!Field, Tags!SelectLastInSeq
<1> HIDE DEF I
<1>4. CASE I = {}
  BY <1>1, <1>2, <1>3, <1>4
<1>5. CASE I # {}
  <2>1. PICK m \in I : \A j \in I : j <= m
    BY <1>2, <1>5, GreatestOf
  <2>2. \A j \in I : m >= j
    BY <1>2, <2>1
  <2>3. i \in I /\ \A j \in I : i >= j
    BY <1>3, <1>5, <2>1, <2>2 DEF Tags!Max
  <2>4. i # 0 /\ \A j \in I : j <= i
    BY <1>2, <2>3
  <2>5. QED BY <1>1, <1>2, <2>3, <2>4
<1>6. QED BY <1>4, <1>5

LEMMA TagsInit == Tags!Init => TagsInv
<1> SUFFICES ASSUME Tags!Init PROVE TagsInv
  OBVIOUS
<1>1. v1 \in Structs /\ v2 \in Forms /\ v3 = DOMAIN v2 /\ v4 = [i \in DOMAIN v1 |-> <<>>] /\ v5 = Tags!NoName /\ v6 = FALSE
  BY DEF Tags!Init
<1>2. DOMAIN v1 = 1..Len(v1) /\ <<>> \in Texts /\ Len(<<>>) = 0 /\ 1..0 = {}
  BY <1>1, StructIs DEF Texts
<1>3. \A i \in 1..Len(v1) : v4[i] = <<>> /\ ~Read(i)
  BY <1>1, <1>2 DEF Read
<1>4. v4 \in [1..Len(v1) -> Texts]
  BY <1>1, <1>2
<1>5. QED BY <1>1, <1>2, <1>3, <1>4 DEF TagsInv, TagsTypes, OnlyWhatFits, UnreadIsEmpty, ReadIsFilled, StopsForReason

LEMMA PrefixIs == ASSUME NEW S, NEW s \in Seq(S), NEW b \in 0..Len(s)
                  PROVE  SubSeq(s, 1, b) \in Seq(S) /\ Len(SubSeq(s, 1, b)) = b /\ \A k \in 1..b : SubSeq(s, 1, b)[k] = s[k]
OBVIOUS

\* The values of a name up to the first that does not fit.
Misfits(kind, xs) == {k \in 1..Len(xs) : ~Tags!Takes(kind, xs[k])}
FirstOf(I)        == IF I # {} THEN Tags!Min(I) ELSE 0
GoodPart(xs, bad) == IF bad = 0 THEN xs ELSE SubSeq(xs, 1, bad - 1)

LEMMA FirstBad ==
  ASSUME NEW n \in Nat, NEW I \in SUBSET (1..n), NEW bad, bad = FirstOf(I)
  PROVE  /\ I = {} => bad = 0
         /\ I # {} => bad \in I /\ bad \in 1..n /\ \A k \in 1..bad - 1 : k \in 1..n /\ k \notin I
<1>1. CASE I = {}
  BY <1>1 DEF FirstOf
<1>2. CASE I # {}
  <2>1. PICK m : m = Min(I)
    OBVIOUS
  <2>2. bad = m
    BY <1>2, <2>1 DEF FirstOf, Tags!Min, Min
  <2>3. I \in SUBSET Nat
    OBVIOUS
  <2>4. m \in I /\ \A k \in I : m <= k
    BY <1>2, <2>1, <2>3, LeastOf
  <2>5. m \in 1..n
    BY <2>4
  <2>6. \A k \in 1..m - 1 : k \in 1..n /\ ~(m <= k)
    BY <2>5
  <2>7. QED BY <1>2, <2>2, <2>4, <2>5, <2>6
<1>3. QED BY <1>1, <1>2

GoodUpTo(kind, xs, bad, good) ==
  /\ good \in Texts /\ AllFit(kind, good)
  /\ \A k \in 1..Len(good) : \E j \in 1..Len(xs) : good[k] = xs[j]
  /\ bad = 0 => good = xs /\ AllFit(kind, xs)
  /\ bad # 0 => ~AllFit(kind, xs)

LEMMA GoodValues ==
  ASSUME NEW xs \in Texts, NEW kind, NEW bad, bad = FirstOf(Misfits(kind, xs)), NEW good, good = GoodPart(xs, bad)
  PROVE  GoodUpTo(kind, xs, bad, good)
<1>1. PICK n \in Nat : n = Len(xs)
  BY TextsAre
<1> DEFINE I == Misfits(kind, xs)
<1>2. I \in SUBSET (1..n) /\ \A k : k \in I <=> k \in 1..n /\ ~Tags!Takes(kind, xs[k])
  BY <1>1 DEF Misfits
<1> HIDE DEF I
<1>3. /\ I = {} => bad = 0
      /\ I # {} => bad \in I /\ bad \in 1..n /\ \A k \in 1..bad - 1 : k \in 1..n /\ k \notin I
  BY <1>2, FirstBad DEF I
<1>4. CASE I = {}
  <2>1. AllFit(kind, xs) /\ bad = 0 /\ good = xs
    BY <1>1, <1>2, <1>3, <1>4 DEF AllFit, GoodPart
  <2>2. \A k \in 1..Len(xs) : xs[k] = xs[k]
    OBVIOUS
  <2>3. QED BY <2>1, <2>2 DEF GoodUpTo
<1>5. CASE I # {}
  <2>1. bad \in 1..n /\ bad # 0 /\ ~Tags!Takes(kind, xs[bad]) /\ bad - 1 \in 0..Len(xs)
    BY <1>1, <1>2, <1>3, <1>5
  <2>2. ~AllFit(kind, xs)
    BY <1>1, <2>1 DEF AllFit
  <2>3. good = SubSeq(xs, 1, bad - 1)
    BY <2>1 DEF GoodPart
  <2>4. good \in Texts /\ Len(good) = bad - 1 /\ \A k \in 1..bad - 1 : good[k] = xs[k]
    BY <2>1, <2>3, PrefixIs DEF Texts
  <2>5. \A k \in 1..bad - 1 : k \in 1..n /\ Tags!Takes(kind, xs[k])
    BY <1>2, <1>3, <1>5
  <2>6. AllFit(kind, good) /\ \A k \in 1..Len(good) : \E j \in 1..n : good[k] = xs[j]
    BY <2>4, <2>5 DEF AllFit
  <2>7. QED BY <1>1, <2>1, <2>2, <2>4, <2>6 DEF GoodUpTo
<1>6. QED BY <1>4, <1>5

\* What a field that was empty holds after its values.
LEMMA KeptValues ==
  ASSUME NEW good \in Texts, NEW slice \in BOOLEAN,
         NEW kept, kept = IF slice THEN <<>> \o good ELSE IF good = <<>> THEN <<>> ELSE <<good[Len(good)]>>
  PROVE  /\ kept \in Texts /\ \A k \in 1..Len(kept) : \E j \in 1..Len(good) : kept[k] = good[j]
         /\ kept = IF slice \/ good = <<>> THEN good ELSE <<good[Len(good)]>>
<1>1. <<>> \o good = good /\ <<>> \in Texts /\ Len(<<>>) = 0
  BY DEF Texts
<1>2. CASE slice \/ good = <<>>
  BY <1>1, <1>2
<1>3. CASE ~slice /\ good # <<>>
  <2>1. PICK n \in Nat \ {0} : n = Len(good) /\ n \in 1..n /\ good[n] \in STRING
    BY <1>3 DEF Texts
  <2>2. kept = <<good[n]>> /\ Len(kept) = 1 /\ kept[1] = good[n] /\ kept \in Texts
    BY <1>3, <2>1 DEF Texts
  <2>3. \A k \in 1..1 : k = 1
    OBVIOUS
  <2>4. QED BY <1>3, <2>1, <2>2, <2>3
<1>4. QED BY <1>2, <1>3

LEMMA SaidIs ==
  ASSUME v1 \in Structs, v2 \in Forms, NEW i \in 1..Len(v1)
  PROVE  /\ Tags!Field(Name(i)) # i \/ Name(i) \notin DOMAIN v2 => Tags!Said(i) = <<>>
         /\ Tags!Field(Name(i)) = i /\ Name(i) \in DOMAIN v2 =>
              Tags!Said(i) = LET xs == v2[Name(i)] IN IF v1[i].slice \/ xs = <<>> THEN xs ELSE <<xs[Len(xs)]>>
<1>1. PICK n \in Nat : n = Len(v1) /\ DOMAIN v1 = 1..n
  BY StructIs
<1>2. PICK f : f = Tags!Field(Name(i))
  OBVIOUS
<1>3. f \in 1..n /\ Name(f) = Name(i) /\ i <= f /\ \A j \in 1..n : Name(j) = Name(i) => j <= f
  BY <1>1, <1>2, FieldIs
<1>4. (\E j \in 1..n : j > i /\ Name(j) = Name(i)) <=> f # i
  <2>1. CASE f = i
    BY <1>3, <2>1
  <2>2. CASE f # i
    BY <1>1, <1>3, <2>2
  <2>3. QED BY <2>1, <2>2
<1>5. QED BY <1>1, <1>2, <1>4 DEF Tags!Said, Name

LEMMA SameStruct ==
  ASSUME UNCHANGED <<v1, v2>>
  PROVE  /\ \A name : Tags!Field(name)' = Tags!Field(name)
         /\ \A i : Name(i)' = Name(i) /\ Tags!Said(i)' = Tags!Said(i)
BY DEF Tags!Field, Tags!SelectLastInSeq, Tags!Said, Name

LEMMA TagsFill ==
  ASSUME TagsInv, NEW name \in v3, ~v6, v3' = v3 \ {name}, UNCHANGED <<v1, v2>>, Tags!Field(name) # 0, Tags!Fill(name)
  PROVE  TagsInv'
<1>1. PICK n \in Nat : n = Len(v1) /\ v1 \in [1..n -> Fields] /\ v4 \in [1..n -> Texts] /\ v1 \in Structs /\ v2 \in Forms
  BY StructIs DEF TagsInv, TagsTypes
<1>2. PICK i \in 1..n : i = Tags!Field(name) /\ Name(i) = name
  BY <1>1, FieldIs
<1>3. PICK xs \in Texts : xs = v2[name]
  BY <1>1, FormIs DEF TagsInv, TagsTypes
<1>4. name \in DOMAIN v2 /\ ~Read(i) /\ v4[i] = <<>>
  BY <1>1, <1>2 DEF TagsInv, TagsTypes, UnreadIsEmpty, Read
<1>5. v1[i].slice \in BOOLEAN
  BY <1>1 DEF Fields
<1>6. PICK b : b = FirstOf(Misfits(v1[i].kind, xs))
  OBVIOUS
<1>7. PICK g : g = GoodPart(xs, b)
  OBVIOUS
<1>8. PICK s \in BOOLEAN : s = v1[i].slice
  BY <1>5
<1>9. PICK kept : kept = IF s THEN <<>> \o g ELSE IF g = <<>> THEN <<>> ELSE <<g[Len(g)]>>
  OBVIOUS
<1>10. /\ g \in Texts /\ AllFit(v1[i].kind, g) /\ \A k \in 1..Len(g) : \E j \in 1..Len(xs) : g[k] = xs[j]
       /\ (b = 0) <=> AllFit(v1[i].kind, xs)
       /\ b = 0 => g = xs
  <2>1. GoodUpTo(v1[i].kind, xs, b, g)
    BY <1>6, <1>7, GoodValues
  <2>2. QED BY <2>1 DEF GoodUpTo
<1>11. /\ kept \in Texts /\ \A k \in 1..Len(kept) : \E j \in 1..Len(g) : kept[k] = g[j]
       /\ kept = IF s \/ g = <<>> THEN g ELSE <<g[Len(g)]>>
  <2>1. g \in Texts
    BY <1>10
  <2>2. QED BY <1>9, <2>1, KeptValues
<1>12. v4' = [v4 EXCEPT ![i] = kept] /\ v5' = (IF b = 0 THEN Tags!NoName ELSE name) /\ v6' = (b # 0)
  BY <1>2, <1>3, <1>4, <1>6, <1>7, <1>8, <1>9 DEF Tags!Fill, Tags!SelectInSeq, Misfits, FirstOf, GoodPart
<1>13. v4'[i] = kept /\ \A j \in 1..n : j # i => v4'[j] = v4[j]
  BY <1>1, <1>12
<1>14. v4' \in [1..n -> Texts]
  BY <1>1, <1>12, <1>11
<1>15. \A j \in 1..n : Read(j)' <=> Read(j) \/ j = i
  <2>1. TAKE j \in 1..n
  <2>2. Tags!Field(Name(j))' = Tags!Field(Name(j)) /\ Name(j)' = Name(j)
    BY SameStruct
  <2>3. CASE j = i
    BY <1>2, <1>4, <2>2, <2>3, SameStruct DEF Read
  <2>4. CASE j # i
    BY <1>2, <2>2, <2>4, SameStruct DEF Read
  <2>5. QED BY <2>3, <2>4
<1>16. TagsTypes'
  <2>1. v6' \in BOOLEAN /\ (~v6' => v5' = Tags!NoName)
    BY <1>12
  <2>2. QED BY <1>1, <1>14, <2>1 DEF TagsInv, TagsTypes
<1>17. OnlyWhatFits'
  <2>1. SUFFICES ASSUME NEW j \in 1..n, NEW k \in 1..Len(v4'[j])
                 PROVE  /\ Tags!Takes(v1[j].kind, v4'[j][k]) /\ Name(j) \in DOMAIN v2
                        /\ \E l \in 1..Len(v2[Name(j)]) : v4'[j][k] = v2[Name(j)][l]
    <3>1. v1' = v1 /\ v2' = v2 /\ \A j : Name(j)' = Name(j)
      BY SameStruct
    <3>2. QED BY <1>1, <3>1 DEF OnlyWhatFits
  <2>2. CASE j = i
    <3>1. PICK m \in 1..Len(g) : v4'[j][k] = g[m]
      BY <1>11, <1>13, <2>2
    <3>2. PICK l \in 1..Len(xs) : g[m] = xs[l]
      BY <1>10
    <3>3. Tags!Takes(v1[i].kind, g[m])
      BY <1>10 DEF AllFit
    <3>4. QED BY <1>2, <1>3, <1>4, <2>2, <3>1, <3>2, <3>3
  <2>3. CASE j # i
    BY <1>1, <1>13, <2>3 DEF TagsInv, OnlyWhatFits
  <2>4. QED BY <2>2, <2>3
<1>18. UnreadIsEmpty'
  BY <1>1, <1>13, <1>15 DEF TagsInv, UnreadIsEmpty
<1>19. ReadIsFilled'
  <2>1. SUFFICES ASSUME v5' = Tags!NoName, NEW j \in 1..n, Read(j)'
                 PROVE  v4'[j] = Tags!Said(j) /\ AllFit(v1[j].kind, v2[Name(j)])
    BY <1>1, SameStruct DEF ReadIsFilled
  <2>2. CASE j = i
    <3>1. b = 0
      <4>1. name # Tags!NoName
        BY <1>1, <1>2 DEF Name, Tags!NameOf, Fields
      <4>2. QED BY <1>12, <2>1, <4>1
    <3>2. g = xs /\ AllFit(v1[i].kind, xs)
      BY <1>10, <3>1
    <3>3. Tags!Said(i) = IF v1[i].slice \/ xs = <<>> THEN xs ELSE <<xs[Len(xs)]>>
      BY <1>1, <1>2, <1>3, <1>4, SaidIs
    <3>4. v4'[i] = IF s \/ g = <<>> THEN g ELSE <<g[Len(g)]>>
      BY <1>11, <1>13
    <3>5. Tags!Said(i) = IF s \/ g = <<>> THEN g ELSE <<g[Len(g)]>>
      BY <1>8, <3>2, <3>3
    <3>6. QED BY <1>2, <1>3, <2>2, <3>2, <3>4, <3>5
  <2>3. CASE j # i
    <3>1. v5 = Tags!NoName /\ Read(j)
      BY <1>15, <2>1, <2>3 DEF TagsInv, TagsTypes
    <3>2. QED BY <1>1, <1>13, <2>3, <3>1 DEF TagsInv, ReadIsFilled
  <2>4. QED BY <2>2, <2>3
<1>20. StopsForReason'
  <2>1. ~(v6' /\ v5' = Tags!NoName)
    <3>1. name # Tags!NoName
      BY <1>1, <1>2 DEF Name, Tags!NameOf, Fields
    <3>2. QED BY <1>12, <3>1
  <2>2. ASSUME v5' # Tags!NoName PROVE v5' = name /\ ~AllFit(v1[i].kind, xs)
    BY <1>12, <1>10, <2>2
  <2>3. QED BY <1>2, <1>3, <1>4, <2>1, <2>2, SameStruct DEF StopsForReason
<1>21. QED BY <1>16, <1>17, <1>18, <1>19, <1>20 DEF TagsInv

\* A parameter that no field is named after.
LEMMA TagsSkip ==
  ASSUME TagsInv, NEW name \in v3, ~v6, v3' = v3 \ {name}, UNCHANGED <<v1, v2, v4, v5, v6>>, Tags!Field(name) = 0
  PROVE  TagsInv'
<1>1. v1 \in Structs
  BY DEF TagsInv, TagsTypes
<1>2. \A j \in 1..Len(v1) : Name(j) # name
  BY <1>1, FieldIs
<1>3. \A j \in 1..Len(v1) : Read(j)' <=> Read(j)
  BY <1>2, SameStruct DEF Read
<1>4. v3' \subseteq DOMAIN v2
  BY DEF TagsInv, TagsTypes
<1>5. TagsTypes' /\ OnlyWhatFits'
  BY <1>4, SameStruct DEF TagsInv, TagsTypes, OnlyWhatFits
<1>6. UnreadIsEmpty' /\ ReadIsFilled'
  BY <1>3, SameStruct DEF TagsInv, UnreadIsEmpty, ReadIsFilled
<1>7. StopsForReason'
  BY SameStruct DEF TagsInv, StopsForReason, TagsTypes
<1>8. QED BY <1>5, <1>6, <1>7 DEF TagsInv

LEMMA TagsNext == TagsInv /\ [Tags!Next]_(Tags!vars) => TagsInv'
<1> SUFFICES ASSUME TagsInv, [Tags!Next]_(Tags!vars) PROVE TagsInv'
  OBVIOUS
<1>1. CASE Tags!UnpackNext
  <2>1. PICK name \in v3 : /\ ~v6 /\ v3' = v3 \ {name} /\ UNCHANGED <<v1, v2>>
                           /\ IF Tags!Field(name) = 0 THEN UNCHANGED <<v4, v5, v6>> ELSE Tags!Fill(name)
    BY <1>1 DEF Tags!UnpackNext
  <2>2. CASE Tags!Field(name) = 0
    BY <2>1, <2>2, TagsSkip
  <2>3. CASE Tags!Field(name) # 0
    BY <2>1, <2>3, TagsFill
  <2>4. QED BY <2>2, <2>3
<1>2. ASSUME UNCHANGED <<v1, v2, v3, v4>> PROVE /\ \A j : Read(j)' <=> Read(j)
                                                /\ OnlyWhatFits' /\ UnreadIsEmpty'
  <2>1. \A j : Read(j)' <=> Read(j)
    BY <1>2, SameStruct DEF Read
  <2>2. OnlyWhatFits'
    BY <1>2, SameStruct DEF TagsInv, OnlyWhatFits
  <2>3. UnreadIsEmpty'
    BY <1>2, <2>1 DEF TagsInv, UnreadIsEmpty
  <2>4. QED BY <2>1, <2>2, <2>3
<1>3. CASE Tags!Return
  <2>1. UNCHANGED <<v1, v2, v3, v4, v5>> /\ v3 = {} /\ v6' = TRUE /\ ~v6
    BY <1>3 DEF Tags!Return
  <2>2. TagsTypes'
    BY <2>1 DEF TagsInv, TagsTypes
  <2>3. ReadIsFilled'
    BY <1>2, <2>1, SameStruct DEF TagsInv, ReadIsFilled
  <2>4. StopsForReason'
    BY <2>1, SameStruct DEF TagsInv, StopsForReason
  <2>5. QED BY <1>2, <2>1, <2>2, <2>3, <2>4 DEF TagsInv
<1>4. CASE Tags!ParseFails
  <2>1. UNCHANGED <<v1, v2, v3, v4>> /\ v5' = "form" /\ v6' = TRUE
    BY <1>4 DEF Tags!ParseFails
  <2>2. TagsTypes'
    BY <2>1 DEF TagsInv, TagsTypes
  <2>3. "form" # Tags!NoName
    BY Zenon DEF Tags!NoName
  <2>4. ReadIsFilled' /\ StopsForReason'
    BY <2>1, <2>3 DEF ReadIsFilled, StopsForReason
  <2>5. QED BY <1>2, <2>1, <2>2, <2>4 DEF TagsInv
<1>5. CASE UNCHANGED Tags!vars
  <2>1. UNCHANGED <<v1, v2, v3, v4, v5, v6>>
    BY <1>5 DEF Tags!vars
  <2>2. TagsTypes' /\ ReadIsFilled' /\ StopsForReason'
    BY <1>2, <2>1, SameStruct DEF TagsInv, TagsTypes, ReadIsFilled, StopsForReason
  <2>3. QED BY <1>2, <2>1, <2>2 DEF TagsInv
<1>6. QED BY <1>1, <1>3, <1>4, <1>5 DEF Tags!Next

LEMMA TagsCorrect == TagsInv => Tags!FieldsAreFilled
<1> SUFFICES ASSUME TagsInv PROVE Tags!FieldsAreFilled
  OBVIOUS
<1>1. PICK n \in Nat : n = Len(v1) /\ DOMAIN v1 = 1..n /\ v1 \in Structs /\ v2 \in Forms /\ v4 \in [1..n -> Texts]
  BY StructIs DEF TagsInv, TagsTypes
<1>2. ASSUME v6, v5 = Tags!NoName PROVE \A i \in 1..n : v4[i] = Tags!Said(i)
  <2>1. TAKE i \in 1..n
  <2>2. v3 = {}
    BY <1>2 DEF TagsInv, StopsForReason
  <2>3. CASE Read(i)
    BY <1>1, <1>2, <2>3 DEF TagsInv, ReadIsFilled
  <2>4. CASE ~Read(i)
    BY <1>1, <2>2, <2>4, SaidIs DEF TagsInv, UnreadIsEmpty, Read
  <2>5. QED BY <2>3, <2>4
<1>3. ASSUME v6, v5 = Tags!NoName PROVE Tags!Convertible
  <2>1. SUFFICES ASSUME NEW i \in 1..n, NEW j \in DOMAIN Tags!Said(i), Name(i) \in DOMAIN v2,
                        NEW x \in Tags!ToSet(v2[Name(i)])
                 PROVE  Tags!Takes(v1[i].kind, x)
    BY <1>1 DEF Tags!Convertible, Name
  <2>2. Tags!Said(i) # <<>>
    BY <2>1
  <2>3. Read(i)
    BY <1>1, <1>3, <2>1, <2>2, SaidIs DEF Read, TagsInv, StopsForReason
  <2>4. AllFit(v1[i].kind, v2[Name(i)])
    BY <1>1, <1>3, <2>3 DEF TagsInv, ReadIsFilled
  <2>5. v2[Name(i)] \in Texts
    BY <1>1, <2>1, FormIs
  <2>6. QED BY <2>1, <2>4, <2>5, TextsAre DEF AllFit
<1>4. ASSUME v5 \notin {Tags!NoName, "form"} PROVE ~Tags!Convertible
  <2>1. PICK i : i = Tags!Field(v5)
    OBVIOUS
  <2>2. i \in 1..n /\ Name(i) = v5 /\ v5 \in DOMAIN v2 /\ ~AllFit(v1[i].kind, v2[v5])
    BY <1>1, <1>4, <2>1, FieldIs DEF TagsInv, StopsForReason
  <2>3. PICK xs \in Texts : xs = v2[v5]
    BY <1>1, <2>2, FormIs
  <2>4. PICK k \in 1..Len(xs) : ~Tags!Takes(v1[i].kind, xs[k])
    BY <2>2, <2>3 DEF AllFit
  <2>5. xs[k] \in Tags!ToSet(xs)
    BY TextsAre
  <2>6. PICK m \in Nat \ {0} : m = Len(xs)
    BY <2>4, TextsAre
  <2>7. Tags!Said(i) = IF v1[i].slice \/ xs = <<>> THEN xs ELSE <<xs[Len(xs)]>>
    BY <1>1, <2>1, <2>2, <2>3, SaidIs
  <2>8. 1 \in DOMAIN Tags!Said(i)
    BY <2>3, <2>6, <2>7, TextsAre
  <2>9. QED BY <1>1, <2>2, <2>3, <2>4, <2>5, <2>8 DEF Tags!Convertible, Name
<1>5. ASSUME NEW i \in 1..n, NEW x \in Tags!ToSet(v4[i])
      PROVE  Tags!Takes(v1[i].kind, x) /\ Name(i) \in DOMAIN v2 /\ x \in Tags!ToSet(v2[Name(i)])
  <2>1. PICK k \in 1..Len(v4[i]) : x = v4[i][k]
    BY <1>1, <1>5, TextsAre
  <2>2. Tags!Takes(v1[i].kind, x) /\ Name(i) \in DOMAIN v2 /\ \E j \in 1..Len(v2[Name(i)]) : x = v2[Name(i)][j]
    BY <1>1, <2>1 DEF TagsInv, OnlyWhatFits
  <2>3. v2[Name(i)] \in Texts
    BY <1>1, <2>2, FormIs
  <2>4. QED BY <2>2, <2>3, TextsAre
<1>6. QED BY <1>1, <1>2, <1>3, <1>4, <1>5 DEF Tags!FieldsAreFilled, Name

(* structtags: in whatever order Go walks the parameters, Unpack without an error      *)
(* has filled each field with what the request says of it, an error has a value that   *)
(* does not fit, and no field ever holds what does not belong there.                   *)
THEOREM StructsAreFilled == Tags!Spec /\ [](part = "reflect") => []RequestsAreReadRight
<1>1. Tags!FieldsAreFilled /\ part = "reflect" => RequestsAreReadRight
  BY DEF RequestsAreReadRight
<1>2. QED BY <1>1, TagsInit, TagsNext, TagsCorrect, PTL DEF Tags!Spec
================================================================================
