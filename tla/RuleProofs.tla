----------------------------- MODULE RuleProofs ------------------------------
(***************************************************************************)
(* The rules and the pages they are tried on, for any rules, files, names, *)
(* hosts, patterns, selectors, models, calls and pages: which rule a page  *)
(* gets, what its fields are, that a rule made by a model works, what the  *)
(* panel that shows pages knows of its browser, and what the window and    *)
(* the commands that manage rules make of the files under them.            *)
(***************************************************************************)
EXTENDS RuleDesk, RuleMaking, ProofBasics, FunctionTheorems, SequenceTheorems, TLAPS

-----------------------------------------------------------------------------
(* The order of numbers in lists                                             *)

\* A list of five numbers sorts before another where the first difference says so.
LEMMA SortsByFirst ==
  ASSUME NEW a \in [1 .. 5 -> Nat], NEW b \in [1 .. 5 -> Nat]
  PROVE  SortsBefore(a, b) <=> \E i \in 1 .. 5 : a[i] < b[i] /\ \A j \in 1 .. 5 : j < i => a[j] = b[j]
<1> DEFINE unequal == {i \in DOMAIN a : a[i] # b[i]}
<1>1. DOMAIN a = 1 .. 5
  OBVIOUS
<1>2. SortsBefore(a, b) <=> unequal # {} /\ a[Min(unequal)] < b[Min(unequal)]
  BY DEF SortsBefore
<1>3. unequal \subseteq Nat
  BY <1>1, SMT
<1>4. ASSUME unequal # {}
      PROVE  /\ Min(unequal) \in 1 .. 5 /\ a[Min(unequal)] # b[Min(unequal)]
             /\ \A j \in 1 .. 5 : j < Min(unequal) => a[j] = b[j]
  <2>1. \E x \in unequal : \A y \in unequal : x <= y
    BY <1>3, <1>4, LeastNatural
  <2>2. Min(unequal) \in unequal /\ \A y \in unequal : Min(unequal) <= y
    BY <2>1 DEF Min
  <2> QED BY <1>1, <2>2, SMT
<1>5. unequal = {i \in 1 .. 5 : a[i] # b[i]}
  BY <1>1
<1> HIDE DEF unequal
<1>6. CASE unequal = {}
  <2>1. \A i \in 1 .. 5 : a[i] = b[i]
    BY <1>5, <1>6
  <2>2. \A i \in 1 .. 5 : ~(a[i] < b[i])
    BY <2>1, SMT
  <2> QED BY <1>2, <1>6, <2>2
<1>7. CASE unequal # {}
  <2> DEFINE m == Min(unequal)
  <2>1. m \in 1 .. 5 /\ a[m] # b[m] /\ \A j \in 1 .. 5 : j < m => a[j] = b[j]
    BY <1>4, <1>7
  <2>2. SortsBefore(a, b) <=> a[m] < b[m]
    BY <1>2, <1>7
  <2> HIDE DEF m
  <2>3. ASSUME NEW i \in 1 .. 5, a[i] < b[i], \A j \in 1 .. 5 : j < i => a[j] = b[j] PROVE i = m
    <3>1. a[i] # b[i]
      BY <2>3, SMT
    <3>2. ~(i < m)
      BY <2>1, <3>1
    <3>3. ~(m < i)
      BY <2>1, <2>3
    <3> QED BY <2>1, <3>2, <3>3, SMT
  <2> QED BY <2>1, <2>2, <2>3
<1> QED BY <1>6, <1>7

\* Two lists do not each sort before the other.
LEMMA SortsOneWay ==
  ASSUME NEW a \in [1 .. 5 -> Nat], NEW b \in [1 .. 5 -> Nat], SortsBefore(a, b)
  PROVE  ~SortsBefore(b, a)
<1> SUFFICES ASSUME SortsBefore(b, a) PROVE FALSE
  OBVIOUS
<1>1. PICK i \in 1 .. 5 : a[i] < b[i] /\ \A j \in 1 .. 5 : j < i => a[j] = b[j]
  BY SortsByFirst
<1>2. PICK k \in 1 .. 5 : b[k] < a[k] /\ \A j \in 1 .. 5 : j < k => b[j] = a[j]
  BY SortsByFirst
<1>3. ~(i < k)
  BY <1>1, <1>2, SMT
<1>4. ~(k < i)
  BY <1>1, <1>2, SMT
<1>5. i # k
  BY <1>1, <1>2, SMT
<1> QED BY <1>3, <1>4, <1>5, SMT

\* Of what is there something has the least number.
LEMMA SomeLeast ==
  ASSUME NEW C, C # {}, NEW n, \A f \in C : n[f] \in Nat
  PROVE  \E f \in C : \A g \in C : n[f] <= n[g]
<1> DEFINE N == {n[f] : f \in C}
<1>1. N \subseteq Nat /\ N # {}
  OBVIOUS
<1>2. \E x \in N : \A y \in N : x <= y
  BY <1>1, LeastNatural
<1> QED BY <1>2

\* Where lists of five numbers differ from each other one of them sorts before all others.
LEMMA SomeFirst ==
  ASSUME NEW C, C # {}, NEW key \in [C -> [1 .. 5 -> Nat]],
         \A f, g \in C : key[f] = key[g] => f = g
  PROVE  \E f \in C : \A g \in C \ {f} : SortsBefore(key[f], key[g])
<1> DEFINE Leads(D, i) == {f \in D : \A g \in D : key[f][i] <= key[g][i]}
<1>1. ASSUME NEW D \in SUBSET C, D # {}, NEW i \in 1 .. 5
      PROVE  Leads(D, i) \in SUBSET C /\ Leads(D, i) # {}
  <2> DEFINE n == [f \in D |-> key[f][i]]
  <2>1. \A f \in D : n[f] \in Nat
    OBVIOUS
  <2>2. \E f \in D : \A g \in D : n[f] <= n[g]
    <3> HIDE DEF n
    <3> QED BY <1>1, <2>1, SomeLeast
  <2> QED BY <2>2
<1> DEFINE L1 == Leads(C, 1)
           L2 == Leads(L1, 2)
           L3 == Leads(L2, 3)
           L4 == Leads(L3, 4)
           L5 == Leads(L4, 5)
<1> HIDE DEF Leads
<1>2. L1 \in SUBSET C /\ L1 # {}
  BY <1>1
<1> HIDE DEF L1
<1>3. L2 \in SUBSET C /\ L2 # {}
  BY <1>1, <1>2
<1> HIDE DEF L2
<1>4. L3 \in SUBSET C /\ L3 # {}
  BY <1>1, <1>3
<1> HIDE DEF L3
<1>5. L4 \in SUBSET C /\ L4 # {}
  BY <1>1, <1>4
<1> HIDE DEF L4
<1>6. L5 \in SUBSET C /\ L5 # {}
  BY <1>1, <1>5
<1> HIDE DEF L5
<1>7. PICK f \in C : f \in L5
  BY <1>6
<1>8. f \in L1 /\ f \in L2 /\ f \in L3 /\ f \in L4
  BY <1>7 DEF L2, L3, L4, L5, Leads
<1>9. /\ \A g \in C : key[f][1] <= key[g][1]
      /\ \A g \in L1 : key[f][2] <= key[g][2]
      /\ \A g \in L2 : key[f][3] <= key[g][3]
      /\ \A g \in L3 : key[f][4] <= key[g][4]
      /\ \A g \in L4 : key[f][5] <= key[g][5]
  BY <1>7, <1>8 DEF L1, L2, L3, L4, L5, Leads
\* Who is equal to a leader leads as well.
<1>10. ASSUME NEW D \in SUBSET C, NEW i \in 1 .. 5, f \in Leads(D, i), NEW g \in D, key[g][i] = key[f][i]
       PROVE  g \in Leads(D, i)
  BY <1>10 DEF Leads
<1>11. ASSUME NEW g \in C \ {f} PROVE SortsBefore(key[f], key[g])
  <2> DEFINE a == key[f]
             b == key[g]
  <2>1. a \in [1 .. 5 -> Nat] /\ b \in [1 .. 5 -> Nat] /\ a # b
    OBVIOUS
  <2>2. a[1] <= b[1]
    BY <1>9
  <2>3. a[1] = b[1] => g \in L1
    BY <1>8, <1>10 DEF L1
  <2>4. a[1] = b[1] => a[2] <= b[2]
    BY <1>9, <2>3
  <2>5. a[1] = b[1] /\ a[2] = b[2] => g \in L2
    BY <1>2, <1>8, <1>10, <2>3 DEF L2
  <2>6. a[1] = b[1] /\ a[2] = b[2] => a[3] <= b[3]
    BY <1>9, <2>5
  <2>7. a[1] = b[1] /\ a[2] = b[2] /\ a[3] = b[3] => g \in L3
    BY <1>3, <1>8, <1>10, <2>5 DEF L3
  <2>8. a[1] = b[1] /\ a[2] = b[2] /\ a[3] = b[3] => a[4] <= b[4]
    BY <1>9, <2>7
  <2>9. a[1] = b[1] /\ a[2] = b[2] /\ a[3] = b[3] /\ a[4] = b[4] => g \in L4
    BY <1>4, <1>8, <1>10, <2>7 DEF L4
  <2>10. a[1] = b[1] /\ a[2] = b[2] /\ a[3] = b[3] /\ a[4] = b[4] => a[5] <= b[5]
    BY <1>9, <2>9
  <2> HIDE DEF a, b
  <2>11. ~(a[1] = b[1] /\ a[2] = b[2] /\ a[3] = b[3] /\ a[4] = b[4] /\ a[5] = b[5])
    <3> SUFFICES ASSUME a[1] = b[1], a[2] = b[2], a[3] = b[3], a[4] = b[4], a[5] = b[5] PROVE FALSE
      OBVIOUS
    <3>1. \A i \in 1 .. 5 : a[i] = b[i]
      OBVIOUS
    <3> QED BY <2>1, <3>1
  <2>12. \E i \in 1 .. 5 : a[i] < b[i] /\ \A j \in 1 .. 5 : j < i => a[j] = b[j]
    <3>1. CASE a[1] # b[1]
      <4>1. a[1] < b[1] /\ \A j \in 1 .. 5 : j < 1 => a[j] = b[j]
        BY <2>1, <2>2, <3>1
      <4> QED BY <4>1
    <3>2. CASE a[1] = b[1] /\ a[2] # b[2]
      <4>1. a[2] < b[2] /\ \A j \in 1 .. 5 : j < 2 => a[j] = b[j]
        BY <2>1, <2>4, <3>2
      <4> QED BY <4>1
    <3>3. CASE a[1] = b[1] /\ a[2] = b[2] /\ a[3] # b[3]
      <4>1. a[3] < b[3] /\ \A j \in 1 .. 5 : j < 3 => a[j] = b[j]
        BY <2>1, <2>6, <3>3
      <4> QED BY <4>1
    <3>4. CASE a[1] = b[1] /\ a[2] = b[2] /\ a[3] = b[3] /\ a[4] # b[4]
      <4>1. a[4] < b[4] /\ \A j \in 1 .. 5 : j < 4 => a[j] = b[j]
        BY <2>1, <2>8, <3>4
      <4> QED BY <4>1
    <3>5. CASE a[1] = b[1] /\ a[2] = b[2] /\ a[3] = b[3] /\ a[4] = b[4]
      <4>1. a[5] < b[5] /\ \A j \in 1 .. 5 : j < 5 => a[j] = b[j]
        BY <2>1, <2>10, <2>11, <3>5
      <4> QED BY <4>1
    <3> QED BY <3>1, <3>2, <3>3, <3>4, <3>5
  <2>13. SortsBefore(a, b)
    BY <2>1, <2>12, SortsByFirst
  <2> QED BY <2>13 DEF a, b
<1> QED BY <1>11

-----------------------------------------------------------------------------
(* Which rule a page gets                                                    *)

\* Of finitely many numbers and 0 none is above the greatest.
LEMMA MostOf ==
  ASSUME NEW D, IsFiniteSet(D), NEW n, \A x \in D : n[x] \in Nat,
         NEW S, 0 \in S, \A x \in D : n[x] \in S, \A y \in S : y = 0 \/ \E x \in D : y = n[x]
  PROVE  Max(S) \in Nat /\ \A x \in D : n[x] <= Max(S)
<1> DEFINE m == [x \in D |-> n[x]]
           R == {n[x] : x \in D}
<1>1. IsFiniteSet(R)
  <2>1. m \in [D -> R] /\ \A y \in R : \E x \in D : m[x] = y
    OBVIOUS
  <2>2. m \in Surjection(D, R)
    BY <2>1 DEF Surjection
  <2> QED BY <2>2, FS_Surjection
<1>2. IsFiniteSet(S)
  <2>1. IsFiniteSet({0})
    BY FS_Singleton
  <2>2. IsFiniteSet({0} \cup R)
    BY <1>1, <2>1, FS_Union
  <2>3. S \subseteq {0} \cup R
    OBVIOUS
  <2> QED BY <2>2, <2>3, FS_Subset
<1>3. S \in SUBSET Nat /\ S # {}
  OBVIOUS
<1>4. Max(S) \in S /\ \A y \in S : y <= Max(S)
  BY <1>2, <1>3, GreatestIs
<1> QED BY <1>3, <1>4

\* No pattern is longer than the longest, no version higher than the highest.
LEMMA WithinMost ==
  /\ MaxSize \in Nat /\ \A p \in DOMAIN Size : Size[p] \in Nat /\ Size[p] <= MaxSize
  /\ MaxVersion \in Nat /\ \A f \in RuleFile : f.version \in Nat /\ f.version <= MaxVersion
<1>1. MaxSize \in Nat /\ \A p \in DOMAIN Size : Size[p] <= MaxSize
  <2> DEFINE S == {0} \cup {Size[p] : p \in DOMAIN Size}
  <2>1. 0 \in S /\ (\A p \in DOMAIN Size : Size[p] \in S) /\ \A y \in S : y = 0 \/ \E p \in DOMAIN Size : y = Size[p]
    OBVIOUS
  <2>2. IsFiniteSet(DOMAIN Size) /\ \A p \in DOMAIN Size : Size[p] \in Nat
    BY BookAssumption
  <2>3. MaxSize = Max(S)
    BY DEF MaxSize
  <2> HIDE DEF S
  <2> QED BY <2>1, <2>2, <2>3, MostOf
<1>2. MaxVersion \in Nat /\ \A f \in RuleFile : f.version <= MaxVersion
  <2> DEFINE S == {0} \cup {f.version : f \in RuleFile}
             n == [f \in RuleFile |-> f.version]
  <2>1. 0 \in S /\ (\A f \in RuleFile : n[f] \in S) /\ \A y \in S : y = 0 \/ \E f \in RuleFile : y = n[f]
    OBVIOUS
  <2>2. IsFiniteSet(RuleFile) /\ \A f \in RuleFile : n[f] \in Nat
    BY BookAssumption
  <2>3. MaxVersion = Max(S) /\ \A f \in RuleFile : n[f] = f.version
    BY DEF MaxVersion
  <2> HIDE DEF S, n
  <2>4. Max(S) \in Nat /\ \A f \in RuleFile : n[f] <= Max(S)
    BY <2>1, <2>2, MostOf
  <2> QED BY <2>3, <2>4
<1> QED BY <1>1, <1>2, BookAssumption

\* The place of a rule among the candidates of a host
RuleKey(host, h) ==
  <<DomainScore(host, h), MaxSize - LengthOf(h), MaxVersion - h.version, Priority(h.from), NameRank[h.name]>>

\* It is made of five numbers.
LEMMA KeyOfFive ==
  ASSUME NEW h \in RuleFile, Valid(h), NEW host
  PROVE  RuleKey(host, h) \in [1 .. 5 -> Nat] /\ RuleKey(host, h)[5] = NameRank[h.name]
<1>1. DomainScore(host, h) \in Nat
  BY DEF DomainScore
<1>2. LengthOf(h) \in Nat /\ LengthOf(h) <= MaxSize
  <2>1. CASE Patterned(h)
    <3>1. h.pattern # ""
      BY <2>1 DEF Patterned, Valid
    <3>2. h.pattern \in DOMAIN Size
      BY <3>1, BookAssumption
    <3> QED BY <2>1, <3>2, WithinMost DEF LengthOf
  <2>2. CASE ~Patterned(h)
    BY <2>2, WithinMost DEF LengthOf
  <2> QED BY <2>1, <2>2
<1>3. MaxSize - LengthOf(h) \in Nat
  BY <1>2, WithinMost
<1>4. MaxVersion - h.version \in Nat
  BY WithinMost
<1>5. Priority(h.from) \in Nat
  BY BookAssumption DEF Priority
<1>6. NameRank[h.name] \in Nat
  BY BookAssumption DEF RuleNames
<1> DEFINE k1 == DomainScore(host, h)
           k2 == MaxSize - LengthOf(h)
           k3 == MaxVersion - h.version
           k4 == Priority(h.from)
           k5 == NameRank[h.name]
<1>7. RuleKey(host, h) = <<k1, k2, k3, k4, k5>>
  BY DEF RuleKey
<1>8. k1 \in Nat /\ k2 \in Nat /\ k3 \in Nat /\ k4 \in Nat /\ k5 \in Nat
  BY <1>1, <1>3, <1>4, <1>5, <1>6
<1> HIDE DEF k1, k2, k3, k4, k5
<1>9. <<k1, k2, k3, k4, k5>> \in [1 .. 5 -> Nat] /\ <<k1, k2, k3, k4, k5>>[5] = k5
  BY <1>8
<1> QED BY <1>7, <1>9 DEF k5

\* Index and patterns find what applies to the page, and nothing else.
LEMMA CandidatesApply ==
  ASSUME NEW rules \in SUBSET RuleFile, \A f \in rules : Valid(f), NEW page \in Page
  PROVE  Candidates(rules, page) = {f \in rules : RuleApplies(f, page)}
<1>1. ASSUME NEW f \in rules PROVE Generic(f) <=> f.domains = {}
  <2>1. Valid(f)
    OBVIOUS
  <2> QED BY <2>1 DEF Valid, Generic
<1> DEFINE host == HostOf[page]
           here == Indexed(rules, host)
           above == UNION {Indexed(rules, d) : d \in Above[host]}
           anywhere == {f \in rules : Generic(f)}
           found == here \cup above \cup anywhere
<1>2. ASSUME NEW f PROVE f \in found <=> f \in rules /\ (f.domains = {} \/ host \in f.domains \/ f.domains \cap Above[host] # {})
  <2>1. f \in above <=> f \in rules /\ f.domains \cap Above[host] # {}
    BY DEF Indexed
  <2>2. f \in here <=> f \in rules /\ host \in f.domains
    BY DEF Indexed
  <2>3. f \in anywhere <=> f \in rules /\ f.domains = {}
    BY <1>1
  <2> HIDE DEF here, above, anywhere
  <2>4. f \in found <=> f \in here \/ f \in above \/ f \in anywhere
    OBVIOUS
  <2> HIDE DEF found
  <2> QED BY <2>1, <2>2, <2>3, <2>4
<1>3. Candidates(rules, page) = {f \in found : Patterned(f) => page \in FitsPages[f.pattern]}
  BY DEF Candidates
<1> HIDE DEF found
<1> QED BY <1>2, <1>3 DEF RuleApplies

\* Out of rules of different names the winner applies and is preferred to all that do.
LEMMA WinnerIsBest ==
  ASSUME NEW rules \in SUBSET RuleFile, \A f \in rules : Valid(f),
         \A f, g \in rules : f # g => f.name # g.name,
         NEW page \in Page, Candidates(rules, page) # {}
  PROVE  /\ Winner(rules, page) \in rules /\ RuleApplies(Winner(rules, page), page)
         /\ Winner(rules, page).name \in RightAnswers(rules, page)
<1> DEFINE C == Candidates(rules, page)
           host == HostOf[page]
           key == [f \in C |-> RuleKey(host, f)]
           w == Winner(rules, page)
<1>1. C = {f \in rules : RuleApplies(f, page)}
  BY CandidatesApply
<1> HIDE DEF C
<1>2. key \in [C -> [1 .. 5 -> Nat]]
  BY <1>1, KeyOfFive
<1>3. ASSUME NEW f \in C, NEW g \in C, key[f] = key[g] PROVE f = g
  <2>1. NameRank[f.name] = NameRank[g.name]
    BY <1>1, <1>3, KeyOfFive
  <2>2. f.name = g.name
    BY <1>1, <2>1, BookAssumption DEF RuleNames
  <2> QED BY <1>1, <2>2
<1>4. \A f, g \in C : Preferred(host, f, g) <=> SortsBefore(key[f], key[g])
  BY DEF Preferred, RuleKey
<1> HIDE DEF key
<1>5. \E f \in C : \A g \in C \ {f} : Preferred(host, f, g)
  <2>1. C # {}
    BY DEF C
  <2>2. \E f \in C : \A g \in C \ {f} : SortsBefore(key[f], key[g])
    BY <1>2, <1>3, <2>1, SomeFirst
  <2> QED BY <1>4, <2>2
<1>6. w \in C /\ \A g \in C \ {w} : Preferred(host, w, g)
  BY <1>5 DEF Winner, C
<1> HIDE DEF w
<1>7. ASSUME NEW g \in rules \ {w}, RuleApplies(g, page) PROVE ~Preferred(host, g, w)
  <2>1. g \in C \ {w}
    BY <1>1, <1>7
  <2>2. SortsBefore(key[w], key[g])
    BY <1>4, <1>6, <2>1
  <2>3. ~SortsBefore(key[g], key[w])
    BY <1>2, <1>6, <2>1, <2>2, SortsOneWay
  <2> QED BY <1>4, <1>6, <2>1, <2>3
<1>8. w \in rules /\ RuleApplies(w, page)
  BY <1>1, <1>6
<1>9. w.name \in RightAnswers(rules, page)
  BY <1>7, <1>8 DEF RightAnswers
<1> QED BY <1>8, <1>9 DEF w

\* Where nothing applies the default rule is right.
LEMMA DefaultIsRight ==
  ASSUME NEW rules \in SUBSET RuleFile, \A f \in rules : Valid(f), NEW page \in Page, Candidates(rules, page) = {}
  PROVE  Default \in RightAnswers(rules, page)
<1>1. \A f \in rules : ~RuleApplies(f, page)
  BY CandidatesApply
<1> QED BY <1>1 DEF RightAnswers

-----------------------------------------------------------------------------
(* The rules of a crawl and its cache                                        *)

\* What was answered before is right for a page of the host, and needs no pattern.
MemoryRight(rules) ==
  \A host \in DOMAIN memory :
    /\ \E p \in Page : HostOf[p] = host /\ memory[host] \in RightAnswers(rules, p)
    /\ \A f \in rules : f.name = memory[host] => ~Patterned(f)

\* There is one snapshot, of valid rules that have different names, and no answer
\* without it; what its cache holds is right.
BookInv ==
  /\ shelf \subseteq RuleFile
  /\ \A u, v \in used : u = v
  /\ used = {} => answered = {}
  /\ \A u \in used : u.rules \subseteq {f \in RuleFile : Valid(f)} /\ MemoryRight(u.rules)
  /\ RulesAnswer

\* A snapshot holds valid files, one of a name.
LEMMA SnapshotNames ==
  ASSUME shelf \subseteq RuleFile
  PROVE  Snapshot \subseteq {f \in RuleFile : Valid(f)} /\ \A f, g \in Snapshot : f # g => f.name # g.name
<1> DEFINE files == {f \in shelf : Valid(f)}
<1>1. Snapshot \subseteq Deduplicated(files)
  BY DEF Snapshot, WithinLimits
<1>2. Deduplicated(files) \subseteq files
  BY DEF Deduplicated
<1>3. ASSUME NEW f \in Deduplicated(files), NEW g \in Deduplicated(files), f # g PROVE f.name # g.name
  <2> SUFFICES ASSUME f.name = g.name PROVE FALSE
    OBVIOUS
  <2>1. f \in RuleFile /\ g \in RuleFile
    BY <1>2
  <2>2. /\ f.version \in Nat /\ g.version \in Nat /\ f.order \in Nat /\ g.order \in Nat
        /\ Priority(f.from) \in Nat /\ Priority(g.from) \in Nat
    BY <2>1, BookAssumption DEF Priority
  <2>3. Outranks(f, g) \/ (~Outranks(g, f) /\ f.order < g.order)
    BY <1>2, <1>3 DEF Deduplicated
  <2>4. Outranks(g, f) \/ (~Outranks(f, g) /\ g.order < f.order)
    BY <1>2, <1>3 DEF Deduplicated
  <2>5. ~(Outranks(f, g) /\ Outranks(g, f))
    <3> DEFINE pf == Priority(f.from)
               pg == Priority(g.from)
    <3>1. /\ Outranks(f, g) => pf < pg \/ (pf = pg /\ f.version > g.version)
          /\ Outranks(g, f) => pg < pf \/ (pg = pf /\ g.version > f.version)
      BY DEF Outranks
    <3>2. pf \in Nat /\ pg \in Nat
      BY <2>2
    <3> HIDE DEF pf, pg
    <3> QED BY <2>2, <3>1, <3>2
  <2>6. ~(f.order < g.order /\ g.order < f.order)
    BY <2>2
  <2> QED BY <2>3, <2>4, <2>5, <2>6
<1> QED BY <1>1, <1>2, <1>3

\* An answer out of the cache, or one that is found, is as AnswersFit allows.
LEMMA AnswerFits ==
  ASSUME NEW rules \in SUBSET RuleFile, \A f \in rules : Valid(f),
         NEW page \in Page, NEW p \in Page, HostOf[p] = HostOf[page],
         NEW rule \in RightAnswers(rules, p), p # page => \A f \in rules : f.name = rule => ~Patterned(f)
  PROVE  LET host == HostOf[page]
             near == {f \in rules : Patterned(f) /\ \E q \in Page : HostOf[q] = host /\ RuleApplies(f, q)}
         IN IF near = {} THEN rule \in RightAnswers(rules, page)
            ELSE \E q \in Page : /\ HostOf[q] = host /\ rule \in RightAnswers(rules, q)
                                 /\ q # page => \A f \in rules : f.name = rule => ~Patterned(f)
<1> DEFINE host == HostOf[page]
           near == {f \in rules : Patterned(f) /\ \E q \in Page : HostOf[q] = host /\ RuleApplies(f, q)}
<1>1. CASE near = {}
  <2>1. ASSUME NEW f \in rules PROVE RuleApplies(f, p) <=> RuleApplies(f, page)
    <3>1. CASE Patterned(f)
      BY <1>1, <3>1
    <3>2. CASE ~Patterned(f)
      BY <3>2 DEF RuleApplies
    <3> QED BY <3>1, <3>2
  <2> DEFINE best(q) == {f \in rules : RuleApplies(f, q) /\ \A g \in rules \ {f} : RuleApplies(g, q) => ~Preferred(HostOf[q], g, f)}
  <2>2. \A f : f \in best(p) <=> f \in best(page)
    BY <2>1
  <2>3. best(p) = best(page)
    BY <2>2
  <2>4. \A q : RightAnswers(rules, q) = IF best(q) = {} THEN {Default} ELSE {f.name : f \in best(q)}
    BY DEF RightAnswers
  <2> HIDE DEF best
  <2>5. RightAnswers(rules, p) = RightAnswers(rules, page)
    BY <2>3, <2>4
  <2> QED BY <1>1, <2>5
<1>2. CASE near # {}
  BY <1>2
<1> QED BY <1>1, <1>2

\* At the start nothing is used and nothing answered.
LEMMA BookStarts == BookInit => BookInv
BY BookAssumption DEF BookInit, BookInv, RulesAnswer, AnswersFit, NamesAreOne

\* A crawl that begins takes a snapshot without a conflict, and an empty cache.
LEMMA CrawlTakesRules == BookInv /\ CrawlWithRules => BookInv'
<1> SUFFICES ASSUME BookInv, CrawlWithRules PROVE BookInv'
  OBVIOUS
<1>1. used = {} /\ answered' = {} /\ shelf' = shelf /\ loaded' \in {Snapshot, {}}
  BY DEF CrawlWithRules, BookInv
<1>2. shelf \subseteq RuleFile
  BY DEF BookInv
<1>3. loaded' \subseteq {f \in RuleFile : Valid(f)} /\ \A f, g \in loaded' : f # g => f.name # g.name
  BY <1>1, <1>2, SnapshotNames
<1>4. CASE Conflict(loaded')
  <2>1. used' = {}
    BY <1>1, <1>4 DEF CrawlWithRules
  <2> QED BY <1>1, <1>2, <2>1 DEF BookInv, RulesAnswer, AnswersFit, NamesAreOne
<1>5. CASE ~Conflict(loaded')
  <2>1. used' = {[rules |-> loaded']} /\ memory' = [h \in {} |-> Default]
    BY <1>5 DEF CrawlWithRules
  <2>2. \A f, g \in loaded' : f # g => ~Alike(f, g)
    BY <1>5 DEF Conflict
  <2>3. \A u \in used' : u.rules = loaded'
    BY <2>1
  <2>4. NamesAreOne'
    BY <1>3, <2>2, <2>3 DEF NamesAreOne
  <2>5. AnswersFit'
    BY <1>1 DEF AnswersFit
  <2>6. \A u \in used' : u.rules \subseteq {f \in RuleFile : Valid(f)} /\ MemoryRight(u.rules)'
    BY <1>3, <2>1, <2>3 DEF MemoryRight
  <2>7. (\A u, v \in used' : u = v) /\ used' # {}
    BY <2>1
  <2> QED BY <1>1, <1>2, <2>4, <2>5, <2>6, <2>7 DEF BookInv, RulesAnswer
<1> QED BY <1>4, <1>5

\* A page is answered with what is right for it, or for another of its host.
LEMMA PageIsAnswered == ASSUME BookInv, NEW page \in Page, RuleFor(page) PROVE BookInv'
<1> DEFINE host == HostOf[page]
<1>1. PICK u \in used, rule \in RuleNames \cup {Default} :
        /\ \/ host \in DOMAIN memory /\ rule = memory[host] /\ UNCHANGED memory
           \/ /\ host \notin DOMAIN memory /\ Candidates(u.rules, page) = {}
              /\ rule = Default /\ Remembered(host, rule)
           \/ /\ host \notin DOMAIN memory /\ Candidates(u.rules, page) # {}
              /\ rule = Winner(u.rules, page).name
              /\ IF Patterned(Winner(u.rules, page)) THEN UNCHANGED memory ELSE Remembered(host, rule)
        /\ answered' = answered \cup {[page |-> page, rule |-> rule]}
        /\ UNCHANGED <<shelf, switches, loaded, used>>
  BY DEF RuleFor
<1> DEFINE rules == u.rules
<1>2. rules \in SUBSET RuleFile /\ (\A f \in rules : Valid(f)) /\ MemoryRight(rules) /\ \A v \in used : v.rules = rules
  BY DEF BookInv
<1>3. \A f, g \in rules : f # g => f.name # g.name
  BY DEF BookInv, RulesAnswer, NamesAreOne
<1> HIDE DEF rules
\* For some page of the host the answer is right; if it is another, it needs no pattern.
<1>4. /\ \E p \in Page : /\ HostOf[p] = host /\ rule \in RightAnswers(rules, p)
                         /\ p # page => \A f \in rules : f.name = rule => ~Patterned(f)
      /\ MemoryRight(rules)'
  <2>1. CASE host \in DOMAIN memory /\ rule = memory[host] /\ UNCHANGED memory
    BY <1>2, <2>1 DEF MemoryRight
  <2>2. CASE host \notin DOMAIN memory /\ Candidates(rules, page) = {} /\ rule = Default /\ Remembered(host, rule)
    <3>1. rule \in RightAnswers(rules, page)
      BY <1>2, <2>2, DefaultIsRight
    <3>2. \A f \in rules : f.name = rule => ~Patterned(f)
      BY <1>2, <2>2 DEF Valid
    <3> QED BY <1>2, <2>2, <3>1, <3>2 DEF MemoryRight, Remembered
  <2>3. CASE /\ host \notin DOMAIN memory /\ Candidates(rules, page) # {} /\ rule = Winner(rules, page).name
             /\ IF Patterned(Winner(rules, page)) THEN UNCHANGED memory ELSE Remembered(host, rule)
    <3> DEFINE w == Winner(rules, page)
    <3>1. w \in rules /\ w.name \in RightAnswers(rules, page)
      BY <1>2, <1>3, <2>3, WinnerIsBest
    <3> HIDE DEF w
    <3>2. rule = w.name /\ (IF Patterned(w) THEN UNCHANGED memory ELSE Remembered(host, rule))
      BY <2>3 DEF w
    <3>3. CASE Patterned(w)
      BY <1>2, <3>1, <3>2, <3>3 DEF MemoryRight
    <3>4. CASE ~Patterned(w)
      <4>1. \A f \in rules : f.name = rule => ~Patterned(f)
        BY <1>3, <3>1, <3>2, <3>4
      <4> QED BY <1>2, <3>1, <3>2, <3>4, <4>1 DEF MemoryRight, Remembered
    <3> QED BY <3>3, <3>4
  <2> QED BY <1>1, <2>1, <2>2, <2>3 DEF rules
<1>5. LET near == {f \in rules : Patterned(f) /\ \E q \in Page : HostOf[q] = host /\ RuleApplies(f, q)}
      IN IF near = {} THEN rule \in RightAnswers(rules, page)
         ELSE \E q \in Page : /\ HostOf[q] = host /\ rule \in RightAnswers(rules, q)
                              /\ q # page => \A f \in rules : f.name = rule => ~Patterned(f)
  BY <1>2, <1>4, AnswerFits
<1>6. AnswersFit'
  <2> DEFINE Fit(v, a) == LET h == HostOf[a.page]
                              near == {f \in v.rules : Patterned(f) /\ \E p \in Page : HostOf[p] = h /\ RuleApplies(f, p)}
                          IN IF near = {} THEN a.rule \in RightAnswers(v.rules, a.page)
                             ELSE \E p \in Page : /\ HostOf[p] = h /\ a.rule \in RightAnswers(v.rules, p)
                                                  /\ p # a.page => \A f \in v.rules : f.name = a.rule => ~Patterned(f)
             last == [page |-> page, rule |-> rule]
  <2>1. AnswersFit <=> \A v \in used : \A a \in answered : Fit(v, a)
    BY DEF AnswersFit
  <2>2. AnswersFit' <=> \A v \in used' : \A a \in answered' : Fit(v, a)
    BY DEF AnswersFit
  <2>3. Fit(u, last)
    <3>1. last.page = page /\ last.rule = rule
      OBVIOUS
    <3> HIDE DEF last
    <3> QED BY <1>5, <3>1 DEF rules
  <2> HIDE DEF Fit, last
  <2>4. \A v \in used : \A a \in answered : Fit(v, a)
    BY <2>1 DEF BookInv, RulesAnswer
  <2>5. used' = used /\ answered' = answered \cup {last} /\ \A v \in used : v = u
    BY <1>1 DEF BookInv, last
  <2> QED BY <2>2, <2>3, <2>4, <2>5
<1>7. NamesAreOne' /\ shelf' \subseteq RuleFile /\ (\A v, w \in used' : v = w) /\ used' # {}
  BY <1>1 DEF BookInv, RulesAnswer, NamesAreOne
<1>8. \A v \in used' : v.rules \subseteq {f \in RuleFile : Valid(f)} /\ MemoryRight(v.rules)'
  <2>1. used' = used
    BY <1>1
  <2>2. \A v \in used : v.rules = rules
    BY <1>2
  <2> QED BY <1>2, <1>4, <2>1, <2>2 DEF MemoryRight
<1> QED BY <1>6, <1>7, <1>8 DEF BookInv, RulesAnswer

\* What leaves the snapshot, its cache and its answers alone leaves BookInv alone.
LEMMA BookAlone ==
  ASSUME BookInv, UNCHANGED <<used, memory, answered>>, shelf' \subseteq RuleFile
  PROVE  BookInv'
<1>1. AnswersFit'
  BY DEF BookInv, RulesAnswer, AnswersFit
<1>2. NamesAreOne'
  BY DEF BookInv, RulesAnswer, NamesAreOne
<1>3. \A u \in used' : u.rules \subseteq {f \in RuleFile : Valid(f)} /\ MemoryRight(u.rules)'
  BY DEF BookInv, MemoryRight
<1> QED BY <1>1, <1>2, <1>3 DEF BookInv, RulesAnswer

\* The rules of a crawl, its cache and its answers fit each other at every step.
LEMMA BookStep == BookInv /\ [BookNext]_book => BookInv'
<1> SUFFICES ASSUME BookInv, [BookNext]_book PROVE BookInv'
  OBVIOUS
<1>1. shelf \subseteq RuleFile
  BY DEF BookInv
<1>2. CASE FilesChange
  <2>1. UNCHANGED <<used, memory, answered>> /\ shelf' \subseteq RuleFile
    BY <1>2, BookAssumption DEF FilesChange
  <2> QED BY <2>1, BookAlone
<1>3. CASE StateLost
  <2>1. UNCHANGED <<used, memory, answered>> /\ shelf' \subseteq RuleFile
    BY <1>1, <1>3 DEF StateLost
  <2> QED BY <2>1, BookAlone
<1>4. CASE CrawlWithRules
  BY <1>4, CrawlTakesRules
<1>5. CASE Reload
  <2>1. UNCHANGED <<used, memory, answered>> /\ shelf' \subseteq RuleFile
    BY <1>1, <1>5 DEF Reload
  <2> QED BY <2>1, BookAlone
<1>6. CASE \E n \in RuleNames, on \in BOOLEAN : SetRuleEnabled(n, on)
  <2>1. UNCHANGED <<used, memory, answered>> /\ shelf' \subseteq RuleFile
    BY <1>1, <1>6 DEF SetRuleEnabled
  <2> QED BY <2>1, BookAlone
<1>7. CASE \E p \in Page : RuleFor(p)
  BY <1>7, PageIsAnswered
<1>8. ASSUME NEW p \in Page, Forget(HostOf[p]) PROVE BookInv'
  <2> DEFINE host == HostOf[p]
  <2>1. UNCHANGED <<shelf, used, answered>> /\ memory' = [h \in DOMAIN memory \ {host} |-> memory[h]]
    BY <1>8 DEF Forget
  <2> HIDE DEF host
  <2>2. AnswersFit' /\ NamesAreOne'
    BY <2>1 DEF BookInv, RulesAnswer, AnswersFit, NamesAreOne
  <2>3. \A u \in used' : u.rules \subseteq {f \in RuleFile : Valid(f)} /\ MemoryRight(u.rules)'
    BY <2>1 DEF BookInv, MemoryRight
  <2> QED BY <1>1, <2>1, <2>2, <2>3 DEF BookInv, RulesAnswer
<1>9. CASE UNCHANGED book
  <2>1. UNCHANGED <<used, memory, answered>> /\ shelf' \subseteq RuleFile
    BY <1>1, <1>9 DEF book
  <2> QED BY <2>1, BookAlone
<1> QED BY <1>2, <1>3, <1>4, <1>5, <1>6, <1>7, <1>8, <1>9 DEF BookNext

\* For any files, switches, hosts and patterns, every page of a crawl is answered with
\* the rule that fits it best, or as AnswersFit allows with one that needs no pattern;
\* and the rules of a crawl have different names and no conflict.
THEOREM PagesGetTheirRule == BookSpec => []RulesAnswer
<1>1. BookInv => RulesAnswer
  BY DEF BookInv
<1> QED BY <1>1, BookStarts, BookStep, PTL DEF BookSpec

-----------------------------------------------------------------------------
(* The fields of a page                                                      *)

Place == {"none", "queued", "running", "done", "cancelled"}
Value == {"value", "blank", "null", "empty"}
Asker == {"none", "waits", "told", "nothing", "gone"}
JobState == [at : Place, field : Nat, try : Nat, values : Seq(Value)]

\* A value for each field so far, and where one of its selectors has one
ValuesRight(f, values) == \A i \in 1 .. Len(values) : NonEmpty(values[i]) <=> Wanted(f[i])

\* How a page's place in the pool, its values so far and who asked fit each other: what
\* waits is awaited and fresh, who works has passed over nothing, who is done has all.
JobFits(f, x, a) ==
  /\ x.at \in {"queued", "cancelled"} => f # <<>> /\ x.field = 1 /\ x.try = 1 /\ x.values = <<>>
  /\ x.at = "queued" => a = "waits"
  /\ x.at = "running" =>
       /\ x.field \in DOMAIN f /\ Len(x.values) = x.field - 1 /\ ValuesRight(f, x.values)
       /\ x.try \in Tried(f[x.field]) \/ f[x.field].selectors[1].css = ""
       /\ \A k \in Tried(f[x.field]) : k < x.try => FindsOnPage[f[x.field].selectors[k].css] # "value"
  /\ x.at = "done" => Len(x.values) = Len(f) /\ ValuesRight(f, x.values)
  /\ a = "told" => x.at = "done"
  /\ a = "none" => x = NoJob

ExtractionInv ==
  /\ fieldsOf \in [Job -> FieldSets] /\ job \in [Job -> JobState] /\ asker \in [Job -> Asker]
  /\ \A j \in Job : JobFits(fieldsOf[j], job[j], asker[j])
  /\ PoolKept

\* A selector gives a value that counts exactly where it finds one.
LEMMA ValueCounts ==
  ASSUME NEW s, NEW multiple
  PROVE  /\ TrySelect(s, multiple) \in Value
         /\ NonEmpty(TrySelect(s, multiple)) <=> FindsOnPage[s.css] = "value"
BY DEF TrySelect, ValueOf, NonEmpty, Value

\* The first selector of a field that has one is tried first.
LEMMA FirstIsTried ==
  ASSUME NEW f, HasSelectors(f)
  PROVE  /\ Tried(f) \subseteq Nat \ {0} /\ Tried(f) \subseteq DOMAIN f.selectors
         /\ f.selectors[1].css = "" \/ 1 \in Tried(f)
<1>1. f.selectors \in Seq(ToSet(f.selectors)) /\ f.selectors # <<>>
  BY DEF HasSelectors
<1>2. Len(f.selectors) \in Nat /\ Len(f.selectors) # 0 /\ DOMAIN f.selectors = 1 .. Len(f.selectors)
  <2> DEFINE s == f.selectors
  <2>1. s \in Seq(ToSet(s)) /\ s # <<>>
    BY <1>1
  <2> HIDE DEF s
  <2>2. Len(s) \in Nat /\ Len(s) # 0 /\ DOMAIN s = 1 .. Len(s)
    BY <2>1
  <2> QED BY <2>2 DEF s
<1>3. FallbackDepth \in Nat /\ 1 <= FallbackDepth /\ 1 \in 1 .. Len(f.selectors)
  BY <1>2, ExtractionAssumption
<1>4. f.selectors[1].css = "" \/ 1 \in Tried(f)
  BY <1>2, <1>3 DEF Tried
<1>5. ASSUME NEW i \in Tried(f) PROVE i \in Nat \ {0} /\ i \in DOMAIN f.selectors
  <2>1. i \in 1 .. Len(f.selectors) /\ i \in DOMAIN f.selectors
    BY <1>2 DEF Tried
  <2> QED BY <1>2, <2>1
<1> QED BY <1>4, <1>5

\* A field whose first selectors to be tried find nothing has its value from the next
\* that does, or none.
LEMMA WantedIsTried ==
  ASSUME NEW f, HasSelectors(f)
  PROVE  Wanted(f) <=> /\ f.selectors[1].css # ""
                       /\ \E k \in Tried(f) : FindsOnPage[f.selectors[k].css] = "value"
BY DEF Wanted, Tried

\* The field a page is at, what is left of its selectors, and the value of the present one
FieldNow(fs, x) == fs[x.field]
LeftOf(fs, x) == {k \in Tried(FieldNow(fs, x)) : k > x.try}
ValueNow(fs, x) ==
  IF FieldNow(fs, x).selectors[1].css = "" THEN "null"
  ELSE TrySelect(FieldNow(fs, x).selectors[x.try], FieldNow(fs, x).multiple)
EndsField(fs, x) ==
  \/ FieldNow(fs, x).selectors[1].css = "" \/ NonEmpty(ValueNow(fs, x)) \/ LeftOf(fs, x) = {}

\* What is known of a page under work
LEMMA UnderWork ==
  ASSUME NEW fs \in FieldSets, NEW x \in JobState, NEW a, JobFits(fs, x, a), x.at = "running"
  PROVE  LET f == FieldNow(fs, x)
             v == ValueNow(fs, x)
         IN /\ HasSelectors(f) /\ Len(fs) \in Nat /\ DOMAIN fs = 1 .. Len(fs)
            /\ x.field \in 1 .. Len(fs) /\ x.field \in Nat /\ x.try \in Nat
            /\ Len(x.values) = x.field - 1 /\ x.values \in Seq(Value) /\ ValuesRight(fs, x.values) /\ a # "told"
            /\ f.selectors[1].css = "" \/ x.try \in Tried(f)
            /\ \A k \in Tried(f) : k < x.try => FindsOnPage[f.selectors[k].css] # "value"
            /\ v \in Value
            /\ NonEmpty(v) <=> f.selectors[1].css # "" /\ FindsOnPage[f.selectors[x.try].css] = "value"
<1> DEFINE f == FieldNow(fs, x)
           v == ValueNow(fs, x)
<1>1. fs \in Seq(ToSet(fs)) /\ x.field \in DOMAIN fs /\ HasSelectors(f)
  BY ExtractionAssumption DEF JobFits, FieldNow
<1>2. Len(fs) \in Nat /\ DOMAIN fs = 1 .. Len(fs)
  BY <1>1
<1>3. x.field \in 1 .. Len(fs) /\ x.field \in Nat /\ x.try \in Nat /\ x.values \in Seq(Value)
  BY <1>1, <1>2 DEF JobState
<1>4. /\ Len(x.values) = x.field - 1 /\ ValuesRight(fs, x.values) /\ a # "told"
      /\ f.selectors[1].css = "" \/ x.try \in Tried(f)
      /\ \A k \in Tried(f) : k < x.try => FindsOnPage[f.selectors[k].css] # "value"
  BY DEF JobFits, FieldNow
<1>5. v \in Value /\ (NonEmpty(v) <=> f.selectors[1].css # "" /\ FindsOnPage[f.selectors[x.try].css] = "value")
  <2>1. CASE f.selectors[1].css = ""
    BY <2>1 DEF NonEmpty, Value, ValueNow
  <2>2. CASE f.selectors[1].css # ""
    BY <2>2, ValueCounts DEF ValueNow
  <2> QED BY <2>1, <2>2
<1> QED BY <1>1, <1>2, <1>3, <1>4, <1>5

\* A field ends with the first value that counts, or with its last selector: its value
\* counts exactly where one of its selectors has one on the page.
LEMMA FieldEnds ==
  ASSUME NEW fs \in FieldSets, NEW x \in JobState, NEW a, JobFits(fs, x, a), x.at = "running", EndsField(fs, x)
  PROVE  NonEmpty(ValueNow(fs, x)) <=> Wanted(FieldNow(fs, x))
<1> DEFINE f == FieldNow(fs, x)
           v == ValueNow(fs, x)
           none == f.selectors[1].css = ""
<1>1. /\ x.try \in Nat /\ HasSelectors(f)
      /\ none \/ x.try \in Tried(f)
      /\ \A k \in Tried(f) : k < x.try => FindsOnPage[f.selectors[k].css] # "value"
      /\ NonEmpty(v) <=> ~none /\ FindsOnPage[f.selectors[x.try].css] = "value"
  BY UnderWork
<1>2. /\ Tried(f) \subseteq Nat
      /\ Wanted(f) <=> ~none /\ \E k \in Tried(f) : FindsOnPage[f.selectors[k].css] = "value"
  BY <1>1, FirstIsTried, WantedIsTried
<1>3. LeftOf(fs, x) = {} => \A k \in Tried(f) : k < x.try \/ k = x.try
  <2>1. x.try \in Nat /\ Tried(f) \subseteq Nat
    BY <1>1, <1>2
  <2>2. LeftOf(fs, x) = {k \in Tried(f) : k > x.try}
    BY DEF LeftOf
  <2> DEFINE T == Tried(f)
  <2> HIDE DEF T
  <2>3. (\A k \in T : ~(k > x.try)) => \A k \in T : k < x.try \/ k = x.try
    BY <2>1 DEF T
  <2> QED BY <2>2, <2>3 DEF T
<1>4. none \/ NonEmpty(v) \/ LeftOf(fs, x) = {}
  BY DEF EndsField
<1> HIDE DEF f, v, none
<1>5. NonEmpty(v) <=> Wanted(f)
  BY <1>1, <1>2, <1>3, <1>4
<1> QED BY <1>5 DEF f, v

\* Then the page has one value more, and is at its next field, or is done.
LEMMA FieldIsDone ==
  ASSUME NEW fs \in FieldSets, NEW x \in JobState, NEW a, JobFits(fs, x, a), a # "none", x.at = "running", EndsField(fs, x),
         NEW y, y = [at |-> IF x.field = Len(fs) THEN "done" ELSE "running", field |-> x.field + 1, try |-> 1,
                     values |-> Append(x.values, ValueNow(fs, x))]
  PROVE  y \in JobState /\ JobFits(fs, y, a)
<1> DEFINE n == x.field
           vs == x.values
           v == ValueNow(fs, x)
           more == Append(vs, v)
<1>1. /\ Len(fs) \in Nat /\ DOMAIN fs = 1 .. Len(fs) /\ n \in 1 .. Len(fs) /\ n \in Nat
      /\ Len(vs) = n - 1 /\ vs \in Seq(Value) /\ ValuesRight(fs, vs) /\ a # "told" /\ v \in Value
  BY UnderWork
<1>2. NonEmpty(v) <=> Wanted(fs[n])
  BY FieldEnds DEF FieldNow
<1> HIDE DEF v, vs, n
<1>0. Len(fs) \in Nat /\ n \in Nat /\ n \in 1 .. Len(fs)
  BY <1>1
<1>3. y.at = (IF n = Len(fs) THEN "done" ELSE "running") /\ y.field = n + 1 /\ y.try = 1 /\ y.values = more
  BY DEF n, vs, v
<1>4. more \in Seq(Value) /\ Len(more) = n /\ more[n] = v /\ \A i \in 1 .. n - 1 : more[i] = vs[i]
  BY <1>1
<1>5. y \in JobState
  BY <1>1, <1>4 DEF JobState, Place, n, vs, v
<1> HIDE DEF more
<1>6. ValuesRight(fs, more)
  <2>1. \A i \in 1 .. n - 1 : NonEmpty(vs[i]) <=> Wanted(fs[i])
    BY <1>1 DEF ValuesRight
  <2>2. \A i \in 1 .. n : i = n \/ i \in 1 .. n - 1
    BY <1>1
  <2>3. \A i \in 1 .. n : NonEmpty(more[i]) <=> Wanted(fs[i])
    BY <1>2, <1>4, <2>1, <2>2
  <2> QED BY <1>4, <2>3 DEF ValuesRight
<1>7. CASE n = Len(fs)
  <2>1. y.at = "done" /\ Len(y.values) = Len(fs) /\ ValuesRight(fs, y.values)
    BY <1>3, <1>4, <1>6, <1>7
  <2> QED BY <1>1, <1>5, <2>1 DEF JobFits
<1>8. CASE n # Len(fs)
  <2>1. y.at = "running" /\ Len(y.values) = y.field - 1 /\ ValuesRight(fs, y.values)
    <3>1. y.at = "running" /\ y.values = more /\ y.field = n + 1
      BY <1>3, <1>8
    <3>2. n = (n + 1) - 1
      BY <1>0
    <3> QED BY <1>4, <1>6, <3>1, <3>2
  <2>2. n + 1 \in 1 .. Len(fs)
    BY <1>0, <1>8
  <2>3. HasSelectors(fs[n + 1])
    BY <1>1, <2>2, ExtractionAssumption
  <2>4. /\ 1 \in Tried(fs[n + 1]) \/ fs[n + 1].selectors[1].css = ""
        /\ \A k \in Tried(fs[n + 1]) : ~(k < 1)
    <3> DEFINE g == fs[n + 1]
    <3>1. /\ Tried(g) \subseteq Nat \ {0}
          /\ g.selectors[1].css = "" \/ 1 \in Tried(g)
      BY <2>3, FirstIsTried
    <3> HIDE DEF g
    <3>2. \A k \in Nat \ {0} : ~(k < 1)
      OBVIOUS
    <3>3. \A k \in Tried(g) : ~(k < 1)
      BY <3>1, <3>2, Zenon
    <3> QED BY <3>1, <3>3 DEF g
  <2> QED BY <1>1, <1>3, <1>5, <2>1, <2>2, <2>4 DEF JobFits
<1> QED BY <1>7, <1>8

\* Else the next selector is tried, and none is passed over that finds something.
LEMMA FieldGoesOn ==
  ASSUME NEW fs \in FieldSets, NEW x \in JobState, NEW a, JobFits(fs, x, a), a # "none", x.at = "running", ~EndsField(fs, x)
  PROVE  /\ Min(LeftOf(fs, x)) \in Nat
         /\ \A y \in JobState : y.at = "running" /\ y.field = x.field /\ y.try = Min(LeftOf(fs, x)) /\ y.values = x.values
                                   => JobFits(fs, y, a)
<1> DEFINE f == FieldNow(fs, x)
           m == Min(LeftOf(fs, x))
           finds(k) == FindsOnPage[f.selectors[k].css] = "value"
<1>1. /\ DOMAIN fs = 1 .. Len(fs) /\ x.field \in 1 .. Len(fs) /\ x.try \in Nat /\ HasSelectors(f)
      /\ Len(x.values) = x.field - 1 /\ ValuesRight(fs, x.values) /\ a # "told"
      /\ \A k \in Tried(f) : k < x.try => ~finds(k)
  BY UnderWork
<1>2. ~finds(x.try) /\ LeftOf(fs, x) # {}
  BY UnderWork DEF EndsField
<1>3. Tried(f) \subseteq Nat
  BY <1>1, FirstIsTried
<1>4. LeftOf(fs, x) \in SUBSET Nat /\ \A k : k \in LeftOf(fs, x) <=> k \in Tried(f) /\ k > x.try
  BY <1>3 DEF LeftOf
<1>5. m \in LeftOf(fs, x) /\ \A k \in LeftOf(fs, x) : m <= k
  <2>1. \E n \in LeftOf(fs, x) : \A k \in LeftOf(fs, x) : n <= k
    BY <1>2, <1>4, LeastNatural
  <2> QED BY <2>1 DEF Min
<1> HIDE DEF m, finds
<1>6. m \in Nat /\ m \in Tried(f)
  BY <1>4, <1>5
<1>7. ASSUME NEW k \in Tried(f), k < m PROVE ~finds(k)
  <2>1. k \notin LeftOf(fs, x)
    BY <1>3, <1>5, <1>6, <1>7
  <2>2. k < x.try \/ k = x.try
    BY <1>1, <1>3, <1>4, <2>1
  <2> QED BY <1>1, <1>2, <2>2
<1>8. m \in Tried(fs[x.field]) /\ \A k \in Tried(fs[x.field]) : k < m => FindsOnPage[fs[x.field].selectors[k].css] # "value"
  BY <1>6, <1>7 DEF FieldNow, finds
<1>9. ASSUME NEW y \in JobState, y.at = "running", y.field = x.field, y.try = m, y.values = x.values PROVE JobFits(fs, y, a)
  BY <1>1, <1>8, <1>9 DEF JobFits
<1> QED BY <1>6, <1>9 DEF m

-----------------------------------------------------------------------------
(* The pool and who asks it                                                  *)

\* At the start nobody has asked.
LEMMA ExtractionStarts == ExtractionInit => ExtractionInv
<1> SUFFICES ASSUME ExtractionInit PROVE ExtractionInv
  OBVIOUS
<1>1. NoJob \in JobState
  BY DEF NoJob, JobState, Place
<1>2. \A j \in Job : JobFits(fieldsOf[j], job[j], asker[j])
  BY DEF ExtractionInit, JobFits, NoJob
<1>3. AtWork = {}
  BY DEF ExtractionInit, AtWork, NoJob
<1>4. Cardinality(AtWork) <= PoolThreads
  BY <1>3, FS_EmptySet, ExtractionAssumption
<1> QED BY <1>1, <1>2, <1>4 DEF ExtractionInit, ExtractionInv, PoolKept, Asker

\* A step that changes one page's work and who asked for it keeps the invariant, if the
\* page fits and no thread more is at work than there are.
LEMMA OnePage ==
  ASSUME ExtractionInv, NEW j \in Job, NEW x \in JobState, NEW a \in Asker,
         fieldsOf' = fieldsOf, job' = [job EXCEPT ![j] = x], asker' = [asker EXCEPT ![j] = a],
         JobFits(fieldsOf[j], x, a), ~wasted',
         x.at = "running" => job[j].at = "running" \/ Cardinality(AtWork) < PoolThreads
  PROVE  ExtractionInv'
<1>1. job \in [Job -> JobState] /\ asker \in [Job -> Asker] /\ fieldsOf \in [Job -> FieldSets]
      /\ \A k \in Job : JobFits(fieldsOf[k], job[k], asker[k])
  BY DEF ExtractionInv
<1>2. job' \in [Job -> JobState] /\ asker' \in [Job -> Asker] /\ \A k \in Job : JobFits(fieldsOf'[k], job'[k], asker'[k])
  BY <1>1
<1>3. IsFiniteSet(AtWork) /\ IsFiniteSet(AtWork') /\ Cardinality(AtWork) \in Nat /\ Cardinality(AtWork') \in Nat
  <2>1. IsFiniteSet(Job) /\ AtWork \subseteq Job /\ AtWork' \subseteq Job
    BY ExtractionAssumption DEF AtWork
  <2> QED BY <2>1, FS_Subset, FS_CardinalityType
<1>4. Cardinality(AtWork) <= PoolThreads /\ PoolThreads \in Nat
  BY ExtractionAssumption DEF ExtractionInv, PoolKept
<1>5. \A k \in Job : k \in AtWork' <=> IF k = j THEN x.at = "running" ELSE k \in AtWork
  BY <1>1 DEF AtWork
<1>6. AtWork' \subseteq Job /\ AtWork \subseteq Job
  BY DEF AtWork
<1>7. CASE x.at = "running" /\ job[j].at # "running"
  <2>1. j \notin AtWork /\ AtWork' = AtWork \cup {j}
    BY <1>5, <1>6, <1>7 DEF AtWork
  <2>2. Cardinality(AtWork') = Cardinality(AtWork) + 1
    BY <1>3, <2>1, FS_AddElement
  <2>3. Cardinality(AtWork') <= PoolThreads
    BY <1>3, <1>4, <1>7, <2>2
  <2> QED BY <1>1, <1>2, <2>3 DEF ExtractionInv, PoolKept
<1>8. CASE x.at = "running" => job[j].at = "running"
  <2>1. AtWork' \subseteq AtWork
    BY <1>5, <1>6, <1>8 DEF AtWork
  <2>2. Cardinality(AtWork') <= Cardinality(AtWork)
    BY <1>3, <2>1, FS_Subset
  <2>3. Cardinality(AtWork') <= PoolThreads
    BY <1>3, <1>4, <2>2
  <2> QED BY <1>1, <1>2, <2>3 DEF ExtractionInv, PoolKept
<1> QED BY <1>7, <1>8

\* Whatever the pool and those who ask it do, a page's work and its asker fit.
LEMMA PageStep ==
  ASSUME ExtractionInv, NEW j \in Job,
         AskPool(j) \/ Told(j) \/ GiveUp(j) \/ NextPage(j) \/ StartJob(j) \/ TryNext(j)
  PROVE  ExtractionInv'
<1> DEFINE x == job[j]
           a == asker[j]
           fs == fieldsOf[j]
<1>1. /\ fieldsOf \in [Job -> FieldSets] /\ job \in [Job -> JobState] /\ asker \in [Job -> Asker]
      /\ x \in JobState /\ a \in Asker /\ fs \in FieldSets /\ JobFits(fs, x, a) /\ ~wasted
  BY DEF ExtractionInv, PoolKept
<1>0. "none" \in Asker /\ "waits" \in Asker /\ "told" \in Asker /\ "nothing" \in Asker /\ "gone" \in Asker
  BY DEF Asker
<1>2. job = [job EXCEPT ![j] = x] /\ asker = [asker EXCEPT ![j] = a]
  BY <1>1
<1>3. CASE AskPool(j)
  <2>1. a = "none" /\ x = NoJob /\ ~wasted' /\ fieldsOf' = fieldsOf
    BY <1>1, <1>3 DEF AskPool, JobFits
  <2>2. CASE fs = <<>>
    <3>1. job' = [job EXCEPT ![j] = x] /\ asker' = [asker EXCEPT ![j] = "nothing"]
      BY <1>2, <1>3, <2>2 DEF AskPool
    <3>2. JobFits(fs, x, "nothing") /\ x.at # "running"
      BY <2>1 DEF JobFits, NoJob
    <3> HIDE DEF x, fs
    <3> QED BY <2>1, <3>1, <3>2, <1>0, <1>1, OnePage DEF fs
  <2>3. CASE fs # <<>>
    <3> DEFINE y == [x EXCEPT !.at = "queued"]
    <3>1. job' = [job EXCEPT ![j] = y] /\ asker' = [asker EXCEPT ![j] = "waits"]
      BY <1>1, <1>3, <2>3 DEF AskPool
    <3>2. y \in JobState /\ y.at = "queued" /\ y.field = 1 /\ y.try = 1 /\ y.values = <<>>
      <4>1. x.field = 1 /\ x.try = 1 /\ x.values = <<>>
        BY <2>1 DEF NoJob
      <4> QED BY <1>1, <4>1 DEF JobState, Place
    <3> HIDE DEF y
    <3>3. JobFits(fs, y, "waits")
      BY <2>3, <3>2 DEF JobFits
    <3> QED BY <2>1, <3>1, <3>2, <3>3, <1>0, <1>1, OnePage
  <2> QED BY <2>2, <2>3
<1>4. CASE Told(j)
  <2>1. a = "waits" /\ x.at = "done" /\ job' = job /\ asker' = [asker EXCEPT ![j] = "told"] /\ fieldsOf' = fieldsOf /\ ~wasted'
    BY <1>1, <1>4 DEF Told
  <2>2. JobFits(fs, x, "told")
    BY <1>1, <2>1 DEF JobFits
  <2> QED BY <1>2, <2>1, <2>2, <1>0, <1>1, OnePage
<1>5. CASE GiveUp(j)
  <2> DEFINE y == [x EXCEPT !.at = TakenBack(@)]
  <2>1. /\ a = "waits" /\ x.at # "done" /\ job' = [job EXCEPT ![j] = y] /\ fieldsOf' = fieldsOf /\ ~wasted'
        /\ \E r \in {"nothing", "gone"} : asker' = [asker EXCEPT ![j] = r]
    BY <1>1, <1>5 DEF GiveUp
  <2>2. PICK r \in {"nothing", "gone"} : asker' = [asker EXCEPT ![j] = r]
    BY <2>1
  <2>3. /\ y \in JobState /\ y.at = (IF x.at = "queued" THEN "cancelled" ELSE x.at)
        /\ y.field = x.field /\ y.try = x.try /\ y.values = x.values
    BY <1>1 DEF JobState, TakenBack, Place
  <2> HIDE DEF y
  <2>4. JobFits(fs, y, r)
    BY <1>1, <2>1, <2>3 DEF JobFits
  <2>5. y.at = "running" => job[j].at = "running"
    BY <2>3
  <2> QED BY <2>1, <2>2, <2>3, <2>4, <2>5, <1>0, <1>1, OnePage
<1>6. CASE NextPage(j)
  <2>1. job' = [job EXCEPT ![j] = NoJob] /\ asker' = [asker EXCEPT ![j] = "none"] /\ fieldsOf' = fieldsOf /\ ~wasted'
    BY <1>1, <1>6 DEF NextPage
  <2>2. NoJob \in JobState /\ JobFits(fs, NoJob, "none") /\ NoJob.at # "running"
    BY DEF NoJob, JobState, Place, JobFits
  <2> QED BY <2>1, <2>2, <1>0, <1>1, OnePage
<1>7. CASE StartJob(j)
  <2> DEFINE y == [x EXCEPT !.at = "running"]
  <2>1. /\ x.at = "queued" /\ Cardinality(AtWork) < PoolThreads /\ job' = [job EXCEPT ![j] = y]
        /\ fieldsOf' = fieldsOf /\ asker' = asker /\ a = "waits" /\ wasted' = (wasted \/ a # "waits")
    BY <1>1, <1>7 DEF StartJob, JobFits
  <2>2. y \in JobState /\ y.at = "running" /\ y.field = 1 /\ y.try = 1 /\ y.values = <<>> /\ fs # <<>>
    BY <1>1, <2>1 DEF JobState, JobFits, Place
  <2> HIDE DEF y
  <2>3. fs \in Seq(ToSet(fs)) /\ \A i \in DOMAIN fs : HasSelectors(fs[i])
    BY <1>1, ExtractionAssumption
  <2>4. 1 \in DOMAIN fs
    BY <2>2, <2>3
  <2>5. /\ 1 \in Tried(fs[1]) \/ fs[1].selectors[1].css = ""
        /\ Tried(fs[1]) \subseteq Nat \ {0}
    BY <2>3, <2>4, FirstIsTried
  <2>6. \A k \in Tried(fs[1]) : ~(k < 1)
    <3>1. \A k \in Nat \ {0} : ~(k < 1)
      OBVIOUS
    <3> QED BY <2>5, <3>1, Zenon
  <2>7. ValuesRight(fs, <<>>) /\ Len(<<>>) = 1 - 1
    BY DEF ValuesRight
  <2>8. JobFits(fs, y, "waits")
    BY <2>2, <2>4, <2>5, <2>6, <2>7 DEF JobFits
  <2>9. ~wasted' /\ asker' = [asker EXCEPT ![j] = "waits"]
    BY <1>1, <1>2, <2>1
  <2> QED BY <2>1, <2>2, <2>8, <2>9, <1>0, <1>1, OnePage
<1>8. CASE TryNext(j)
  <2>1. x.at = "running" /\ fieldsOf' = fieldsOf /\ asker' = [asker EXCEPT ![j] = a] /\ ~wasted' /\ a # "none"
    <3>1. x.at = "running" /\ fieldsOf' = fieldsOf /\ asker' = asker /\ (wasted' <=> wasted)
      BY <1>8 DEF TryNext
    <3>2. NoJob.at = "none"
      BY DEF NoJob
    <3>3. a # "none"
      BY <1>1, <3>1, <3>2 DEF JobFits
    <3> HIDE DEF x, a
    <3> QED BY <1>1, <1>2, <3>1, <3>3
  <2>2. CASE EndsField(fs, x)
    <3> DEFINE y == [at |-> IF x.field = Len(fs) THEN "done" ELSE "running", field |-> x.field + 1, try |-> 1,
                     values |-> Append(x.values, ValueNow(fs, x))]
    <3>1. job' = [job EXCEPT ![j] = y]
      BY <1>1, <1>8, <2>2 DEF TryNext, EndsField, FieldNow, ValueNow, LeftOf
    <3>2. y \in JobState /\ JobFits(fs, y, a)
      <4> HIDE DEF x, fs, a
      <4> QED BY <1>1, <2>1, <2>2, FieldIsDone
    <3> HIDE DEF y
    <3> QED BY <2>1, <3>1, <3>2, <1>0, <1>1, OnePage
  <2>3. CASE ~EndsField(fs, x)
    <3> DEFINE m == Min(LeftOf(fs, x))
               y == [x EXCEPT !.try = m]
    <3>1. job' = [job EXCEPT ![j].try = m]
      BY <1>8, <2>3 DEF TryNext, EndsField, FieldNow, ValueNow, LeftOf
    <3>2. /\ m \in Nat
          /\ \A z \in JobState : z.at = "running" /\ z.field = x.field /\ z.try = m /\ z.values = x.values => JobFits(fs, z, a)
      <4> HIDE DEF x, fs, a
      <4> QED BY <1>1, <2>1, <2>3, FieldGoesOn
    <3> HIDE DEF m
    <3>3. y \in JobState /\ y.at = "running" /\ y.field = x.field /\ y.try = m /\ y.values = x.values
      BY <1>1, <2>1, <3>2 DEF JobState
    <3>4. job' = [job EXCEPT ![j] = y]
      BY <1>1, <3>1
    <3> HIDE DEF y
    <3>5. JobFits(fs, y, a)
      BY <3>2, <3>3
    <3> QED BY <2>1, <3>3, <3>4, <3>5, <1>0, <1>1, OnePage
  <2> QED BY <2>2, <2>3
<1> QED BY <1>3, <1>4, <1>5, <1>6, <1>7, <1>8

\* For any pages, fields, selectors and threads, who is answered has a value for every
\* field one of whose selectors finds one, and no thread works for nobody from the start.
THEOREM FieldsAreFound == ExtractionSpec => []ExtractionSound
<1>1. ExtractionInv => ExtractionSound
  <2> SUFFICES ASSUME ExtractionInv PROVE ExtractionSound
    OBVIOUS
  <2>1. ASSUME NEW j \in Job, asker[j] = "told"
        PROVE  /\ Len(job[j].values) = Len(fieldsOf[j])
               /\ \A i \in DOMAIN fieldsOf[j] : NonEmpty(job[j].values[i]) <=> Wanted(fieldsOf[j][i])
    <3>1. JobFits(fieldsOf[j], job[j], asker[j]) /\ fieldsOf[j] \in FieldSets
      BY DEF ExtractionInv
    <3>2. Len(job[j].values) = Len(fieldsOf[j]) /\ ValuesRight(fieldsOf[j], job[j].values)
      BY <2>1, <3>1 DEF JobFits
    <3>3. fieldsOf[j] \in Seq(ToSet(fieldsOf[j]))
      BY <3>1, ExtractionAssumption
    <3>4. DOMAIN fieldsOf[j] = 1 .. Len(fieldsOf[j])
      BY <3>3
    <3> QED BY <3>2, <3>4 DEF ValuesRight
  <2> QED BY <2>1 DEF ExtractionSound, FieldsComplete, ExtractionInv
<1>2. ExtractionInv /\ [ExtractionNext]_extraction => ExtractionInv'
  <2> SUFFICES ASSUME ExtractionInv, [ExtractionNext]_extraction PROVE ExtractionInv'
    OBVIOUS
  <2>1. CASE ExtractionNext
    BY <2>1, PageStep DEF ExtractionNext
  <2>2. CASE UNCHANGED extraction
    <3>1. fieldsOf' = fieldsOf /\ job' = job /\ asker' = asker /\ (wasted' <=> wasted)
      BY <2>2 DEF extraction
    <3> QED BY <3>1 DEF ExtractionInv, PoolKept, AtWork
  <2> QED BY <2>1, <2>2
<1> QED BY <1>1, <1>2, ExtractionStarts, PTL DEF ExtractionSpec

-----------------------------------------------------------------------------
(* A rule made by a model                                                    *)

MakingState ==
  [at : {"idle", "attempt", "probe", "chat", "judge", "made", "failed", "cancelled"},
   attempt : 0 .. MaxAttempts - 1, tries : 0 .. 2, format : {"schema", "object"},
   answer : {<<>>} \cup {<<a>> : a \in ModelAnswer}, refused : BOOLEAN]
Complaints == {"no JSON", "no rule", "finds nothing"}

\* What was told back and what was asked count the attempts; only who cancelled after the
\* probe began still asks once; the answer at hand is one.
MakingInv ==
  /\ making \in MakingState /\ feedback \in Seq(Complaints) /\ chats \in Nat /\ chatsAfter \in Nat
  /\ making.at \in {"attempt", "probe", "chat", "judge", "made"} => Len(feedback) = making.attempt
  /\ making.at \in {"attempt", "probe", "chat"} => chats = making.attempt
  /\ making.at \in {"judge", "made"} => chats = making.attempt + 1 /\ making.answer # <<>>
  /\ making.at = "cancelled" => cancel /\ chats = Len(feedback)
  /\ ~cancel \/ making.at \in {"probe", "chat"} => chatsAfter = 0
  /\ chatsAfter <= 1
  /\ making.at \in {"chat", "judge"} /\ making.refused => making.format = "object"
  /\ making.at = "made" => Good(making.answer[1])

\* An answer that is judged good is a rule, and each of its fields has a selector to be
\* tried that finds something.
LEMMA GoodFinds ==
  ASSUME NEW a \in ModelAnswer, Good(a)
  PROVE  ValidRule(a.rule) /\ \A i \in DOMAIN a.rule.fields : Wanted(a.rule.fields[i])
<1> DEFINE r == a.rule
<1>1. ValidRule(r) /\ FindsAll(r)
  BY DEF Good
<1>2. ASSUME NEW i \in DOMAIN r.fields PROVE Wanted(r.fields[i])
  <2> DEFINE f == r.fields[i]
  <2>1. HasSelectors(f)
    BY MakingAssumption
  <2>2. ValidField(f)
    BY <1>1 DEF ValidRule
  <2>3. \E k \in Tried(f) : NonEmpty(TrySelect(f.selectors[k], f.multiple))
    BY <1>1 DEF FindsAll
  <2> HIDE DEF f
  <2>4. f.selectors[1].css # ""
    <3>1. 1 \in DOMAIN f.selectors
      <4>1. f.selectors \in Seq(ToSet(f.selectors)) /\ f.selectors # <<>>
        BY <2>1 DEF HasSelectors
      <4> DEFINE s == f.selectors
      <4> HIDE DEF s
      <4>2. s \in Seq(ToSet(s)) /\ s # <<>>
        BY <4>1 DEF s
      <4>3. 1 \in DOMAIN s
        BY <4>2
      <4> QED BY <4>3 DEF s
    <3>2. ~f.selectors[1].short /\ ValidSelector(f.selectors[1])
      BY <2>2, <3>1 DEF ValidField
    <3> QED BY <3>2 DEF ValidSelector
  <2>5. \E k \in Tried(f) : FindsOnPage[f.selectors[k].css] = "value"
    BY <2>3, ValueCounts
  <2>6. Wanted(f)
    BY <2>1, <2>4, <2>5, WantedIsTried
  <2> QED BY <2>6 DEF f
<1> QED BY <1>1, <1>2

\* At the start nothing is made.
LEMMA MakingStarts == MakingInit => MakingInv
<1> SUFFICES ASSUME MakingInit PROVE MakingInv
  OBVIOUS
<1>1. making = NoMaking /\ feedback = <<>> /\ cancel = FALSE /\ chatsAfter = 0 /\ chats = 0
  BY DEF MakingInit
<1>2. NoMaking \in MakingState /\ NoMaking.at = "idle"
  BY MakingAssumption DEF NoMaking, MakingState
<1> QED BY <1>1, <1>2 DEF MakingInv

\* Every step counts what was told and asked, and keeps the answer with its judgement.
LEMMA MakingStep == MakingInv /\ [MakingNext]_makingVars => MakingInv'
<1> SUFFICES ASSUME MakingInv, [MakingNext]_makingVars PROVE MakingInv'
  OBVIOUS
<1>0. /\ making \in MakingState /\ feedback \in Seq(Complaints) /\ chats \in Nat /\ chatsAfter \in Nat
      /\ MaxAttempts \in Nat /\ MaxAttempts # 0
  BY MakingAssumption DEF MakingInv
<1>1. CASE StartMaking
  <2>1. /\ feedback' = <<>> /\ cancel' = FALSE /\ chatsAfter' = 0 /\ chats' = 0
        /\ making' \in MakingState /\ making'.at \in {"attempt", "failed"} /\ making'.attempt = 0
    <3>1. /\ feedback' = <<>> /\ cancel' = FALSE /\ chatsAfter' = 0 /\ chats' = 0
          /\ \/ making' = [NoMaking EXCEPT !.at = "attempt"]
             \/ making' = [NoMaking EXCEPT !.at = "failed"]
      BY <1>1 DEF StartMaking
    <3>2. NoMaking \in MakingState /\ NoMaking.attempt = 0
      BY MakingAssumption DEF NoMaking, MakingState
    <3>3. ASSUME NEW at \in {"attempt", "failed"}
          PROVE  LET m == [NoMaking EXCEPT !.at = at] IN m \in MakingState /\ m.at = at /\ m.attempt = 0
      BY <3>2 DEF MakingState
    <3> QED BY <3>1, <3>3
  <2>2. Len(<<>>) = 0 /\ <<>> \in Seq(Complaints)
    OBVIOUS
  <2> QED BY <2>1, <2>2 DEF MakingInv
<1>2. CASE CancelMaking
  <2>1. /\ making.at \in {"attempt", "probe", "chat", "judge"} /\ ~cancel /\ cancel' = TRUE
        /\ UNCHANGED <<making, feedback, chatsAfter, chats>>
    BY <1>2 DEF CancelMaking
  <2> QED BY <2>1 DEF MakingInv
<1>3. CASE Attempt
  <2>1. making.at = "attempt" /\ UNCHANGED <<feedback, cancel, chatsAfter, chats>>
    BY <1>3 DEF Attempt, MakingAt
  <2>2. CASE cancel
    <3>1. making' \in MakingState /\ making'.at = "cancelled"
      BY <1>0, <1>3, <2>2 DEF Attempt, MovesTo, MakingState
    <3> QED BY <2>1, <2>2, <3>1 DEF MakingInv
  <2>3. CASE ~cancel
    <3>1. making' \in MakingState /\ making'.at = "probe" /\ making'.attempt = making.attempt
      <4>1. making' = [making EXCEPT !.at = "probe", !.tries = 1, !.refused = FALSE]
        BY <1>3, <2>3 DEF Attempt
      <4> DEFINE m == [making EXCEPT !.at = "probe", !.tries = 1]
      <4>2. m \in MakingState /\ m.at = "probe" /\ m.attempt = making.attempt
        <5> DEFINE k == [making EXCEPT !.at = "probe"]
        <5>1. k \in MakingState /\ k.at = "probe" /\ k.attempt = making.attempt
          BY <1>0 DEF MakingState
        <5>2. m = [k EXCEPT !.tries = 1]
          BY <1>0 DEF MakingState
        <5> HIDE DEF k, m
        <5>3. 1 \in 0 .. 2
          OBVIOUS
        <5> QED BY <5>1, <5>2, <5>3 DEF MakingState
      <4>3. making' = [m EXCEPT !.refused = FALSE]
        BY <1>0, <4>1 DEF MakingState
      <4> HIDE DEF m
      <4> QED BY <4>2, <4>3 DEF MakingState
    <3> QED BY <2>1, <2>3, <3>1 DEF MakingInv
  <2> QED BY <2>2, <2>3
<1>4. CASE Probe
  <2>1. making.at = "probe" /\ UNCHANGED <<feedback, cancel, chatsAfter, chats>>
    BY <1>4 DEF Probe, MakingAt
  <2>2. \/ making' = [making EXCEPT !.tries = 2]
        \/ \E format \in {"schema", "object"} : Resolved(format)
    <3> HIDE DEF MakingInv
    <3> QED BY <1>4 DEF Probe
  <2>3. CASE making' = [making EXCEPT !.tries = 2]
    <3>1. making' \in MakingState /\ making'.at = "probe" /\ making'.attempt = making.attempt
      BY <1>0, <2>1, <2>3 DEF MakingState
    <3> QED BY <2>1, <3>1 DEF MakingInv
  <2>4. ASSUME NEW format \in {"schema", "object"}, Resolved(format) PROVE MakingInv'
    <3>1. /\ making' \in MakingState /\ making'.at = "chat" /\ making'.attempt = making.attempt
          /\ making'.format = format /\ (making'.refused <=> format = "object")
      BY <1>0, <2>4 DEF MakingState, Resolved
    <3> QED BY <2>1, <3>1 DEF MakingInv
  <2> QED BY <2>2, <2>3, <2>4
<1>5. CASE Chat
  <2>1. making.at = "chat" /\ UNCHANGED <<feedback, cancel>> /\ chats' = chats + 1 /\ chatsAfter' = chatsAfter + (IF cancel THEN 1 ELSE 0)
    BY <1>5 DEF Chat, MakingAt
  <2>2. chatsAfter = 0 /\ chats = making.attempt /\ Len(feedback) = making.attempt
    BY <2>1 DEF MakingInv
  <2>3. chats' \in Nat /\ chatsAfter' \in Nat /\ chatsAfter' <= 1 /\ (~cancel' => chatsAfter' = 0) /\ chats' = making.attempt + 1
    BY <1>0, <2>1, <2>2
  <2>4. CASE MovesTo("failed")
    <3>1. making' \in MakingState /\ making'.at = "failed"
      BY <1>0, <2>4 DEF MovesTo, MakingState
    <3> QED BY <1>0, <2>1, <2>3, <3>1 DEF MakingInv
  <2>5. ASSUME NEW a \in ModelAnswer, making' = [making EXCEPT !.at = "judge", !.answer = <<a>>] PROVE MakingInv'
    <3>1. /\ making' \in MakingState /\ making'.at = "judge" /\ making'.attempt = making.attempt
          /\ making'.answer = <<a>> /\ making'.format = making.format /\ (making'.refused <=> making.refused)
      BY <1>0, <2>5 DEF MakingState
    <3>2. making.refused => making.format = "object"
      BY <2>1 DEF MakingInv
    <3>3. <<a>> # <<>>
      OBVIOUS
    <3> QED BY <1>0, <2>1, <2>2, <2>3, <3>1, <3>2, <3>3 DEF MakingInv
  <2> QED BY <1>5, <2>4, <2>5 DEF Chat
<1>6. CASE JudgeAnswer
  <2> DEFINE a == making.answer[1]
  <2>1. /\ making.at = "judge" /\ UNCHANGED <<cancel, chatsAfter, chats>>
        /\ Len(feedback) = making.attempt /\ chats = making.attempt + 1 /\ chatsAfter <= 1 /\ (~cancel => chatsAfter = 0)
        /\ making.answer # <<>>
    BY <1>6 DEF JudgeAnswer, MakingAt, MakingInv
  <2>2. CASE Good(a)
    <3>1. making' \in MakingState /\ making'.at = "made" /\ making'.attempt = making.attempt /\ making'.answer = making.answer /\ feedback' = feedback
      BY <1>0, <1>6, <2>2 DEF JudgeAnswer, MovesTo, MakingState
    <3>2. Good(making.answer[1])'
      <4>1. provider' = provider
        BY <1>6 DEF JudgeAnswer, MakingAt
      <4> QED BY <2>2, <3>1, <4>1 DEF Good, Reads
    <3> QED BY <1>0, <2>1, <3>1, <3>2 DEF MakingInv
  <2>3. CASE ~Good(a) /\ making.attempt = MaxAttempts - 1
    <3>1. making' \in MakingState /\ making'.at = "failed" /\ feedback' = feedback
      BY <1>0, <1>6, <2>3 DEF JudgeAnswer, MovesTo, MakingState
    <3> QED BY <1>0, <2>1, <3>1 DEF MakingInv
  <2>4. CASE ~Good(a) /\ making.attempt # MaxAttempts - 1
    <3>1. /\ making' = [making EXCEPT !.at = "attempt", !.attempt = @ + 1]
          /\ feedback' = Append(feedback, Complaint(a))
      BY <1>6, <2>4 DEF JudgeAnswer
    <3>2. making.attempt \in 0 .. MaxAttempts - 1
      BY <1>0 DEF MakingState
    <3>3. making.attempt + 1 \in 0 .. MaxAttempts - 1 /\ making.attempt \in Nat
      BY <1>0, <2>4, <3>2
    <3>4. making' \in MakingState /\ making'.at = "attempt" /\ making'.attempt = making.attempt + 1
      BY <1>0, <3>1, <3>3 DEF MakingState
    <3>5. Complaint(a) \in Complaints
      BY DEF Complaint, Complaints
    <3> HIDE DEF a
    <3>6. feedback' \in Seq(Complaints) /\ Len(feedback') = Len(feedback) + 1
      BY <1>0, <3>1, <3>5
    <3> QED BY <1>0, <2>1, <3>4, <3>6 DEF MakingInv
  <2> QED BY <2>2, <2>3, <2>4
<1>7. CASE MakingEnds
  <2>1. making' = NoMaking /\ feedback' = <<>> /\ cancel' = FALSE /\ chatsAfter' = 0 /\ chats' = 0
    BY <1>7 DEF MakingEnds
  <2>2. NoMaking \in MakingState /\ NoMaking.at = "idle"
    BY MakingAssumption DEF NoMaking, MakingState
  <2> QED BY <2>1, <2>2 DEF MakingInv
<1>8. CASE UNCHANGED makingVars
  <2>1. UNCHANGED <<provider, making, feedback, chatsAfter, chats>> /\ (cancel' <=> cancel)
    BY <1>8 DEF makingVars
  <2>2. making.at = "made" => Good(making.answer[1])'
    <3>1. making.at = "made" => Good(making.answer[1])
      BY DEF MakingInv
    <3> QED BY <2>1, <3>1 DEF Good, Reads
  <2> QED BY <2>1, <2>2 DEF MakingInv
<1> QED BY <1>1, <1>2, <1>3, <1>4, <1>5, <1>6, <1>7, <1>8 DEF MakingNext

\* For any providers, answers and tries, a rule that is handed over is one and finds
\* something for each of its fields, the model was told all that was wrong, who cancels
\* pays for one answer more at most, and a refused schema is not sent again.
THEOREM MadeRulesWork == MakingSpec => []MakingSound
<1>1. MakingInv => MakingSound
  <2> SUFFICES ASSUME MakingInv PROVE MakingSound
    OBVIOUS
  <2>1. making \in MakingState /\ feedback \in Seq(Complaints)
    BY DEF MakingInv
  <2>2. MadeIsGood
    <3> SUFFICES ASSUME making.at = "made"
                 PROVE  ValidRule(making.answer[1].rule)
                        /\ \A i \in DOMAIN making.answer[1].rule.fields : Wanted(making.answer[1].rule.fields[i])
      BY DEF MadeIsGood
    <3>1. Good(making.answer[1]) /\ making.answer # <<>> /\ making.answer \in {<<>>} \cup {<<a>> : a \in ModelAnswer}
      BY <2>1 DEF MakingInv, MakingState
    <3>2. making.answer[1] \in ModelAnswer
      BY <3>1
    <3> QED BY <3>1, <3>2, GoodFinds
  <2>3. FeedbackComplete
    BY DEF MakingInv, FeedbackComplete
  <2>4. CancelHeeded /\ NoSchemaRefused
    BY DEF MakingInv, CancelHeeded, NoSchemaRefused
  <2> QED BY <2>2, <2>3, <2>4 DEF MakingSound
<1> QED BY <1>1, MakingStarts, MakingStep, PTL DEF MakingSpec

-----------------------------------------------------------------------------
(* The rules, from a model to the fields of a page                           *)

\* Of the rules, the answer to a page, the fields extracted by it and a rule made by a
\* model are what RulesSound says, for any rules, pages and models.
THEOREM RulesAreSound == BookSpec /\ ExtractionSpec /\ MakingSpec => []RulesSound
<1>1. RulesAnswer /\ ExtractionSound /\ MakingSound => RulesSound
  BY DEF RulesSound
<1> QED BY <1>1, PagesGetTheirRule, FieldsAreFound, MadeRulesWork, PTL

-----------------------------------------------------------------------------
(* The panel that shows pages                                                *)

AnyPage == PageId \cup {NoPage}
LoopCall == [kind : {"open", "close"}, page : AnyPage, waited : BOOLEAN]
Asked == [kind : {"open", "close"}, page : AnyPage, answer : {"none", "error", "page", "closed"}]

PreviewTyped ==
  /\ notices \in Seq(AnyPage)
  /\ nextPage \in Nat /\ nextPage <= MaxPages
  /\ rows \subseteq PageId /\ openPages \subseteq PageId
  /\ onLoop \subseteq LoopCall /\ ask \subseteq Asked
  /\ session \in {"none", "live", "disposed"}
  /\ thread \in {"none", "starting", "launching", "ready", "cleaning", "ended"}

\* Numbers are given once, and what is closed was a page.
NumbersGiven ==
  /\ \A id \in rows \cup openPages : id < nextPage
  /\ \A t \in onLoop : t.page # NoPage => t.page < nextPage
  /\ \A t \in onLoop : t.kind = "close" => t.page # NoPage
  /\ \A c \in ask : c.page # NoPage => c.page < nextPage

\* The panel waits for one thing, and at most one call is answered to it: the one it
\* waits for.
OneIsWaited ==
  /\ \A c, d \in ask : c = d
  /\ \A t, u \in onLoop : t.waited /\ u.waited => t = u
  /\ \A t \in onLoop : t.waited => \E c \in ask : /\ c.kind = t.kind /\ c.answer = "none"
                                                  /\ c.kind = "close" => c.page = t.page
  /\ \A c \in ask : c.kind = "open" /\ c.page # NoPage => c.answer = "page"
  /\ \A c \in ask : c.answer = "page" => c.kind = "open" /\ c.page # NoPage

\* Who waits has a session whose loop ran.
WaitsForLoop ==
  /\ ask # {} => panel /\ session = "live" /\ thread \in {"launching", "ready", "cleaning", "ended"}
  /\ \A c \in ask : c.answer = "page" => thread # "launching"
  /\ thread = "ended" => Contains(notices, NoPage)

\* A page that is being opened is known to its call alone; one that is being closed
\* with nobody waiting has lost its row, and nothing brings it back.
PagesHaveOneEnd ==
  /\ \A t, u \in onLoop : t.kind = "open" /\ u.kind = "open" /\ t.page = u.page /\ t.page # NoPage => t = u
  /\ \A t \in onLoop : t.kind = "open" => t.page \notin rows
  /\ \A t \in onLoop, c \in ask : c.answer = "page" => c.page # t.page
  /\ \A t, u \in onLoop : t.kind = "open" /\ u.kind = "close" => t.page # u.page
  /\ \A t \in onLoop : t.kind = "close" /\ ~t.waited => t.page \notin rows

PreviewInv == PreviewTyped /\ NumbersGiven /\ OneIsWaited /\ WaitsForLoop /\ PagesHaveOneEnd /\ PreviewSound

-----------------------------------------------------------------------------
\* NoPage is a number beyond the pages.
LEMMA PageNumbers ==
  /\ MaxPages \in Nat /\ MaxPanels \in Nat /\ MaxCalls \in Nat
  /\ \A p \in AnyPage : p \in Nat
  /\ \A p \in AnyPage : p # NoPage <=> p \in PageId
  /\ \A p \in PageId : p < MaxPages /\ p \in Nat
  /\ \A n \in Nat : n < MaxPages => n \in PageId
  /\ <<>> \in Seq(AnyPage)
BY PreviewAssumption DEF AnyPage, PageId, NoPage

\* What a queue holds once something is put at its end, or taken from its head.
LEMMA Queued ==
  ASSUME NEW S, NEW q \in Seq(S)
  PROVE  /\ \A x \in S : /\ Append(q, x) \in Seq(S)
                         /\ Contains(Append(q, x), x)
                         /\ \A y : Contains(q, y) => Contains(Append(q, x), y)
         /\ q # <<>> => /\ Tail(q) \in Seq(S) /\ Head(q) \in S
                        /\ \A y : Contains(q, y) /\ y # Head(q) => Contains(Tail(q), y)
<1>1. ASSUME NEW x \in S
      PROVE  /\ Append(q, x) \in Seq(S)
             /\ Contains(Append(q, x), x)
             /\ \A y : Contains(q, y) => Contains(Append(q, x), y)
  <2>1. /\ Append(q, x) \in Seq(S) /\ Len(Append(q, x)) = Len(q) + 1 /\ Len(q) \in Nat
        /\ Append(q, x)[Len(q) + 1] = x
        /\ \A i \in 1 .. Len(q) : Append(q, x)[i] = q[i]
    OBVIOUS
  <2> QED BY <2>1 DEF Contains
<1>2. ASSUME q # <<>>
      PROVE  /\ Tail(q) \in Seq(S) /\ Head(q) \in S
             /\ \A y : Contains(q, y) /\ y # Head(q) => Contains(Tail(q), y)
  <2>1. /\ Tail(q) \in Seq(S) /\ Head(q) \in S /\ Head(q) = q[1] /\ Len(q) \in Nat
        /\ Len(Tail(q)) = Len(q) - 1
        /\ \A i \in 1 .. Len(Tail(q)) : Tail(q)[i] = q[i + 1]
    BY <1>2, HeadTailProperties
  <2>2. ASSUME NEW y, Contains(q, y), y # Head(q) PROVE Contains(Tail(q), y)
    <3>1. PICK i \in 1 .. Len(q) : q[i] = y
      BY <2>2 DEF Contains
    <3>2. i # 1
      BY <3>1, <2>1, <2>2
    <3>3. i - 1 \in 1 .. Len(Tail(q)) /\ (i - 1) + 1 = i
      BY <3>1, <3>2, <2>1
    <3> QED BY <3>1, <3>3, <2>1 DEF Contains
  <2> QED BY <2>1, <2>2
<1> QED BY <1>1, <1>2

\* The fields of what is worked on and waited for.
LEMMA CallFields ==
  ASSUME PreviewTyped
  PROVE  /\ \A t \in onLoop : /\ t.kind \in {"open", "close"} /\ t.page \in AnyPage /\ t.waited \in BOOLEAN
                              /\ \A p \in AnyPage : /\ [t EXCEPT !.page = p] \in LoopCall
                                                    /\ [t EXCEPT !.page = p].kind = t.kind
                                                    /\ [t EXCEPT !.page = p].page = p
                                                    /\ [t EXCEPT !.page = p].waited = t.waited
                              /\ [t EXCEPT !.waited = FALSE] \in LoopCall
                              /\ [t EXCEPT !.waited = FALSE].kind = t.kind
                              /\ [t EXCEPT !.waited = FALSE].page = t.page
                              /\ [t EXCEPT !.waited = FALSE].waited = FALSE
         /\ \A c \in ask : /\ c.kind \in {"open", "close"} /\ c.page \in AnyPage
                           /\ c.answer \in {"none", "error", "page", "closed"}
BY DEF PreviewTyped, LoopCall, Asked

\* An answer goes to the one thing the panel waits for, or nowhere.
LEMMA RepliesTo ==
  ASSUME PreviewTyped, OneIsWaited, NEW t \in onLoop,
         NEW answer \in {"error", "page", "closed"}, NEW id \in AnyPage, Replies(t, answer, id)
  PROVE  \/ ~t.waited /\ ask' = ask
         \/ t.waited /\ \E c \in ask, d \in Asked :
              /\ ask = {c} /\ ask' = {d} /\ c.kind = t.kind /\ c.answer = "none"
              /\ c.kind = "close" => c.page = t.page
              /\ d.kind = c.kind /\ d.answer = answer /\ d.page = id
<1>1. CASE ~t.waited
  BY <1>1 DEF Replies
<1>2. CASE t.waited
  <2>1. PICK c \in ask : c.kind = t.kind /\ c.answer = "none" /\ (c.kind = "close" => c.page = t.page)
    BY <1>2 DEF OneIsWaited
  <2>2. ask = {c} /\ c \in Asked
    BY DEF OneIsWaited, PreviewTyped
  <2> DEFINE d == [c EXCEPT !.answer = answer, !.page = id]
  <2>3. d \in Asked /\ d.kind = c.kind /\ d.answer = answer /\ d.page = id
    BY <2>2 DEF Asked
  <2>4. ask' = {d}
    BY <1>2, <2>2 DEF Replies
  <2> QED BY <1>2, <2>1, <2>2, <2>3, <2>4
<1> QED BY <1>1, <1>2

\* What the loop works on is what it worked on before, with nobody waiting for it any
\* more where the panel has given up.
LEMMA LeftAlone ==
  ASSUME PreviewTyped, OneIsWaited, Answered
  PROVE  /\ \A u \in onLoop' : ~u.waited
         /\ \A u \in onLoop' : \E t \in onLoop : u.page = t.page /\ u.kind = t.kind
         /\ onLoop' # onLoop => \A u \in onLoop' : \E t \in onLoop : u = [t EXCEPT !.waited = FALSE]
<1>1. PICK c \in ask : \/ c.answer # "none" /\ UNCHANGED onLoop
                       \/ c.answer = "none" /\ onLoop' = {[t EXCEPT !.waited = FALSE] : t \in onLoop}
  BY DEF Answered
<1>2. CASE c.answer # "none" /\ UNCHANGED onLoop
  <2>1. \A t \in onLoop : ~t.waited
    BY <1>2 DEF OneIsWaited
  <2> QED BY <1>2, <2>1
<1>3. CASE onLoop' = {[t EXCEPT !.waited = FALSE] : t \in onLoop}
  <2>1. ASSUME NEW u \in onLoop'
        PROVE  ~u.waited /\ \E t \in onLoop : u.page = t.page /\ u.kind = t.kind /\ u = [t EXCEPT !.waited = FALSE]
    <3>1. PICK t \in onLoop : u = [t EXCEPT !.waited = FALSE]
      BY <1>3
    <3>2. u.page = t.page /\ u.kind = t.kind /\ u.waited = FALSE
      BY <3>1, CallFields
    <3> QED BY <3>1, <3>2
  <2> QED BY <2>1
<1> QED BY <1>1, <1>2, <1>3

\* Nothing is there before the first panel.
LEMMA PreviewStarts == PreviewInit => PreviewInv
<1> SUFFICES ASSUME PreviewInit PROVE PreviewInv
  OBVIOUS
<1>1. PreviewTyped
  BY PageNumbers DEF PreviewInit, PreviewTyped
<1> QED
  BY <1>1 DEF PreviewInit, PreviewInv, NumbersGiven, OneIsWaited, WaitsForLoop, PagesHaveOneEnd, PreviewSound,
     RowsAreOpen, ToldIsOpen, GoComesBack

\* Types
LEMMA PreviewTypes == PreviewInv /\ [PreviewNext]_preview => PreviewTyped'
<1> SUFFICES ASSUME PreviewInv, [PreviewNext]_preview PROVE PreviewTyped'
  OBVIOUS
<1> USE PageNumbers, CallFields
<1>0. PreviewTyped /\ OneIsWaited /\ WaitsForLoop
  BY DEF PreviewInv
<1>1. CASE OpenPanel
  <2>1. ask' = {}
    BY <1>0, <1>1 DEF OpenPanel, WaitsForLoop
  <2> QED BY <2>1, <1>0, <1>1 DEF PreviewTyped, OpenPanel
<1>2. CASE Go
  <2>1. /\ [kind |-> "open", page |-> NoPage, answer |-> "none"] \in Asked
        /\ [kind |-> "open", page |-> NoPage, waited |-> TRUE] \in LoopCall
    BY DEF Asked, LoopCall, AnyPage
  <2>2. ask' \subseteq Asked /\ onLoop' \subseteq LoopCall
    <3>1. \/ ask' = ask /\ onLoop' = onLoop
          \/ /\ ask' = {[kind |-> "open", page |-> NoPage, answer |-> "none"]}
             /\ onLoop' = onLoop \cup {[kind |-> "open", page |-> NoPage, waited |-> TRUE]}
      BY <1>2 DEF Go
    <3> QED BY <1>0, <2>1, <3>1 DEF PreviewTyped
  <2> QED BY <1>0, <1>2, <2>2 DEF PreviewTyped, Go
<1>3. CASE Answered
  <2>1. ask' \subseteq Asked /\ onLoop' \subseteq LoopCall
    BY <1>0, <1>3 DEF Answered, PreviewTyped
  <2>2. rows' \subseteq PageId
    BY <1>0, <1>3 DEF Answered, PreviewTyped, OneIsWaited
  <2> QED BY <1>0, <1>3, <2>1, <2>2 DEF PreviewTyped, Answered
<1>4. CASE Notice
  <2>1. Tail(notices) \in Seq(AnyPage)
    BY <1>0, <1>4, Queued DEF PreviewTyped, Notice
  <2> QED BY <2>1, <1>0, <1>4 DEF PreviewTyped, Notice
<1>5. CASE ClosePanel
  BY <1>0, <1>5 DEF PreviewTyped, ClosePanel
<1>6. CASE LoopStarts \/ Launch \/ Disconnect \/ StopSeen
  BY <1>0, <1>6 DEF PreviewTyped, LoopStarts, Launch, Disconnect, StopSeen, OfPanel
<1>7. CASE ThreadEnds
  <2>1. Append(notices, NoPage) \in Seq(AnyPage)
    BY <1>0, Queued DEF PreviewTyped, AnyPage
  <2>2. \A c \in Asked : [c EXCEPT !.answer = "error"] \in Asked
    BY DEF Asked
  <2>3. ask' \subseteq Asked
    BY <1>0, <1>7, <2>2 DEF PreviewTyped, ThreadEnds
  <2> QED BY <2>1, <2>3, <1>0, <1>7 DEF PreviewTyped, ThreadEnds, OfPanel
<1>8. ASSUME NEW t \in onLoop, OpenBegins(t) PROVE PreviewTyped'
  <2>1. ask' \subseteq Asked
    BY <1>0, <1>8, RepliesTo DEF OpenBegins, PreviewTyped, AnyPage
  <2>2. onLoop' \subseteq LoopCall
    <3>1. CASE thread = "ready" /\ nextPage < MaxPages
      <4>1. nextPage \in AnyPage
        BY <1>0, <3>1 DEF PreviewTyped, AnyPage
      <4>2. [t EXCEPT !.page = nextPage] \in LoopCall
        BY <1>0, <4>1
      <4>3. onLoop' = (onLoop \ {t}) \cup {[t EXCEPT !.page = nextPage]}
        BY <1>8, <3>1 DEF OpenBegins
      <4> QED BY <1>0, <4>2, <4>3 DEF PreviewTyped
    <3>2. CASE ~(thread = "ready" /\ nextPage < MaxPages)
      BY <1>0, <1>8, <3>2 DEF OpenBegins, PreviewTyped
    <3> QED BY <3>1, <3>2
  <2>3. openPages' \subseteq PageId /\ nextPage' \in Nat /\ nextPage' <= MaxPages
    BY <1>0, <1>8 DEF OpenBegins, PreviewTyped
  <2> QED BY <2>1, <2>2, <2>3, <1>0, <1>8 DEF PreviewTyped, OpenBegins, OfPanel
<1>9. ASSUME NEW t \in onLoop, OpenEnds(t) PROVE PreviewTyped'
  <2>1. ask' \subseteq Asked
    BY <1>0, <1>9, RepliesTo DEF OpenEnds, PreviewTyped, AnyPage
  <2> QED BY <2>1, <1>0, <1>9 DEF PreviewTyped, OpenEnds, OfPanel
<1>10. ASSUME NEW t \in onLoop, CloseBegins(t) PROVE PreviewTyped'
  <2>0. t.page \in AnyPage /\ Replies(t, "closed", t.page)
    BY <1>0, <1>10 DEF CloseBegins
  <2>1. ask' \subseteq Asked
    BY <1>0, <2>0, RepliesTo DEF PreviewTyped
  <2> QED BY <2>1, <1>0, <1>10 DEF PreviewTyped, CloseBegins, OfPanel
<1>11. ASSUME NEW id \in PageId, CloseRow(id) PROVE PreviewTyped'
  <2>1. /\ [kind |-> "close", page |-> id, answer |-> "none"] \in Asked
        /\ [kind |-> "close", page |-> id, waited |-> TRUE] \in LoopCall
    BY DEF Asked, LoopCall, AnyPage
  <2>2. ask' \subseteq Asked /\ onLoop' \subseteq LoopCall /\ rows' \subseteq PageId
    <3>1. /\ \/ ask' = ask /\ onLoop' = onLoop
             \/ /\ ask' = {[kind |-> "close", page |-> id, answer |-> "none"]}
                /\ onLoop' = onLoop \cup {[kind |-> "close", page |-> id, waited |-> TRUE]}
          /\ rows' \subseteq rows
      BY <1>11 DEF CloseRow
    <3> QED BY <1>0, <2>1, <3>1 DEF PreviewTyped
  <2> QED BY <1>0, <1>11, <2>2 DEF PreviewTyped, CloseRow
<1>12. ASSUME NEW id \in PageId, TabClosed(id) PROVE PreviewTyped'
  <2>1. Append(notices, id) \in Seq(AnyPage)
    BY <1>0, Queued DEF PreviewTyped, AnyPage
  <2> QED BY <2>1, <1>0, <1>12 DEF PreviewTyped, TabClosed, OfPanel
<1>13. CASE UNCHANGED preview
  BY <1>0, <1>13 DEF PreviewTyped, preview
<1> QED BY <1>1, <1>2, <1>3, <1>4, <1>5, <1>6, <1>7, <1>8, <1>9, <1>10, <1>11, <1>12, <1>13 DEF PreviewNext

\* Numbers
LEMMA PreviewNumbers == PreviewInv /\ [PreviewNext]_preview => NumbersGiven'
<1> SUFFICES ASSUME PreviewInv, [PreviewNext]_preview PROVE NumbersGiven'
  OBVIOUS
<1>0. PreviewTyped /\ OneIsWaited /\ WaitsForLoop /\ NumbersGiven
  BY DEF PreviewInv
<1> USE DEF NumbersGiven
<1>1. CASE OpenPanel
  <2>1. ask' = {}
    BY <1>0, <1>1 DEF OpenPanel, WaitsForLoop
  <2> QED BY <2>1, <1>0, <1>1 DEF OpenPanel
<1>2. CASE Go
  <2>1. \/ ask' = ask /\ onLoop' = onLoop
        \/ /\ ask' = {[kind |-> "open", page |-> NoPage, answer |-> "none"]}
           /\ onLoop' = onLoop \cup {[kind |-> "open", page |-> NoPage, waited |-> TRUE]}
    BY <1>2 DEF Go
  <2>2. UNCHANGED <<rows, openPages, nextPage>>
    BY <1>2 DEF Go
  <2> QED BY <1>0, <2>1, <2>2
<1>3. CASE Answered
  <2>1. ask' = {} /\ UNCHANGED <<openPages, nextPage>>
    BY <1>3 DEF Answered
  <2>2. \A u \in onLoop' : \E t \in onLoop : u.page = t.page /\ u.kind = t.kind
    BY <1>0, <1>3, LeftAlone
  <2>3. \A id \in rows' : id < nextPage
    BY <1>0, <1>3, PageNumbers DEF Answered, OneIsWaited
  <2> QED BY <1>0, <2>1, <2>2, <2>3
<1>4. CASE Notice \/ ClosePanel
  BY <1>0, <1>4 DEF Notice, ClosePanel, PanelFree
<1>6. CASE LoopStarts \/ Launch \/ Disconnect \/ StopSeen
  BY <1>0, <1>6 DEF LoopStarts, Launch, Disconnect, StopSeen, OfPanel
<1>7. CASE ThreadEnds
  <2>1. \A d \in ask' : \E c \in ask : d.page = c.page
    BY <1>0, <1>7 DEF ThreadEnds, PreviewTyped, Asked
  <2> QED BY <2>1, <1>0, <1>7 DEF ThreadEnds, OfPanel
<1>8. ASSUME NEW t \in onLoop, OpenBegins(t) PROVE NumbersGiven'
  <2>0. rows' = rows
    BY <1>8 DEF OpenBegins, OfPanel
  <2>1. CASE thread = "ready" /\ nextPage < MaxPages
    <3>1. /\ onLoop' = (onLoop \ {t}) \cup {[t EXCEPT !.page = nextPage]}
          /\ ask' = ask /\ openPages' = openPages \cup {nextPage} /\ nextPage' = nextPage + 1 /\ t.kind = "open"
      BY <1>8, <2>1 DEF OpenBegins
    <3>2. nextPage \in AnyPage /\ nextPage \in Nat
      BY <1>0, <2>1, PageNumbers DEF PreviewTyped, AnyPage
    <3>3. \A p \in AnyPage : p \in Nat
      BY PageNumbers
    <3>4. [t EXCEPT !.page = nextPage].page = nextPage /\ [t EXCEPT !.page = nextPage].kind = "open"
      BY <1>0, <3>1, <3>2, CallFields
    <3>5. /\ \A u \in onLoop : u.page \in Nat
          /\ \A c \in ask : c.page \in Nat
          /\ \A id \in rows \cup openPages : id \in Nat
      BY <1>0, <3>3, CallFields, PageNumbers DEF PreviewTyped
    <3> HIDE DEF NumbersGiven
    <3>6. \A id \in rows' \cup openPages' : id < nextPage'
      BY <1>0, <2>0, <3>1, <3>2, <3>5 DEF NumbersGiven
    <3>7. /\ \A u \in onLoop' : u.page # NoPage => u.page < nextPage'
          /\ \A u \in onLoop' : u.kind = "close" => u.page # NoPage
      <4> DEFINE w == [t EXCEPT !.page = nextPage]
      <4>1. \A u \in onLoop' : u \in onLoop \/ u = w
        BY <3>1
      <4>2. w.page = nextPage /\ w.kind = "open"
        BY <3>4
      <4> HIDE DEF w
      <4> QED BY <1>0, <3>1, <3>2, <3>5, <4>1, <4>2 DEF NumbersGiven
    <3>8. \A c \in ask' : c.page # NoPage => c.page < nextPage'
      BY <1>0, <3>1, <3>2, <3>5 DEF NumbersGiven
    <3> QED BY <3>6, <3>7, <3>8 DEF NumbersGiven
  <2>2. CASE ~(thread = "ready" /\ nextPage < MaxPages)
    <3>1. onLoop' = onLoop \ {t} /\ Replies(t, "error", NoPage) /\ UNCHANGED <<openPages, nextPage>>
      BY <1>8, <2>2 DEF OpenBegins
    <3>2. \A c \in ask' : c \in ask \/ c.page = NoPage
      BY <1>0, <3>1, RepliesTo DEF AnyPage
    <3> QED BY <1>0, <2>0, <3>1, <3>2
  <2> QED BY <2>1, <2>2
<1>9. ASSUME NEW t \in onLoop, OpenEnds(t) \/ CloseBegins(t) PROVE NumbersGiven'
  <2>1. \A c \in ask' : c \in ask \/ c.page \in {NoPage, t.page}
    <3>1. \E answer \in {"error", "page", "closed"}, id \in {NoPage, t.page} : Replies(t, answer, id)
      BY <1>9 DEF OpenEnds, CloseBegins
    <3>2. {NoPage, t.page} \subseteq AnyPage
      BY <1>0, CallFields DEF AnyPage
    <3> QED BY <1>0, <3>1, <3>2, RepliesTo
  <2>2. onLoop' \subseteq onLoop /\ openPages' \subseteq openPages /\ UNCHANGED <<rows, nextPage>>
    BY <1>9 DEF OpenEnds, CloseBegins, OfPanel
  <2> QED BY <1>0, <2>1, <2>2
<1>11. ASSUME NEW id \in PageId, CloseRow(id) PROVE NumbersGiven'
  <2>1. /\ \/ ask' = ask /\ onLoop' = onLoop
           \/ /\ ask' = {[kind |-> "close", page |-> id, answer |-> "none"]}
              /\ onLoop' = onLoop \cup {[kind |-> "close", page |-> id, waited |-> TRUE]}
        /\ rows' \subseteq rows /\ id \in rows /\ UNCHANGED <<openPages, nextPage>>
    BY <1>11 DEF CloseRow
  <2>2. id # NoPage /\ id < nextPage
    BY <1>0, <2>1, PageNumbers DEF AnyPage
  <2> QED BY <1>0, <2>1, <2>2
<1>12. ASSUME NEW id \in PageId, TabClosed(id) PROVE NumbersGiven'
  BY <1>0, <1>12 DEF TabClosed, OfPanel
<1>13. CASE UNCHANGED preview
  BY <1>0, <1>13 DEF preview
<1> QED BY <1>1, <1>2, <1>3, <1>4, <1>6, <1>7, <1>8, <1>9, <1>11, <1>12, <1>13 DEF PreviewNext


\* One is waited for
LEMMA PreviewWaited == PreviewInv /\ [PreviewNext]_preview => OneIsWaited'
<1> SUFFICES ASSUME PreviewInv, [PreviewNext]_preview PROVE OneIsWaited'
  OBVIOUS
<1>0. PreviewTyped /\ OneIsWaited /\ WaitsForLoop /\ NumbersGiven
  BY DEF PreviewInv
<1> USE DEF OneIsWaited
<1>1. CASE OpenPanel
  <2>1. ask' = {}
    BY <1>0, <1>1 DEF OpenPanel, WaitsForLoop
  <2> QED BY <2>1, <1>0, <1>1 DEF OpenPanel
<1>2. ASSUME NEW k \in {"open", "close"}, NEW p \in AnyPage, k = "close" \/ p = NoPage, ask = {},
             ask' = {[kind |-> k, page |-> p, answer |-> "none"]},
             onLoop' = onLoop \cup {[kind |-> k, page |-> p, waited |-> TRUE]}
      PROVE  OneIsWaited'
  <2> DEFINE c == [kind |-> k, page |-> p, answer |-> "none"]
             t == [kind |-> k, page |-> p, waited |-> TRUE]
  <2>1. c.kind = k /\ c.page = p /\ c.answer = "none" /\ t.kind = k /\ t.page = p /\ t.waited = TRUE
    OBVIOUS
  <2>2. \A u \in onLoop : ~u.waited
    BY <1>0, <1>2
  <2>3. ask' = {c} /\ onLoop' = onLoop \cup {t}
    BY <1>2
  <2> HIDE DEF c, t
  <2> QED BY <1>2, <2>1, <2>2, <2>3
<1>3. CASE Go
  <2>1. \/ ask' = ask /\ onLoop' = onLoop
        \/ /\ ask' = {[kind |-> "open", page |-> NoPage, answer |-> "none"]}
           /\ onLoop' = onLoop \cup {[kind |-> "open", page |-> NoPage, waited |-> TRUE]}
    BY <1>3 DEF Go
  <2>2. NoPage \in AnyPage /\ ask = {}
    BY <1>3 DEF AnyPage, Go, PanelFree
  <2> QED BY <1>0, <1>2, <2>1, <2>2
<1>4. CASE Answered
  <2>1. ask' = {} /\ \A u \in onLoop' : ~u.waited
    BY <1>0, <1>4, LeftAlone DEF Answered
  <2> QED BY <2>1
<1>5. CASE Notice \/ ClosePanel
  BY <1>0, <1>5 DEF Notice, ClosePanel, PanelFree
<1>6. CASE LoopStarts \/ Launch \/ Disconnect \/ StopSeen
  BY <1>0, <1>6 DEF LoopStarts, Launch, Disconnect, StopSeen, OfPanel
<1>7. CASE ThreadEnds
  <2>0. onLoop' = {}
    BY <1>7 DEF ThreadEnds
  <2>1. \A d \in ask' : \E c \in ask : \/ d = c
                                       \/ c.answer = "none" /\ d = [c EXCEPT !.answer = "error"]
    BY <1>7 DEF ThreadEnds
  <2>2. \A c \in ask : c \in Asked
    BY <1>0 DEF PreviewTyped
  <2>3. \A c \in ask : /\ [c EXCEPT !.answer = "error"].kind = c.kind /\ [c EXCEPT !.answer = "error"].page = c.page
                       /\ [c EXCEPT !.answer = "error"].answer = "error"
    BY <2>2 DEF Asked
  <2>4. \A d \in ask' : \E c \in ask : \/ d = c
                                       \/ d.kind = c.kind /\ d.page = c.page /\ c.answer = "none" /\ d.answer = "error"
    <3> SUFFICES ASSUME NEW d \in ask'
                 PROVE  \E c \in ask : \/ d = c
                                       \/ d.kind = c.kind /\ d.page = c.page /\ c.answer = "none" /\ d.answer = "error"
      OBVIOUS
    <3>1. PICK c \in ask : d = c \/ (c.answer = "none" /\ d = [c EXCEPT !.answer = "error"])
      BY <2>1
    <3>2. CASE d = c
      BY <3>2
    <3>3. CASE c.answer = "none" /\ d = [c EXCEPT !.answer = "error"]
      BY <2>3, <3>3
    <3> QED BY <3>1, <3>2, <3>3
  <2>5. \A c, d \in ask' : c = d
    BY <1>0, <1>7 DEF ThreadEnds
  <2>6. \A d \in ask' : /\ d.kind = "open" /\ d.page # NoPage => d.answer = "page"
                        /\ d.answer = "page" => d.kind = "open" /\ d.page # NoPage
    BY <1>0, <2>4
  <2> QED BY <2>0, <2>5, <2>6
<1>8. ASSUME NEW t \in onLoop, NEW rest, rest \subseteq onLoop \ {t}, NEW answer \in {"error", "page", "closed"}, NEW id \in AnyPage,
             Replies(t, answer, id), onLoop' = rest,
             t.kind = "open" => (answer = "page" /\ id # NoPage) \/ (answer = "error" /\ id = NoPage),
             t.kind = "close" => answer = "closed"
      PROVE  OneIsWaited'
  <2>1. CASE ~t.waited /\ ask' = ask
    BY <1>0, <1>8, <2>1
  <2>2. ASSUME t.waited, NEW c \in ask, NEW d \in Asked, ask = {c}, ask' = {d}, c.kind = t.kind, c.answer = "none",
               d.kind = c.kind, d.answer = answer, d.page = id
        PROVE  OneIsWaited'
    <3>1. \A u \in onLoop' : ~u.waited
      BY <1>0, <1>8, <2>2
    <3>2. t.kind \in {"open", "close"}
      BY <1>0, CallFields
    <3> QED BY <1>8, <2>2, <3>1, <3>2
  <2> QED BY <1>0, <1>8, <2>1, <2>2, RepliesTo
<1>9. ASSUME NEW t \in onLoop, OpenBegins(t) PROVE OneIsWaited'
  <2>1. CASE thread = "ready" /\ nextPage < MaxPages
    <3> DEFINE w == [t EXCEPT !.page = nextPage]
    <3>1. onLoop' = (onLoop \ {t}) \cup {w} /\ ask' = ask /\ t.kind = "open"
      BY <1>9, <2>1 DEF OpenBegins
    <3>2. nextPage \in AnyPage
      BY <1>0, <2>1, PageNumbers DEF PreviewTyped, AnyPage
    <3>3. w.kind = t.kind /\ w.waited = t.waited
      BY <1>0, <3>2, CallFields
    <3> HIDE DEF w
    <3> QED BY <1>0, <3>1, <3>3
  <2>2. CASE ~(thread = "ready" /\ nextPage < MaxPages)
    <3>1. onLoop' = onLoop \ {t} /\ Replies(t, "error", NoPage) /\ t.kind = "open"
      BY <1>9, <2>2 DEF OpenBegins
    <3> QED BY <1>8, <3>1 DEF AnyPage
  <2> QED BY <2>1, <2>2
<1>10. ASSUME NEW t \in onLoop, OpenEnds(t) PROVE OneIsWaited'
  <2>1. /\ onLoop' = onLoop \ {t} /\ t.kind = "open" /\ t.page # NoPage
        /\ Replies(t, "page", t.page) \/ Replies(t, "error", NoPage)
    BY <1>10 DEF OpenEnds
  <2>2. t.page \in AnyPage /\ NoPage \in AnyPage
    BY <1>0, CallFields DEF AnyPage
  <2> QED BY <1>8, <2>1, <2>2
<1>11. ASSUME NEW t \in onLoop, CloseBegins(t) PROVE OneIsWaited'
  <2>1. onLoop' = onLoop \ {t} /\ t.kind = "close" /\ Replies(t, "closed", t.page)
    BY <1>11 DEF CloseBegins
  <2>2. t.page \in AnyPage
    BY <1>0, CallFields
  <2> QED BY <1>8, <2>1, <2>2
<1>12. ASSUME NEW id \in PageId, CloseRow(id) PROVE OneIsWaited'
  <2>1. /\ \/ ask' = ask /\ onLoop' = onLoop
           \/ /\ ask' = {[kind |-> "close", page |-> id, answer |-> "none"]}
              /\ onLoop' = onLoop \cup {[kind |-> "close", page |-> id, waited |-> TRUE]}
        /\ ask = {}
    BY <1>12 DEF CloseRow, PanelFree
  <2>2. id \in AnyPage
    BY DEF AnyPage
  <2> QED BY <1>0, <1>2, <2>1, <2>2
<1>13. ASSUME NEW id \in PageId, TabClosed(id) PROVE OneIsWaited'
  BY <1>0, <1>13 DEF TabClosed, OfPanel
<1>14. CASE UNCHANGED preview
  BY <1>0, <1>14 DEF preview
<1> QED BY <1>1, <1>3, <1>4, <1>5, <1>6, <1>7, <1>9, <1>10, <1>11, <1>12, <1>13, <1>14 DEF PreviewNext

\* Who waits
LEMMA PreviewWaits == PreviewInv /\ [PreviewNext]_preview => WaitsForLoop'
<1> SUFFICES ASSUME PreviewInv, [PreviewNext]_preview PROVE WaitsForLoop'
  OBVIOUS
<1>0. PreviewTyped /\ OneIsWaited /\ WaitsForLoop /\ NumbersGiven
  BY DEF PreviewInv
<1> USE DEF WaitsForLoop
<1>1. CASE OpenPanel
  BY <1>0, <1>1 DEF OpenPanel
<1>2. CASE Go
  BY <1>0, <1>2 DEF Go, PanelFree, LoopRuns
<1>3. CASE Answered
  BY <1>0, <1>3 DEF Answered
<1>4. CASE Notice
  <2>1. ask' = {} /\ notices # <<>> /\ notices \in Seq(AnyPage) /\ notices' = Tail(notices)
    BY <1>0, <1>4 DEF Notice, PanelFree, PreviewTyped
  <2>2. CASE Head(notices) = NoPage
    BY <2>1, <2>2, <1>4 DEF Notice
  <2>3. CASE Head(notices) # NoPage
    <3>1. Contains(notices, NoPage) => Contains(notices', NoPage)
      BY <2>1, <2>3, Queued
    <3> QED BY <2>1, <2>3, <3>1, <1>4, <1>0 DEF Notice
  <2> QED BY <2>2, <2>3
<1>5. CASE ClosePanel
  BY <1>0, <1>5 DEF ClosePanel, PanelFree
<1>6. CASE LoopStarts \/ Launch \/ Disconnect \/ StopSeen
  BY <1>0, <1>6 DEF LoopStarts, Launch, Disconnect, StopSeen, OfPanel
<1>7. CASE ThreadEnds
  <2>1. Contains(notices', NoPage)
    BY <1>0, <1>7, Queued DEF ThreadEnds, PreviewTyped, AnyPage
  <2> QED BY <1>0, <1>7, <2>1 DEF ThreadEnds, OfPanel
<1>8. ASSUME NEW t \in onLoop, OpenBegins(t) \/ OpenEnds(t) \/ CloseBegins(t) PROVE WaitsForLoop'
  <2>1. \/ ask' = ask
        \/ \E answer \in {"error", "page", "closed"}, id \in AnyPage :
             Replies(t, answer, id) /\ (answer = "page" => thread = "ready")
    BY <1>0, <1>8, CallFields DEF OpenBegins, OpenEnds, CloseBegins, AnyPage
  <2>2. UNCHANGED <<panel, session, thread, notices>>
    BY <1>8 DEF OpenBegins, OpenEnds, CloseBegins, OfPanel
  <2>3. /\ ask' # {} => ask # {}
        /\ \A c \in ask' : c.answer = "page" => c \in ask \/ thread = "ready"
    BY <1>0, <2>1, RepliesTo
  <2> QED BY <1>0, <2>2, <2>3
<1>11. ASSUME NEW id \in PageId, CloseRow(id) PROVE WaitsForLoop'
  BY <1>0, <1>11 DEF CloseRow, PanelFree, LoopRuns
<1>12. ASSUME NEW id \in PageId, TabClosed(id) PROVE WaitsForLoop'
  <2>1. Contains(notices, NoPage) => Contains(notices', NoPage)
    BY <1>0, <1>12, Queued DEF TabClosed, PreviewTyped, AnyPage
  <2> QED BY <1>0, <1>12, <2>1 DEF TabClosed, OfPanel
<1>13. CASE UNCHANGED preview
  BY <1>0, <1>13 DEF preview
<1> QED BY <1>1, <1>2, <1>3, <1>4, <1>5, <1>6, <1>7, <1>8, <1>11, <1>12, <1>13 DEF PreviewNext

\* The ends of a page
LEMMA PreviewEnds == PreviewInv /\ [PreviewNext]_preview => PagesHaveOneEnd'
<1> SUFFICES ASSUME PreviewInv, [PreviewNext]_preview PROVE PagesHaveOneEnd'
  OBVIOUS
<1>0. PreviewTyped /\ OneIsWaited /\ WaitsForLoop /\ NumbersGiven /\ PagesHaveOneEnd
  BY DEF PreviewInv
<1> USE DEF PagesHaveOneEnd
<1>1. CASE OpenPanel
  BY <1>1 DEF OpenPanel
<1>2. ASSUME NEW k \in {"open", "close"}, NEW p \in AnyPage, k = "open" => p = NoPage, k = "close" => p \in rows,
             ask = {}, ask' = {[kind |-> k, page |-> p, answer |-> "none"]},
             onLoop' = onLoop \cup {[kind |-> k, page |-> p, waited |-> TRUE]}, rows' = rows
      PROVE  PagesHaveOneEnd'
  <2> DEFINE t == [kind |-> k, page |-> p, waited |-> TRUE]
  <2>1. t.kind = k /\ t.page = p /\ t.waited = TRUE
    OBVIOUS
  <2>2. \A c \in ask' : c.answer # "page"
    BY <1>2
  <2>3. onLoop' = onLoop \cup {t}
    BY <1>2
  <2>4. NoPage \notin rows
    BY <1>0, PageNumbers DEF PreviewTyped, AnyPage
  <2>5. \A u \in onLoop : u.kind = "close" => u.page # NoPage
    BY <1>0 DEF NumbersGiven
  <2> HIDE DEF t
  <2> QED BY <1>0, <1>2, <2>1, <2>2, <2>3, <2>4, <2>5
<1>3. CASE Go
  <2>1. \/ ask' = ask /\ onLoop' = onLoop
        \/ /\ ask' = {[kind |-> "open", page |-> NoPage, answer |-> "none"]}
           /\ onLoop' = onLoop \cup {[kind |-> "open", page |-> NoPage, waited |-> TRUE]}
    BY <1>3 DEF Go
  <2>2. NoPage \in AnyPage /\ ask = {} /\ rows' = rows
    BY <1>3 DEF AnyPage, Go, PanelFree
  <2> QED BY <1>0, <1>2, <2>1, <2>2
<1>4. CASE Answered
  <2>1. PICK c \in ask : /\ \/ c.answer # "none" /\ UNCHANGED onLoop
                            \/ c.answer = "none" /\ onLoop' = {[t EXCEPT !.waited = FALSE] : t \in onLoop}
                         /\ rows' = IF c.kind = "close" THEN rows \ {c.page}
                                    ELSE IF c.answer = "page" THEN rows \cup {c.page} ELSE rows
    BY <1>4 DEF Answered
  <2>2. ask' = {}
    BY <1>4 DEF Answered
  <2>3. \A u \in onLoop' : \E t \in onLoop : u.page = t.page /\ u.kind = t.kind
    BY <1>0, <1>4, LeftAlone
  <2>4. \A id \in rows' : id \in rows \/ (c.answer = "page" /\ id = c.page)
    <3>1. CASE c.kind = "close"
      BY <2>1, <3>1
    <3>2. CASE c.kind # "close" /\ c.answer = "page"
      BY <2>1, <3>2
    <3>3. CASE c.kind # "close" /\ c.answer # "page"
      BY <2>1, <3>3
    <3> QED BY <3>1, <3>2, <3>3
  <2>5. \A t \in onLoop : t.kind = "open" => t.page \notin rows'
    BY <1>0, <2>4
  <2>6. ASSUME NEW t \in onLoop, t.kind = "close" PROVE t.page \notin rows'
    <3>1. CASE t.waited
      <4>1. c.kind = "close" /\ c.page = t.page
        BY <1>0, <3>1, <2>6 DEF OneIsWaited
      <4> QED BY <2>1, <4>1
    <3>2. CASE ~t.waited
      BY <1>0, <2>4, <2>6, <3>2
    <3> QED BY <3>1, <3>2
  <2>7. ASSUME NEW u \in onLoop', NEW v \in onLoop', u.kind = "open", v.kind = "open", u.page = v.page, u.page # NoPage
        PROVE  u = v
    <3>1. CASE onLoop' = onLoop
      BY <1>0, <2>7, <3>1
    <3>2. CASE onLoop' # onLoop
      <4>1. PICK t \in onLoop : u = [t EXCEPT !.waited = FALSE]
        BY <1>0, <1>4, <3>2, LeftAlone
      <4>2. PICK w \in onLoop : v = [w EXCEPT !.waited = FALSE]
        BY <1>0, <1>4, <3>2, LeftAlone
      <4>3. t.kind = "open" /\ w.kind = "open" /\ t.page = u.page /\ w.page = v.page
        BY <1>0, <2>7, <4>1, <4>2, CallFields
      <4>4. t = w
        BY <1>0, <2>7, <4>3
      <4> QED BY <4>1, <4>2, <4>4
    <3> QED BY <3>1, <3>2
  <2>8. \A u, v \in onLoop' : u.kind = "open" /\ v.kind = "close" => u.page # v.page
    BY <1>0, <2>3
  <2>9. \A u \in onLoop' : u.page \notin rows' \/ u.kind \notin {"open", "close"}
    BY <2>3, <2>5, <2>6
  <2> QED BY <2>2, <2>7, <2>8, <2>9
<1>5. CASE Notice \/ ClosePanel
  BY <1>0, <1>5 DEF Notice, ClosePanel, PanelFree
<1>6. CASE LoopStarts \/ Launch \/ Disconnect \/ StopSeen
  BY <1>0, <1>6 DEF LoopStarts, Launch, Disconnect, StopSeen, OfPanel
<1>7. CASE ThreadEnds
  BY <1>7 DEF ThreadEnds
<1>8. ASSUME NEW t \in onLoop, NEW answer \in {"error", "page", "closed"}, NEW id \in AnyPage,
             Replies(t, answer, id), onLoop' = onLoop \ {t}, rows' = rows,
             answer = "page" => t.kind = "open" /\ id = t.page /\ id # NoPage
      PROVE  PagesHaveOneEnd'
  <2>1. \A d \in ask' : d.answer = "page" => d \in ask \/ (answer = "page" /\ d.page = id)
    BY <1>0, <1>8, RepliesTo
  <2>2. \A u \in onLoop' : answer = "page" => u.page # id
    <3> SUFFICES ASSUME NEW u \in onLoop', answer = "page" PROVE u.page # id
      OBVIOUS
    <3>1. u \in onLoop /\ u # t /\ u.kind \in {"open", "close"}
      BY <1>0, <1>8, CallFields
    <3> QED BY <1>0, <1>8, <3>1
  <2> QED BY <1>0, <1>8, <2>1, <2>2
<1>9. ASSUME NEW t \in onLoop, OpenBegins(t) PROVE PagesHaveOneEnd'
  <2>0. rows' = rows
    BY <1>9 DEF OpenBegins, OfPanel
  <2>1. CASE thread = "ready" /\ nextPage < MaxPages
    <3> DEFINE w == [t EXCEPT !.page = nextPage]
    <3>1. onLoop' = (onLoop \ {t}) \cup {w} /\ ask' = ask /\ t.kind = "open"
      BY <1>9, <2>1 DEF OpenBegins
    <3>2. nextPage \in AnyPage /\ nextPage \in Nat /\ nextPage # NoPage
      BY <1>0, <2>1, PageNumbers DEF PreviewTyped, AnyPage, NoPage
    <3>3. w.kind = "open" /\ w.page = nextPage
      BY <1>0, <3>1, <3>2, CallFields
    <3>4. nextPage \notin rows /\ (\A u \in onLoop : u.page # nextPage) /\ (\A c \in ask : c.page # nextPage)
      BY <1>0, <3>2, CallFields, PageNumbers DEF NumbersGiven, PreviewTyped
    <3> HIDE DEF w
    <3> QED BY <1>0, <2>0, <3>1, <3>3, <3>4
  <2>2. CASE ~(thread = "ready" /\ nextPage < MaxPages)
    <3>1. onLoop' = onLoop \ {t} /\ Replies(t, "error", NoPage)
      BY <1>9, <2>2 DEF OpenBegins
    <3> QED BY <1>8, <2>0, <3>1 DEF AnyPage
  <2> QED BY <2>1, <2>2
<1>10. ASSUME NEW t \in onLoop, OpenEnds(t) PROVE PagesHaveOneEnd'
  <2>1. /\ onLoop' = onLoop \ {t} /\ t.kind = "open" /\ t.page # NoPage /\ rows' = rows
        /\ Replies(t, "page", t.page) \/ Replies(t, "error", NoPage)
    BY <1>10 DEF OpenEnds, OfPanel
  <2>2. t.page \in AnyPage /\ NoPage \in AnyPage
    BY <1>0, CallFields DEF AnyPage
  <2> QED BY <1>8, <2>1, <2>2
<1>11. ASSUME NEW t \in onLoop, CloseBegins(t) PROVE PagesHaveOneEnd'
  <2>1. onLoop' = onLoop \ {t} /\ Replies(t, "closed", t.page) /\ rows' = rows
    BY <1>11 DEF CloseBegins, OfPanel
  <2>2. t.page \in AnyPage
    BY <1>0, CallFields
  <2> QED BY <1>8, <2>1, <2>2
<1>12. ASSUME NEW id \in PageId, CloseRow(id) PROVE PagesHaveOneEnd'
  <2>1. /\ \/ ask' = ask /\ onLoop' = onLoop /\ rows' \subseteq rows
           \/ /\ ask' = {[kind |-> "close", page |-> id, answer |-> "none"]}
              /\ onLoop' = onLoop \cup {[kind |-> "close", page |-> id, waited |-> TRUE]}
              /\ rows' = rows
        /\ ask = {} /\ id \in rows
    BY <1>12 DEF CloseRow, PanelFree
  <2>2. id \in AnyPage
    BY DEF AnyPage
  <2> QED BY <1>0, <1>2, <2>1, <2>2
<1>13. ASSUME NEW id \in PageId, TabClosed(id) PROVE PagesHaveOneEnd'
  BY <1>0, <1>13 DEF TabClosed, OfPanel
<1>14. CASE UNCHANGED preview
  BY <1>0, <1>14 DEF preview
<1> QED BY <1>1, <1>3, <1>4, <1>5, <1>6, <1>7, <1>9, <1>10, <1>11, <1>12, <1>13, <1>14 DEF PreviewNext

\* What the list shows
LEMMA PreviewRows == PreviewInv /\ [PreviewNext]_preview => RowsAreOpen'
<1> SUFFICES ASSUME PreviewInv, [PreviewNext]_preview PROVE RowsAreOpen'
  OBVIOUS
<1>0. PreviewTyped /\ OneIsWaited /\ WaitsForLoop /\ NumbersGiven /\ PagesHaveOneEnd /\ RowsAreOpen /\ ToldIsOpen
  BY DEF PreviewInv, PreviewSound
<1> DEFINE Ending(id) == Contains(notices, id) \/ Contains(notices, NoPage) \/ thread = "cleaning"
<1>a. \A id \in rows : id \in openPages \/ Ending(id) \/ \E c \in ask : c.page = id
  BY <1>0 DEF RowsAreOpen
<1>b. ASSUME \A id \in rows' : id \in openPages' \/ Ending(id)' \/ \E c \in ask' : c.page = id
      PROVE  RowsAreOpen'
  BY <1>b DEF RowsAreOpen
<1> HIDE DEF Ending
<1>r. \A id \in rows : id \in PageId /\ id # NoPage
  BY <1>0, PageNumbers DEF PreviewTyped, AnyPage
<1>1. CASE OpenPanel \/ ClosePanel
  BY <1>1, <1>b DEF OpenPanel, ClosePanel
<1>2. CASE Go
  BY <1>a, <1>b, <1>2 DEF Go, PanelFree, Ending
<1>3. CASE Answered
  <2>1. PICK c \in ask : rows' = IF c.kind = "close" THEN rows \ {c.page}
                                 ELSE IF c.answer = "page" THEN rows \cup {c.page} ELSE rows
    BY <1>3 DEF Answered
  <2>2. \A d \in ask : d = c
    BY <1>0 DEF OneIsWaited
  <2>3. UNCHANGED <<openPages, notices, thread>>
    BY <1>3 DEF Answered
  <2>4. \A id : Ending(id)' <=> Ending(id)
    BY <2>3 DEF Ending
  <2>5. CASE c.kind = "close"
    <3>1. \A id \in rows' : id \in rows /\ id # c.page
      BY <2>1, <2>5
    <3> QED BY <1>a, <1>b, <2>2, <2>3, <2>4, <3>1
  <2>6. CASE c.kind # "close" /\ c.answer = "page"
    <3>1. \A id \in rows' : (id \in rows /\ id # c.page) \/ id = c.page
      BY <2>1, <2>6
    <3>2. c.page \in openPages \/ Ending(c.page)
      <4>1. c.page \in openPages \/ Contains(notices, c.page) \/ thread # "ready"
        BY <1>0, <2>6 DEF ToldIsOpen
      <4>2. thread \in {"ready", "cleaning", "ended"}
        BY <1>0, <2>6 DEF WaitsForLoop
      <4>3. thread = "ended" => Contains(notices, NoPage)
        BY <1>0 DEF WaitsForLoop
      <4> QED BY <4>1, <4>2, <4>3 DEF Ending
    <3> QED BY <1>a, <1>b, <2>2, <2>3, <2>4, <3>1, <3>2
  <2>7. CASE c.kind # "close" /\ c.answer # "page"
    <3>1. rows' = rows /\ c.kind = "open"
      BY <1>0, <2>1, <2>7, CallFields
    <3>2. c.page = NoPage
      BY <1>0, <2>7, <3>1 DEF OneIsWaited
    <3> QED BY <1>a, <1>b, <1>r, <2>2, <2>3, <2>4, <3>1, <3>2
  <2> QED BY <2>5, <2>6, <2>7
<1>4. CASE Notice
  <2>1. ask = {} /\ ask' = {} /\ notices # <<>> /\ notices \in Seq(AnyPage) /\ notices' = Tail(notices) /\ openPages' = openPages
    BY <1>0, <1>4 DEF Notice, PanelFree, PreviewTyped
  <2>2. CASE Head(notices) = NoPage
    BY <2>2, <1>4, <1>b DEF Notice
  <2>3. CASE Head(notices) # NoPage
    <3>1. \A x : Contains(notices, x) /\ x # Head(notices) => Contains(notices', x)
      BY <2>1, Queued
    <3>2. rows' = rows \ {Head(notices)} /\ thread' = thread
      BY <2>3, <1>4 DEF Notice
    <3> QED BY <1>a, <1>b, <2>1, <2>3, <3>1, <3>2 DEF Ending
  <2> QED BY <2>2, <2>3
<1>6. CASE LoopStarts \/ Launch \/ Disconnect \/ StopSeen
  BY <1>a, <1>b, <1>6 DEF LoopStarts, Launch, Disconnect, StopSeen, OfPanel, Ending
<1>7. CASE ThreadEnds
  <2>1. Contains(notices', NoPage)
    BY <1>0, <1>7, Queued DEF ThreadEnds, PreviewTyped, AnyPage
  <2> QED BY <2>1, <1>b DEF Ending
<1>8. ASSUME NEW t \in onLoop, OpenBegins(t) \/ OpenEnds(t) \/ CloseBegins(t) PROVE RowsAreOpen'
  <2>1. UNCHANGED <<rows, notices, thread>>
    BY <1>8 DEF OpenBegins, OpenEnds, CloseBegins, OfPanel
  <2>2. \A id : Ending(id)' <=> Ending(id)
    BY <2>1 DEF Ending
  <2>3. CASE t.kind = "open"
    <3>1. \A id \in rows : id \in openPages => id \in openPages'
      BY <1>0, <1>8, <2>3 DEF OpenBegins, OpenEnds, CloseBegins, PagesHaveOneEnd
    <3>2. \/ ask' = ask
          \/ \E answer \in {"error", "page", "closed"}, id \in AnyPage : Replies(t, answer, id)
      BY <1>0, <1>8, CallFields DEF OpenBegins, OpenEnds, CloseBegins, AnyPage
    <3>3. \/ ask' = ask
          \/ \E c \in ask : c.page = NoPage /\ ask = {c}
      BY <1>0, <2>3, <3>2, RepliesTo DEF OneIsWaited
    <3> QED BY <1>a, <1>b, <1>r, <2>1, <2>2, <3>1, <3>3
  <2>4. CASE t.kind = "close"
    <3>1. openPages' = openPages \ {t.page} /\ Replies(t, "closed", t.page)
      BY <1>8, <2>4 DEF OpenBegins, OpenEnds, CloseBegins
    <3>2. t.page \in AnyPage
      BY <1>0, CallFields
    <3>3. CASE ~t.waited
      <4>1. ask' = ask /\ t.page \notin rows
        BY <1>0, <2>4, <3>1, <3>3 DEF Replies, PagesHaveOneEnd
      <4> QED BY <1>a, <1>b, <2>1, <2>2, <3>1, <4>1
    <3>4. CASE t.waited
      <4>1. PICK c \in ask, d \in Asked : ask = {c} /\ ask' = {d} /\ c.kind = t.kind /\ (c.kind = "close" => c.page = t.page) /\ d.page = t.page
        BY <1>0, <3>1, <3>2, <3>4, RepliesTo
      <4> QED BY <1>a, <1>b, <2>1, <2>2, <2>4, <3>1, <4>1
    <3> QED BY <3>3, <3>4
  <2> QED BY <1>0, <2>3, <2>4, CallFields
<1>11. ASSUME NEW id \in PageId, CloseRow(id) PROVE RowsAreOpen'
  <2>1. ask = {} /\ rows' \subseteq rows /\ UNCHANGED <<openPages, notices, thread>>
    BY <1>11 DEF CloseRow, PanelFree
  <2>2. \A x : Ending(x)' <=> Ending(x)
    BY <2>1 DEF Ending
  <2> QED BY <1>a, <1>b, <2>1, <2>2
<1>12. ASSUME NEW id \in PageId, TabClosed(id) PROVE RowsAreOpen'
  <2>1. /\ Contains(notices', id)
        /\ \A x : Contains(notices, x) => Contains(notices', x)
    BY <1>0, <1>12, Queued DEF TabClosed, PreviewTyped, AnyPage
  <2>2. openPages' = openPages \ {id} /\ UNCHANGED <<rows, ask, thread>>
    BY <1>12 DEF TabClosed, OfPanel
  <2> QED BY <1>a, <1>b, <2>1, <2>2 DEF Ending
<1>13. CASE UNCHANGED preview
  BY <1>0, <1>13 DEF preview, RowsAreOpen
<1> QED BY <1>1, <1>2, <1>3, <1>4, <1>6, <1>7, <1>8, <1>11, <1>12, <1>13 DEF PreviewNext

\* What the panel is told, and its button
LEMMA PreviewTold == PreviewInv /\ [PreviewNext]_preview => ToldIsOpen' /\ GoComesBack'
<1> SUFFICES ASSUME PreviewInv, [PreviewNext]_preview PROVE ToldIsOpen' /\ GoComesBack'
  OBVIOUS
<1>0. PreviewTyped /\ OneIsWaited /\ WaitsForLoop /\ NumbersGiven /\ PagesHaveOneEnd /\ ToldIsOpen /\ GoComesBack
  BY DEF PreviewInv, PreviewSound
<1> USE DEF ToldIsOpen, GoComesBack
<1>1. CASE OpenPanel \/ ClosePanel
  BY <1>0, <1>1 DEF OpenPanel, ClosePanel, PanelFree, WaitsForLoop
<1>2. CASE Go
  <2>1. ask = {} /\ \/ /\ ask' = {} /\ loading' = (session = "disposed") /\ session' = session
                    \/ ask' = {[kind |-> "open", page |-> NoPage, answer |-> "none"]}
    BY <1>2 DEF Go, PanelFree
  <2>2. CASE ask' = {} /\ loading' = (session = "disposed") /\ session' = session
    BY <2>2, Zenon
  <2>3. CASE ask' = {[kind |-> "open", page |-> NoPage, answer |-> "none"]}
    <3>1. \A c \in ask' : c.kind = "open" /\ c.answer = "none"
      BY <2>3
    <3>2. \E c \in ask' : c.kind = "open"
      BY <2>3, <3>1
    <3> QED BY <3>1, <3>2
  <2> QED BY <2>1, <2>2, <2>3
<1>3. CASE Answered
  BY <1>3 DEF Answered
<1>4. CASE Notice
  BY <1>0, <1>4 DEF Notice, PanelFree
<1>6. CASE LoopStarts \/ Launch \/ Disconnect \/ StopSeen
  BY <1>0, <1>6 DEF LoopStarts, Launch, Disconnect, StopSeen, OfPanel, WaitsForLoop
<1>7. CASE ThreadEnds
  <2>1. \A c \in ask : c \in Asked
    BY <1>0 DEF PreviewTyped
  <2>2. \A c \in ask : [c EXCEPT !.answer = "error"].kind = c.kind
    BY <2>1 DEF Asked
  <2>3. ask' = {IF c.answer = "none" /\ \E t \in onLoop : t.waited THEN [c EXCEPT !.answer = "error"] ELSE c : c \in ask}
    BY <1>7 DEF ThreadEnds
  <2>4. \A c \in ask : \E d \in ask' : d.kind = c.kind
    BY <2>2, <2>3
  <2>5. UNCHANGED <<loading, session>> /\ thread' = "ended"
    BY <1>7 DEF ThreadEnds, OfPanel
  <2> QED BY <1>0, <2>4, <2>5
<1>8. ASSUME NEW t \in onLoop, OpenBegins(t) \/ OpenEnds(t) \/ CloseBegins(t) PROVE ToldIsOpen' /\ GoComesBack'
  <2>1. UNCHANGED <<loading, session, notices, thread>>
    BY <1>8 DEF OpenBegins, OpenEnds, CloseBegins, OfPanel
  <2>2. \/ ask' = ask
        \/ \E answer \in {"error", "page", "closed"}, id \in AnyPage :
             /\ Replies(t, answer, id)
             /\ answer = "page" => id \in openPages'
    BY <1>0, <1>8, CallFields DEF OpenBegins, OpenEnds, CloseBegins, AnyPage
  <2>3. /\ \A d \in ask' : d.answer = "page" => d \in ask \/ d.page \in openPages'
        /\ \A c \in ask : \E d \in ask' : d.kind = c.kind
    BY <1>0, <2>2, RepliesTo
  <2>4. \A c \in ask : c.answer = "page" /\ c.page \in openPages => c.page \in openPages'
    BY <1>0, <1>8 DEF OpenBegins, OpenEnds, CloseBegins, PagesHaveOneEnd
  <2> QED BY <1>0, <2>1, <2>3, <2>4
<1>11. ASSUME NEW id \in PageId, CloseRow(id) PROVE ToldIsOpen' /\ GoComesBack'
  <2>1. /\ ask = {} /\ session = "live" /\ UNCHANGED <<loading, session>>
        /\ ask' = {} \/ ask' = {[kind |-> "close", page |-> id, answer |-> "none"]}
    BY <1>11 DEF CloseRow, PanelFree
  <2> QED BY <1>0, <2>1
<1>12. ASSUME NEW id \in PageId, TabClosed(id) PROVE ToldIsOpen' /\ GoComesBack'
  <2>1. /\ Contains(notices', id)
        /\ \A x : Contains(notices, x) => Contains(notices', x)
    BY <1>0, <1>12, Queued DEF TabClosed, PreviewTyped, AnyPage
  <2>2. openPages' = openPages \ {id} /\ UNCHANGED <<loading, session, ask, thread>>
    BY <1>12 DEF TabClosed, OfPanel
  <2> QED BY <1>0, <2>1, <2>2
<1>13. CASE UNCHANGED preview
  BY <1>0, <1>13 DEF preview
<1> QED BY <1>1, <1>2, <1>3, <1>4, <1>6, <1>7, <1>8, <1>11, <1>12, <1>13 DEF PreviewNext

\* The panel lists pages that are open, or word of their end is on its way; what it is told
\* was opened is; and its button comes back, for any number of pages, panels and calls.
THEOREM PreviewShowsPages == PreviewSpec => []PreviewSound
<1>1. PreviewInv /\ [PreviewNext]_preview => PreviewInv'
  BY PreviewTypes, PreviewNumbers, PreviewWaited, PreviewWaits, PreviewEnds, PreviewRows, PreviewTold DEF PreviewInv, PreviewSound
<1>2. PreviewInv => PreviewSound
  BY DEF PreviewInv
<1> QED BY PreviewStarts, <1>1, <1>2, PTL DEF PreviewSpec

-----------------------------------------------------------------------------
(* The window and the commands that manage rules                             *)

Who == {"window", "shell"}

\* What is on the disk and in the hands of the two processes
DeskTyped ==
  /\ disk \in [FilePlaces -> RuleText \cup {NoRule}]
  /\ off \in {NoState} \cup SUBSET DeskNames
  /\ ticks \in [DOMAIN ticks -> BOOLEAN] /\ DOMAIN ticks \subseteq DeskNames /\ applying \subseteq DOMAIN ticks
  /\ wish \in [DOMAIN wish -> BOOLEAN]
  /\ readOff \in [Who -> SUBSET SUBSET DeskNames]
  /\ \A c \in shell : /\ c.kind = "switch" => c.names \subseteq DeskNames /\ c.on \in BOOLEAN
                      /\ c.kind = "bring" => c.place \in Home /\ c.rule \in RuleText

\* No sheet is for a file of the package's or of a remote source's.
PaperIsMine == \A sheet \in paper : sheet.place # NoRule => sheet.place \notin Preset

\* Who holds the lock has read what the file says, nobody else has read anything, and
\* the file says what was written last.
LockReads ==
  /\ \A who \in Who : readOff[who] = IF stateLock = who THEN {OffNow} ELSE {}
  /\ OffNow = {n \in DOMAIN wish : ~wish[n]}

DeskInv == DeskTyped /\ PaperIsMine /\ LockReads /\ ShownIsThere /\ PresetsUntouched

-----------------------------------------------------------------------------
\* The snapshot is made of what is on the disk and of nothing else.
LEMMA SameSnapshot == UNCHANGED <<disk, off, dirs, dirsOn>> => ByName' = ByName
BY DEF ByName, SameName, Better, First, DeskLoads, DeskReads, SourceRank

\* Where a rule is saved is never a file that came with the program.
LEMMA SavedElsewhere ==
  ASSUME DeskTyped, PaperIsMine, PresetsUntouched, NEW sheet \in paper, NEW r \in RuleText, Saved(sheet, r)
  PROVE  /\ disk' \in [FilePlaces -> RuleText \cup {NoRule}]
         /\ \A p \in Preset : disk'[p] = Shipped[p]
<1>1. SavesTo(sheet, r) \notin Preset
  <2>1. CASE sheet.place # NoRule
    BY <2>1 DEF SavesTo, PaperIsMine
  <2>2. CASE sheet.place = NoRule
    <3>1. SavesTo(sheet, r) = CHOOSE h \in Home : h[2] = r.name
      BY <2>2 DEF SavesTo
    <3>2. \E h \in Home : h[2] = r.name
      BY DeskAssumption
    <3>3. SavesTo(sheet, r) \in Home
      BY <3>1, <3>2
    <3> QED BY <3>3, DeskAssumption
  <2> QED BY <2>1, <2>2
<1>2. disk' = [disk EXCEPT ![SavesTo(sheet, r)] = r]
  BY DEF Saved
<1> QED BY <1>1, <1>2 DEF DeskTyped, PresetsUntouched, FilePlaces

\* What is read under the lock is a set of names.
LEMMA OffNames ==
  ASSUME DeskTyped
  PROVE  OffNow \subseteq DeskNames /\ (off # NoState => OffNow = off)
BY DEF DeskTyped, OffNow

\* The locked read
LEMMA LockTaken ==
  ASSUME DeskTyped, LockReads, NEW who \in Who, LockState(who), UNCHANGED <<off, wish>>
  PROVE  readOff' \in [Who -> SUBSET SUBSET DeskNames] /\ LockReads'
<1>1. OffNow' = OffNow /\ OffNow \in SUBSET DeskNames
  BY OffNames DEF OffNow
<1>2. readOff' = [readOff EXCEPT ![who] = {OffNow}] /\ stateLock' = who /\ stateLock = Free
  BY DEF LockState
<1>3. Free \notin Who
  BY DeskAssumption DEF Who
<1>4. \A w \in Who : readOff'[w] = IF w = who THEN {OffNow} ELSE {}
  BY <1>2, <1>3 DEF DeskTyped, LockReads
<1>5. readOff' \in [Who -> SUBSET SUBSET DeskNames]
  BY <1>1, <1>2 DEF DeskTyped
<1>6. OffNow' = {n \in DOMAIN wish' : ~wish'[n]}
  BY <1>1 DEF LockReads
<1> QED BY <1>1, <1>2, <1>4, <1>5, <1>6 DEF LockReads

\* What is written back is what was read, with the names switched, and nobody wrote
\* in between.
LEMMA SavedOff ==
  ASSUME DeskTyped, LockReads, NEW who \in Who, NEW names \in SUBSET DeskNames, NEW on \in BOOLEAN, SavesOff(who, names, on)
  PROVE  /\ readOff' \in [Who -> SUBSET SUBSET DeskNames]
         /\ off' \in SUBSET DeskNames
         /\ wish' \in [DOMAIN wish' -> BOOLEAN]
         /\ LockReads'
<1> DEFINE set == names \ {DefaultRule}
<1>1. PICK was \in readOff[who] : off' = IF on THEN was \ set ELSE was \cup set
  BY DEF SavesOff
<1>2. /\ wish' = [n \in DOMAIN wish \cup set |-> IF n \in set THEN on ELSE wish[n]]
      /\ stateLock' = Free /\ readOff' = [readOff EXCEPT ![who] = {}]
  BY DEF SavesOff
<1>3. stateLock = who /\ was = OffNow
  BY <1>1 DEF LockReads
<1>4. off' \in SUBSET DeskNames
  BY <1>1, <1>3, OffNames
<1>5. OffNow' = off'
  BY <1>4, DeskAssumption DEF OffNow
<1>6. wish' \in [DOMAIN wish' -> BOOLEAN]
  BY <1>2 DEF DeskTyped
<1>7. OffNow' = {n \in DOMAIN wish' : ~wish'[n]}
  <2>1. OffNow = {n \in DOMAIN wish : ~wish[n]}
    BY DEF LockReads
  <2>2. CASE on = TRUE
    BY <1>1, <1>2, <1>3, <1>5, <2>1, <2>2
  <2>3. CASE on = FALSE
    BY <1>1, <1>2, <1>3, <1>5, <2>1, <2>3
  <2> QED BY <2>2, <2>3
<1>8. \A w \in Who : readOff'[w] = {}
  BY <1>2, <1>3 DEF LockReads, DeskTyped
<1>9. stateLock' \notin Who
  BY <1>2, DeskAssumption DEF Who
<1>10. readOff' \in [Who -> SUBSET SUBSET DeskNames]
  BY <1>2 DEF DeskTyped
<1> QED BY <1>4, <1>6, <1>7, <1>8, <1>9, <1>10 DEF LockReads

\* The window begins with what is there.
LEMMA DeskStarts == DeskInit => DeskInv
<1> SUFFICES ASSUME DeskInit PROVE DeskInv
  OBVIOUS
<1>1. DeskTyped
  BY DEF DeskInit, DeskTyped, Who
<1>2. LockReads
  BY DeskAssumption DEF DeskInit, LockReads, Who, OffNow
<1>3. PaperIsMine /\ ShownIsThere /\ PresetsUntouched
  BY DEF DeskInit, PaperIsMine, ShownIsThere, PresetsUntouched
<1> QED BY <1>1, <1>2, <1>3 DEF DeskInv

\* The files
LEMMA DeskFiles == DeskInv /\ [DeskNext]_desk => disk' \in [FilePlaces -> RuleText \cup {NoRule}] /\ PresetsUntouched'
<1> DEFINE Goal == disk' \in [FilePlaces -> RuleText \cup {NoRule}] /\ PresetsUntouched'
<1> SUFFICES ASSUME DeskInv, [DeskNext]_desk PROVE Goal
  OBVIOUS
<1>0. DeskTyped /\ PaperIsMine /\ PresetsUntouched
  BY DEF DeskInv
<1>1. ASSUME disk' = disk PROVE Goal
  BY <1>0, <1>1 DEF DeskTyped, PresetsUntouched
<1>2. ASSUME NEW place \in FilePlaces \cup {NoRule}, place \notin Preset, NEW what \in RuleText \cup {NoRule}, disk' = [disk EXCEPT ![place] = what]
      PROVE  Goal
  BY <1>0, <1>2 DEF DeskTyped, PresetsUntouched, FilePlaces
<1>3. ASSUME NEW sheet \in paper, NEW r \in RuleText, Saved(sheet, r) PROVE Goal
  BY <1>0, <1>3, SavedElsewhere DEF PresetsUntouched
<1>4. ASSUME NEW stays \in SUBSET Home, disk' = [p \in FilePlaces |-> IF p \in Home \ stays THEN NoRule ELSE disk[p]] PROVE Goal
  BY <1>0, <1>4, DeskAssumption DEF DeskTyped, PresetsUntouched, FilePlaces
<1>5. \A h \in Home : h \in FilePlaces /\ h \notin Preset
  BY DeskAssumption DEF FilePlaces
<1> HIDE DEF Goal
<1>6. CASE Refresh \/ Apply \/ NewRule \/ EditRule \/ PasteRule \/ ChangeDirs
  <2>1. disk' = disk
    BY <1>6 DEF Refresh, Apply, NewRule, EditRule, PasteRule, OpenPaper, ChangeDirs
  <2> QED BY <1>1, <2>1
<1>7. CASE PressApply \/ ClosePaper
  <2>1. disk' = disk \/ \E sheet \in paper, r \in RuleText : Saved(sheet, r)
    BY <1>7 DEF PressApply, ClosePaper
  <2> QED BY <1>1, <1>3, <2>1
<1>8. CASE Reset \/ ShellReset
  <2>1. \E stays \in SUBSET Home : disk' = [p \in FilePlaces |-> IF p \in Home \ stays THEN NoRule ELSE disk[p]]
    BY <1>8 DEF Reset, ShellReset
  <2> QED BY <1>4, <2>1
<1>9. ASSUME NEW some \in SUBSET DeskNames, NEW on \in BOOLEAN, TickRules(some, on) \/ ShellSwitch(some, on) PROVE Goal
  BY <1>1, <1>9 DEF TickRules, ShellSwitch
<1>10. ASSUME NEW r \in RuleText, ImportHere(r) PROVE Goal
  BY <1>2, <1>5, <1>10 DEF ImportHere
<1>11. ASSUME NEW r \in RuleText, NEW overwrite \in BOOLEAN, ShellBrings(r, overwrite) PROVE Goal
  BY <1>1, <1>11 DEF ShellBrings
<1>12. ASSUME NEW n \in DeskNames, Delete(n) PROVE Goal
  <2>1. shown[n].place \notin Preset /\ \/ disk' = [disk EXCEPT ![shown[n].place] = NoRule]
                                        \/ disk' = disk
    BY <1>12 DEF Delete, Mine
  <2>2. CASE disk' = [disk EXCEPT ![shown[n].place] = NoRule]
    BY <1>0, <2>1, <2>2 DEF DeskTyped, PresetsUntouched, FilePlaces, Goal
  <2> QED BY <1>1, <2>1, <2>2
<1>13. CASE WindowLocks \/ WindowSaves \/ ShellLocks \/ ShellSaves \/ StateDamaged
  <2>1. disk' = disk
    BY <1>13 DEF WindowLocks, WindowSaves, ShellLocks, ShellSaves, StateDamaged
  <2> QED BY <1>1, <2>1
<1>14. CASE ShellWrites
  <2>1. PICK c \in shell : c.kind = "bring" /\ disk' = [disk EXCEPT ![c.place] = c.rule]
    BY <1>14 DEF ShellWrites
  <2>2. c.place \in Home /\ c.rule \in RuleText
    BY <1>0, <2>1 DEF DeskTyped
  <2>3. c.place \in FilePlaces \cup {NoRule} /\ c.place \notin Preset /\ c.rule \in RuleText \cup {NoRule}
    BY <1>5, <2>2
  <2> QED BY <1>2, <2>1, <2>3
<1>15. CASE UNCHANGED desk
  <2>1. disk' = disk
    BY <1>15 DEF desk
  <2> QED BY <1>1, <2>1
<1> QED BY <1>6, <1>7, <1>8, <1>9, <1>10, <1>11, <1>12, <1>13, <1>14, <1>15 DEF DeskNext

\* The sheets
LEMMA DeskSheets == DeskInv /\ [DeskNext]_desk => PaperIsMine'
<1> SUFFICES ASSUME DeskInv, [DeskNext]_desk PROVE PaperIsMine'
  OBVIOUS
<1>0. PaperIsMine
  BY DEF DeskInv
<1> USE DEF PaperIsMine
<1>1. CASE NewRule
  <2>1. paper' = {[version |-> 1, place |-> NoRule]}
    BY <1>1 DEF NewRule, OpenPaper
  <2> QED BY <2>1
<1>2. CASE EditRule
  <2>1. PICK n \in DOMAIN shown : Mine(n) /\ paper' = {[version |-> shown[n].rule.version, place |-> shown[n].place]}
    BY <1>2 DEF EditRule, OpenPaper
  <2>2. shown[n].place \notin Preset
    BY <2>1 DEF Mine
  <2> QED BY <2>1, <2>2
<1>3. CASE PasteRule
  <2>1. PICK r \in RuleText, h \in Home : paper' = {[version |-> r.version, place |-> h]}
    BY <1>3 DEF PasteRule, OpenPaper
  <2>2. h \notin Preset
    BY DeskAssumption
  <2> QED BY <2>1, <2>2
<1>4. ASSUME paper' = paper \/ paper' = {} PROVE PaperIsMine'
  BY <1>0, <1>4
<1>5. CASE Refresh \/ Apply \/ ChangeDirs \/ PressApply \/ ClosePaper \/ Reset \/ ShellReset
  <2>1. paper' = paper \/ paper' = {}
    BY <1>5 DEF Refresh, Apply, ChangeDirs, PressApply, ClosePaper, Reset, ShellReset, OfShell
  <2> QED BY <1>4, <2>1
<1>6. CASE WindowLocks \/ WindowSaves \/ ShellLocks \/ ShellSaves \/ ShellWrites \/ StateDamaged
  <2>1. paper' = paper
    BY <1>6 DEF WindowLocks, WindowSaves, ShellLocks, ShellSaves, ShellWrites, StateDamaged, OfShell
  <2> QED BY <1>4, <2>1
<1>7. ASSUME NEW some \in SUBSET DeskNames, NEW on \in BOOLEAN, TickRules(some, on) \/ ShellSwitch(some, on) PROVE PaperIsMine'
  <2>1. paper' = paper
    BY <1>7 DEF TickRules, ShellSwitch, OfShell
  <2> QED BY <1>4, <2>1
<1>8. ASSUME NEW r \in RuleText, ImportHere(r) \/ \E overwrite \in BOOLEAN : ShellBrings(r, overwrite) PROVE PaperIsMine'
  <2>1. paper' = paper
    BY <1>8 DEF ImportHere, ShellBrings, OfShell
  <2> QED BY <1>4, <2>1
<1>9. ASSUME NEW n \in DeskNames, Delete(n) PROVE PaperIsMine'
  <2>1. paper' = paper
    BY <1>9 DEF Delete
  <2> QED BY <1>4, <2>1
<1>10. CASE UNCHANGED desk
  <2>1. paper' = paper
    BY <1>10 DEF desk
  <2> QED BY <1>4, <2>1
<1> QED BY <1>1, <1>2, <1>3, <1>5, <1>6, <1>7, <1>8, <1>9, <1>10 DEF DeskNext

\* The switches
LEMMA DeskSwitches ==
  DeskInv /\ [DeskNext]_desk =>
    /\ off' \in {NoState} \cup SUBSET DeskNames /\ wish' \in [DOMAIN wish' -> BOOLEAN]
    /\ readOff' \in [Who -> SUBSET SUBSET DeskNames] /\ LockReads'
<1> DEFINE Goal == /\ off' \in {NoState} \cup SUBSET DeskNames /\ wish' \in [DOMAIN wish' -> BOOLEAN]
                   /\ readOff' \in [Who -> SUBSET SUBSET DeskNames] /\ LockReads'
<1> SUFFICES ASSUME DeskInv, [DeskNext]_desk PROVE Goal
  OBVIOUS
<1>0. DeskTyped /\ LockReads
  BY DEF DeskInv
<1>1. ASSUME UNCHANGED <<off, wish, readOff, stateLock>> PROVE Goal
  BY <1>0, <1>1 DEF DeskTyped, LockReads, OffNow
<1>2. ASSUME NEW who \in Who, LockState(who), UNCHANGED <<off, wish>> PROVE Goal
  BY <1>0, <1>2, LockTaken DEF DeskTyped
<1>3. ASSUME NEW who \in Who, NEW names \in SUBSET DeskNames, NEW on \in BOOLEAN, SavesOff(who, names, on) PROVE Goal
  BY <1>0, <1>3, SavedOff
<1> HIDE DEF Goal
<1>w. {"window", "shell"} = Who
  BY DEF Who
<1>5. CASE Refresh \/ Apply \/ NewRule \/ EditRule \/ PasteRule \/ ChangeDirs \/ PressApply \/ ClosePaper \/ Reset \/ ShellReset
  <2>1. UNCHANGED <<off, wish, readOff, stateLock>>
    BY <1>5 DEF Refresh, Apply, NewRule, EditRule, PasteRule, OpenPaper, ChangeDirs, PressApply, ClosePaper, Reset, ShellReset, OnlyDisk
  <2> QED BY <1>1, <2>1
<1>6. CASE WindowLocks
  <2>1. LockState("window") /\ UNCHANGED <<off, wish>>
    BY <1>6 DEF WindowLocks
  <2> QED BY <1>2, <1>w, <2>1
<1>7. CASE ShellLocks
  <2>1. LockState("shell") /\ UNCHANGED <<off, wish>>
    BY <1>7 DEF ShellLocks
  <2> QED BY <1>2, <1>w, <2>1
<1>8. CASE WindowSaves
  <2>1. PICK n \in applying : SavesOff("window", {n}, ticks[n])
    BY <1>8 DEF WindowSaves
  <2>2. {n} \in SUBSET DeskNames /\ ticks[n] \in BOOLEAN
    BY <1>0 DEF DeskTyped
  <2> QED BY <1>3, <1>w, <2>1, <2>2
<1>9. CASE ShellSaves
  <2>1. PICK c \in shell : c.kind = "switch" /\ SavesOff("shell", c.names, c.on)
    BY <1>9 DEF ShellSaves
  <2>2. c.names \in SUBSET DeskNames /\ c.on \in BOOLEAN
    BY <1>0, <2>1 DEF DeskTyped
  <2> QED BY <1>3, <1>w, <2>1, <2>2
<1>10. CASE ShellWrites
  <2>1. UNCHANGED <<off, wish, readOff, stateLock>>
    BY <1>10 DEF ShellWrites
  <2> QED BY <1>1, <2>1
<1>11. CASE StateDamaged
  <2>1. off' = NoState /\ wish' = [n \in {} |-> TRUE] /\ stateLock = Free /\ UNCHANGED <<stateLock, readOff>>
    BY <1>11 DEF StateDamaged
  <2>2. \A who \in Who : readOff'[who] = {} /\ stateLock' # who
    BY <1>0, <2>1, DeskAssumption DEF LockReads, Who
  <2>3. OffNow' = {} /\ DOMAIN wish' = {}
    BY <2>1 DEF OffNow
  <2>4. LockReads'
    BY <2>2, <2>3 DEF LockReads
  <2> QED BY <1>0, <2>1, <2>3, <2>4 DEF Goal, DeskTyped
<1>12. ASSUME NEW some \in SUBSET DeskNames, NEW on \in BOOLEAN, TickRules(some, on) \/ ShellSwitch(some, on) PROVE Goal
  <2>1. UNCHANGED <<off, wish, readOff, stateLock>>
    BY <1>12 DEF TickRules, ShellSwitch
  <2> QED BY <1>1, <2>1
<1>13. ASSUME NEW r \in RuleText, ImportHere(r) \/ \E overwrite \in BOOLEAN : ShellBrings(r, overwrite) PROVE Goal
  <2>1. UNCHANGED <<off, wish, readOff, stateLock>>
    BY <1>13 DEF ImportHere, ShellBrings, OnlyDisk
  <2> QED BY <1>1, <2>1
<1>14. ASSUME NEW n \in DeskNames, Delete(n) PROVE Goal
  <2>1. UNCHANGED <<off, wish, readOff, stateLock>>
    BY <1>14 DEF Delete, OnlyDisk
  <2> QED BY <1>1, <2>1
<1>15. CASE UNCHANGED desk
  <2>1. UNCHANGED <<off, wish, readOff, stateLock>>
    BY <1>15 DEF desk
  <2> QED BY <1>1, <2>1
<1> QED BY <1>5, <1>6, <1>7, <1>8, <1>9, <1>10, <1>11, <1>12, <1>13, <1>14, <1>15 DEF DeskNext

\* The ticks and the command
LEMMA DeskTicks ==
  DeskInv /\ [DeskNext]_desk =>
    /\ ticks' \in [DOMAIN ticks' -> BOOLEAN] /\ DOMAIN ticks' \subseteq DeskNames /\ applying' \subseteq DOMAIN ticks'
    /\ \A c \in shell' : /\ c.kind = "switch" => c.names \subseteq DeskNames /\ c.on \in BOOLEAN
                         /\ c.kind = "bring" => c.place \in Home /\ c.rule \in RuleText
<1> DEFINE Ticks == ticks' \in [DOMAIN ticks' -> BOOLEAN] /\ DOMAIN ticks' \subseteq DeskNames /\ applying' \subseteq DOMAIN ticks'
           Command == \A c \in shell' : /\ c.kind = "switch" => c.names \subseteq DeskNames /\ c.on \in BOOLEAN
                                        /\ c.kind = "bring" => c.place \in Home /\ c.rule \in RuleText
<1> SUFFICES ASSUME DeskInv, [DeskNext]_desk PROVE Ticks /\ Command
  OBVIOUS
<1>0. DeskTyped
  BY DEF DeskInv
<1>1. ASSUME ticks' = ticks \/ ticks' = [n \in {} |-> TRUE], applying' = {} PROVE Ticks
  BY <1>0, <1>1 DEF DeskTyped
<1>2. ASSUME UNCHANGED <<ticks, applying>> PROVE Ticks
  BY <1>0, <1>2 DEF DeskTyped
<1>3. ASSUME shell' = shell \/ shell' = {} PROVE Command
  BY <1>0, <1>3 DEF DeskTyped
<1> HIDE DEF Ticks, Command
<1>5. CASE Refresh
  <2>1. (ticks' = ticks \/ ticks' = [n \in {} |-> TRUE]) /\ applying' = {} /\ shell' = shell
    BY <1>5 DEF Refresh, AtDesk
  <2> QED BY <1>1, <1>3, <2>1
<1>6. CASE Apply
  <2>1. ticks' = ticks /\ applying' = DOMAIN ticks /\ shell' = shell
    BY <1>6 DEF Apply
  <2>2. Ticks
    BY <1>0, <2>1 DEF Ticks, DeskTyped
  <2> QED BY <1>3, <2>1, <2>2
<1>7. CASE NewRule \/ EditRule \/ PasteRule \/ ChangeDirs \/ PressApply \/ ClosePaper \/ Reset \/ ShellReset \/ WindowLocks \/ ShellLocks
            \/ StateDamaged
  <2>1. UNCHANGED <<ticks, applying, shell>>
    BY <1>7 DEF NewRule, EditRule, PasteRule, OpenPaper, ChangeDirs, PressApply, ClosePaper, Reset, ShellReset, WindowLocks, ShellLocks,
                StateDamaged, OnlyDisk, OfShell
  <2> QED BY <1>2, <1>3, <2>1
<1>8. CASE WindowSaves
  <2>1. PICK n \in applying : /\ applying' = applying \ {n}
                              /\ \/ applying' = {} /\ ticks' = [m \in {} |-> TRUE]
                                 \/ ticks' = ticks
    BY <1>8 DEF WindowSaves
  <2>2. Ticks
    <3>1. CASE applying' = {} /\ ticks' = [m \in {} |-> TRUE]
      BY <1>1, <3>1
    <3>2. CASE ticks' = ticks
      BY <1>0, <2>1, <3>2 DEF Ticks, DeskTyped
    <3> QED BY <2>1, <3>1, <3>2
  <2>3. shell' = shell
    BY <1>8 DEF WindowSaves
  <2> QED BY <1>3, <2>2, <2>3
<1>9. CASE ShellSaves \/ ShellWrites
  <2>1. UNCHANGED <<ticks, applying>> /\ shell' = {}
    BY <1>9 DEF ShellSaves, ShellWrites, OfShell
  <2> QED BY <1>2, <1>3, <2>1
<1>10. ASSUME NEW some \in SUBSET DeskNames, NEW on \in BOOLEAN, TickRules(some, on) PROVE Ticks /\ Command
  <2>1. /\ ticks' = [n \in DOMAIN ticks \cup some |-> IF n \in some THEN on ELSE ticks[n]]
        /\ UNCHANGED <<applying, shell>>
    BY <1>10 DEF TickRules
  <2>2. Ticks
    BY <1>0, <2>1 DEF Ticks, DeskTyped
  <2> QED BY <1>3, <2>1, <2>2
<1>11. ASSUME NEW some \in SUBSET DeskNames, NEW on \in BOOLEAN, ShellSwitch(some, on) PROVE Ticks /\ Command
  <2>1. /\ \E changed : changed \subseteq some /\ shell' = {[kind |-> "switch", names |-> changed, on |-> on]}
        /\ UNCHANGED <<ticks, applying>>
    <3> DEFINE changed == {n \in some \ {DefaultRule} : n \in DOMAIN ByName /\ ByName[n].rule.on # on}
    <3>1. shell' = {[kind |-> "switch", names |-> changed, on |-> on]} /\ UNCHANGED <<ticks, applying>>
      BY <1>11 DEF ShellSwitch, OfShell
    <3>2. changed \subseteq some
      OBVIOUS
    <3> HIDE DEF changed
    <3> QED BY <3>1, <3>2
  <2>2. Command
    BY <2>1 DEF Command
  <2> QED BY <1>2, <2>1, <2>2
<1>12. ASSUME NEW r \in RuleText, NEW overwrite \in BOOLEAN, ShellBrings(r, overwrite) PROVE Ticks /\ Command
  <2>1. /\ \E h \in Home : shell' = {[kind |-> "bring", rule |-> r, place |-> h]}
        /\ UNCHANGED <<ticks, applying>>
    BY <1>12 DEF ShellBrings, OfShell
  <2>2. Command
    BY <2>1 DEF Command
  <2> QED BY <1>2, <2>1, <2>2
<1>13. ASSUME NEW r \in RuleText, ImportHere(r) PROVE Ticks /\ Command
  <2>1. UNCHANGED <<ticks, applying, shell>>
    BY <1>13 DEF ImportHere, OnlyDisk
  <2> QED BY <1>2, <1>3, <2>1
<1>14. ASSUME NEW n \in DeskNames, Delete(n) PROVE Ticks /\ Command
  <2>1. UNCHANGED <<ticks, applying, shell>>
    BY <1>14 DEF Delete, OnlyDisk
  <2> QED BY <1>2, <1>3, <2>1
<1>15. CASE UNCHANGED desk
  <2>1. UNCHANGED <<ticks, applying, shell>>
    BY <1>15 DEF desk
  <2> QED BY <1>2, <1>3, <2>1
<1> QED BY <1>5, <1>6, <1>7, <1>8, <1>9, <1>10, <1>11, <1>12, <1>13, <1>14, <1>15 DEF DeskNext

\* What the window shows
LEMMA DeskShows == DeskInv /\ [DeskNext]_desk => ShownIsThere'
<1> SUFFICES ASSUME DeskInv, [DeskNext]_desk PROVE ShownIsThere'
  OBVIOUS
<1>0. DeskTyped /\ ShownIsThere
  BY DEF DeskInv
<1>1. ASSUME shown' = ByName' \/ paper' # {} \/ applying' # {} \/ foreign' PROVE ShownIsThere'
  BY <1>1 DEF ShownIsThere, AtDesk
<1>2. ASSUME UNCHANGED <<disk, off, dirs, dirsOn, shown, foreign, paper, applying>>, readOff'["window"] = readOff["window"] PROVE ShownIsThere'
  <2>1. ByName' = ByName
    BY <1>2, SameSnapshot
  <2> QED BY <1>0, <1>2, <2>1 DEF ShownIsThere, AtDesk
<1>5. CASE Refresh \/ ChangeDirs \/ ClosePaper \/ Reset
  <2>1. shown' = ByName'
    BY <1>5 DEF Refresh, ChangeDirs, ClosePaper, Reset, LooksAgain
  <2> QED BY <1>1, <2>1
<1>6. CASE Apply
  <2>1. applying' # {}
    BY <1>6 DEF Apply
  <2> QED BY <1>1, <2>1
<1>7. CASE NewRule \/ EditRule \/ PasteRule
  <2>1. \E sheet : paper' = {sheet}
    BY <1>7 DEF NewRule, EditRule, PasteRule, OpenPaper
  <2> QED BY <1>1, <2>1
<1>8. CASE PressApply
  <2>1. paper' = paper /\ paper # {}
    BY <1>8 DEF PressApply
  <2> QED BY <1>1, <2>1
<1>9. CASE WindowLocks
  <2>1. applying' # {}
    BY <1>9 DEF WindowLocks
  <2> QED BY <1>1, <2>1
<1>10. CASE WindowSaves
  <2>1. applying' # {} \/ shown' = ByName'
    BY <1>10 DEF WindowSaves
  <2> QED BY <1>1, <2>1
<1>11. CASE ShellLocks
  <2>1. UNCHANGED <<disk, off, dirs, dirsOn, shown, foreign, paper, applying>>
    BY <1>11 DEF ShellLocks, OfShell
  <2>2. readOff' = [readOff EXCEPT !["shell"] = {OffNow}]
    BY <1>11 DEF ShellLocks, LockState
  <2>3. readOff'["window"] = readOff["window"]
    BY <1>0, <2>2 DEF DeskTyped, Who
  <2> QED BY <1>2, <2>1, <2>3
<1>12. CASE ShellSaves \/ ShellWrites \/ ShellReset \/ StateDamaged
  <2>1. foreign' = TRUE
    BY <1>12 DEF ShellSaves, ShellWrites, ShellReset, StateDamaged
  <2> QED BY <1>1, <2>1
<1>13. ASSUME NEW some \in SUBSET DeskNames, NEW on \in BOOLEAN, TickRules(some, on) \/ ShellSwitch(some, on) PROVE ShownIsThere'
  <2>1. UNCHANGED <<disk, off, dirs, dirsOn, shown, foreign, paper, applying, readOff>>
    BY <1>13 DEF TickRules, ShellSwitch, OfShell
  <2> QED BY <1>2, <2>1
<1>14. ASSUME NEW r \in RuleText, ImportHere(r) PROVE ShownIsThere'
  <2>1. shown' = ByName'
    BY <1>14 DEF ImportHere, LooksAgain
  <2> QED BY <1>1, <2>1
<1>15. ASSUME NEW r \in RuleText, NEW overwrite \in BOOLEAN, ShellBrings(r, overwrite) PROVE ShownIsThere'
  <2>1. UNCHANGED <<disk, off, dirs, dirsOn, shown, foreign, paper, applying, readOff>>
    BY <1>15 DEF ShellBrings, OfShell
  <2> QED BY <1>2, <2>1
<1>16. ASSUME NEW n \in DeskNames, Delete(n) PROVE ShownIsThere'
  <2>1. shown' = ByName' \/ UNCHANGED <<disk, off, dirs, dirsOn, shown, foreign, paper, applying, readOff>>
    BY <1>16 DEF Delete, LooksAgain, OnlyDisk
  <2> QED BY <1>1, <1>2, <2>1
<1>17. CASE UNCHANGED desk
  <2>1. UNCHANGED <<disk, off, dirs, dirsOn, shown, foreign, paper, applying, readOff>>
    BY <1>17 DEF desk
  <2> QED BY <1>2, <2>1
<1> QED BY <1>5, <1>6, <1>7, <1>8, <1>9, <1>10, <1>11, <1>12, <1>13, <1>14, <1>15, <1>16, <1>17 DEF DeskNext

\* No switch is lost, the window shows what is there, and what came with the program
\* stays as it came, for any rules, files and directories and any number of operations.
THEOREM DeskKeepsRules == DeskSpec => []DeskSound
<1>1. DeskInv /\ [DeskNext]_desk => DeskInv'
  BY DeskFiles, DeskSheets, DeskSwitches, DeskTicks, DeskShows DEF DeskInv, DeskTyped
<1>2. DeskInv => DeskSound
  <2> SUFFICES ASSUME DeskInv PROVE SwitchesKept
    BY DEF DeskInv, DeskSound
  <2> QED BY OffNames DEF DeskInv, LockReads, SwitchesKept
<1> QED BY DeskStarts, <1>1, <1>2, PTL DEF DeskSpec

-----------------------------------------------------------------------------
(* Both windows                                                              *)

\* Of rules and pages the windows show what there is, as WindowsSound has it of the two
\* parts together.
THEOREM WindowsShowWhatIs == DeskSpec /\ PreviewSpec => []WindowsSound
<1>1. DeskSound /\ PreviewSound => WindowsSound
  BY DEF WindowsSound
<1> QED BY <1>1, DeskKeepsRules, PreviewShowsPages, PTL
=============================================================================
