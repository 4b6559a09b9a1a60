---------------------------- MODULE ProfileProofs -----------------------------
(*****************************************************************************)
(* The preferences and the AI client, for any profiles, callers, streams and *)
(* limits: that windows and commands leave every copy of the preferences of  *)
(* one piece, that calls of models stay within their permits and tokens, and *)
(* that a stream tells just the calls its model made.                        *)
(*****************************************************************************)
EXTENDS Profiles, ProofBasics, FiniteSetTheorems, SequenceTheorems, TLAPS

-----------------------------------------------------------------------------
(* What is kept of a list                                                    *)

\* What is kept of the first k members, for each k
GrowsBy(upTo, S, list, places) ==
  /\ upTo \in [0 .. Len(list) -> Seq(S)]
  /\ upTo[0] = <<>> /\ Kept(list, places) = upTo[Len(list)]
  /\ \A k \in 1 .. Len(list) : upTo[k] = IF k \in places THEN Append(upTo[k - 1], list[k]) ELSE upTo[k - 1]

\* The list kept grows by a member meant and stays at another.
LEMMA KeptGrows ==
  ASSUME NEW S, NEW list \in Seq(S), NEW places
  PROVE  \E upTo : GrowsBy(upTo, S, list, places)
<1> DEFINE n == Len(list)
           F == [k \in 1 .. n |-> [w \in Seq(S) |-> IF k \in places THEN Append(w, list[k]) ELSE w]]
<1>1. n \in Nat /\ DOMAIN list = 1 .. n /\ \A k \in 1 .. n : list[k] \in S
  BY LenProperties
<1>2. F \in Steps(n, Seq(S))
  BY <1>1, AppendProperties DEF Steps
<1>3. <<>> \in Seq(S)
  OBVIOUS
<1>4. PICK f \in [0 .. n -> Seq(S)] : f[0] = <<>> /\ \A k \in 1 .. n : f[k] = F[k][f[k - 1]]
  <2> HIDE DEF F, n
  <2>1. Walks(n, Seq(S), <<>>, F)
    BY <1>1, <1>2, <1>3, Iterated
  <2> QED BY <2>1 DEF Walks
<1>5. \A k \in 1 .. n : f[k] = IF k \in places THEN Append(f[k - 1], list[k]) ELSE f[k - 1]
  <2> SUFFICES ASSUME NEW k \in 1 .. n
               PROVE f[k] = IF k \in places THEN Append(f[k - 1], list[k]) ELSE f[k - 1]
    OBVIOUS
  <2>1. k - 1 \in 0 .. n /\ f[k - 1] \in Seq(S)
    BY <1>1
  <2> QED BY <1>4, <2>1
<1> DEFINE upTo[k \in 0 .. Len(list)] == IF k = 0 THEN <<>>
                                    ELSE IF k \in places THEN Append(upTo[k - 1], list[k]) ELSE upTo[k - 1]
<1>6. upTo = CHOOSE h : h = [k \in 0 .. n |-> IF k = 0 THEN <<>>
                                    ELSE IF k \in places THEN Append(h[k - 1], list[k]) ELSE h[k - 1]]
  OBVIOUS
<1>7. f = [k \in 0 .. n |-> IF k = 0 THEN <<>> ELSE IF k \in places THEN Append(f[k - 1], list[k]) ELSE f[k - 1]]
  <2>1. \A k \in 0 .. n : k = 0 \/ k \in 1 .. n
    BY <1>1
  <2> HIDE DEF n
  <2> QED BY <1>4, <1>5, <2>1
<1>8. upTo = [k \in 0 .. n |-> IF k = 0 THEN <<>> ELSE IF k \in places THEN Append(upTo[k - 1], list[k]) ELSE upTo[k - 1]]
  <2> HIDE DEF upTo, n
  <2> QED BY <1>6, <1>7
<1>9. Kept(list, places) = upTo[n]
  BY DEF Kept
<1> HIDE DEF upTo, F
<1>10. ASSUME NEW k \in 1 .. n PROVE upTo[k] = IF k \in places THEN Append(upTo[k - 1], list[k]) ELSE upTo[k - 1]
  <2>1. k \in 0 .. n /\ k # 0
    BY <1>1
  <2> HIDE DEF n
  <2> QED BY <1>8, <2>1
<1> DEFINE T == {k \in 0 .. n : upTo[k] = f[k]}
<1>11. 0 \in T
  BY <1>1, <1>4, <1>8
<1>12. ASSUME NEW k \in 0 .. n - 1, k \in T PROVE k + 1 \in T
  <2>1. k + 1 \in 1 .. n /\ k + 1 \in 0 .. n /\ k + 1 - 1 = k /\ k + 1 # 0
    BY <1>1
  <2>2. upTo[k + 1] = IF k + 1 \in places THEN Append(upTo[k], list[k + 1]) ELSE upTo[k]
    <3>1. upTo[k + 1] = IF k + 1 \in places THEN Append(upTo[k + 1 - 1], list[k + 1]) ELSE upTo[k + 1 - 1]
      BY <1>10, <2>1
    <3> QED BY <2>1, <3>1
  <2>3. f[k + 1] = IF k + 1 \in places THEN Append(f[k], list[k + 1]) ELSE f[k]
    BY <1>5, <2>1
  <2> QED BY <1>12, <2>1, <2>2, <2>3
<1>13. \A k \in 0 .. n : upTo[k] = f[k]
  <2>1. \A k \in 0 .. n : k \in T
    <3> HIDE DEF T, n
    <3> QED BY <1>1, <1>11, <1>12, UpTo
  <2> QED BY <2>1
<1>14. Kept(list, places) = f[n]
  <2> HIDE DEF n
  <2> QED BY <1>1, <1>9, <1>13
<1>15. GrowsBy(f, S, list, places)
  BY <1>4, <1>5, <1>14 DEF GrowsBy
<1> QED BY <1>15

\* Of a list of which all is meant all is kept.
LEMMA KeptAll ==
  ASSUME NEW S, NEW list \in Seq(S), NEW places, \A p \in DOMAIN list : p \in places
  PROVE  Kept(list, places) = list
<1> DEFINE n == Len(list)
<1>1. n \in Nat /\ DOMAIN list = 1 .. n /\ \A k \in 1 .. n : list[k] \in S /\ k \in places
  BY LenProperties
<1>0. PICK upTo : GrowsBy(upTo, S, list, places)
  BY KeptGrows
<1>2. /\ upTo \in [0 .. n -> Seq(S)] /\ upTo[0] = <<>> /\ Kept(list, places) = upTo[n]
      /\ \A k \in 1 .. n : upTo[k] = IF k \in places THEN Append(upTo[k - 1], list[k]) ELSE upTo[k - 1]
  BY <1>0 DEF GrowsBy
<1> DEFINE T == {k \in 0 .. n : Len(upTo[k]) = k /\ \A i \in 1 .. k : upTo[k][i] = list[i]}
<1> HIDE DEF n
<1>3. 0 \in T
  BY <1>1, <1>2
<1>4. ASSUME NEW k \in 0 .. n - 1, k \in T PROVE k + 1 \in T
  <2>1. k + 1 \in 1 .. n /\ k + 1 - 1 = k /\ k \in 0 .. n /\ k + 1 \in 0 .. n
    BY <1>1
  <2>2. upTo[k] \in Seq(S) /\ list[k + 1] \in S /\ upTo[k + 1] = Append(upTo[k], list[k + 1])
    <3>1. k + 1 \in places /\ k \in 0 .. Len(list)
      BY <1>1, <2>1 DEF n
    <3>2. \A m \in 1 .. n : m \in places => upTo[m] = Append(upTo[m - 1], list[m])
      BY <1>2, Zenon
    <3>3. upTo[k + 1] = Append(upTo[k + 1 - 1], list[k + 1])
      BY <2>1, <3>1, <3>2
    <3> QED BY <1>1, <1>2, <2>1, <3>1, <3>3
  <2>3. Len(upTo[k + 1]) = k + 1 /\ upTo[k + 1][k + 1] = list[k + 1] /\ \A i \in 1 .. k : upTo[k + 1][i] = upTo[k][i]
    BY <1>4, <2>2, AppendProperties
  <2>4. \A i \in 1 .. k + 1 : i = k + 1 \/ i \in 1 .. k
    BY <2>1
  <2> QED BY <1>4, <2>1, <2>3, <2>4
<1>5. n \in T
  <2> HIDE DEF T
  <2>1. \A k \in 0 .. n : k \in T
    BY <1>1, <1>3, <1>4, UpTo
  <2> QED BY <1>1, <2>1
<1>6. upTo[n] \in Seq(S) /\ Len(upTo[n]) = Len(list) /\ \A i \in 1 .. Len(list) : upTo[n][i] = list[i]
  BY <1>1, <1>2, <1>5 DEF n
<1> QED BY <1>2, <1>6, SeqEqual

\* What is kept of a list is a list of the same kind.
LEMMA KeptSeq ==
  ASSUME NEW S, NEW list \in Seq(S), NEW places
  PROVE  Kept(list, places) \in Seq(S)
<1>1. PICK upTo : GrowsBy(upTo, S, list, places)
  BY KeptGrows
<1> QED BY <1>1, LenProperties DEF GrowsBy

-----------------------------------------------------------------------------
(* The preferences, and the pages that change them                           *)

\* A list made of members of another, in order or not, each taken once and all those
\* meant
IsPick(w, list, places) ==
  \E g \in [DOMAIN w -> DOMAIN list] :
    /\ \A i, j \in DOMAIN g : g[i] = g[j] => i = j
    /\ \A i \in DOMAIN g : g[i] \in places /\ w[i] = list[g[i]]
    /\ \A k \in DOMAIN list : k \in places => \E i \in DOMAIN g : g[i] = k

\* What is kept of a list are the members meant, each once.
LEMMA KeptIs ==
  ASSUME NEW S, NEW list \in Seq(S), NEW places
  PROVE  Kept(list, places) \in Seq(S) /\ IsPick(Kept(list, places), list, places)
<1> DEFINE n == Len(list)
<1>1. n \in Nat /\ DOMAIN list = 1 .. n /\ \A k \in 1 .. n : list[k] \in S
  BY LenProperties
<1>2. <<>> \in Seq(S)
  OBVIOUS
<1>3. PICK upTo : GrowsBy(upTo, S, list, places)
  BY KeptGrows
<1>4. /\ upTo \in [0 .. n -> Seq(S)] /\ upTo[0] = <<>> /\ Kept(list, places) = upTo[n]
      /\ \A k \in 1 .. n : upTo[k] = IF k \in places THEN Append(upTo[k - 1], list[k]) ELSE upTo[k - 1]
  BY <1>3 DEF GrowsBy
<1> HIDE DEF n
<1>9. Kept(list, places) = upTo[n]
  BY <1>4
<1>10. upTo[0] = <<>>
  BY <1>4
<1>11. ASSUME NEW k \in 1 .. n PROVE upTo[k] = IF k \in places THEN Append(upTo[k - 1], list[k]) ELSE upTo[k - 1]
  BY <1>4
<1> DEFINE Maps(k, w, g) ==
             /\ g \in [1 .. Len(w) -> 1 .. k]
             /\ \A i, j \in 1 .. Len(w) : g[i] = g[j] => i = j
             /\ \A i \in 1 .. Len(w) : g[i] \in places /\ w[i] = list[g[i]]
             /\ \A m \in 1 .. k : m \in places => \E i \in 1 .. Len(w) : g[i] = m
           T == {k \in 0 .. n : upTo[k] \in Seq(S) /\ \E g : Maps(k, upTo[k], g)}
<1>12. 0 \in T
  <2>1. Maps(0, <<>>, <<>>)
    OBVIOUS
  <2> HIDE DEF Maps
  <2>2. Maps(0, upTo[0], <<>>)
    BY <1>10, <2>1
  <2>3. upTo[0] \in Seq(S) /\ 0 \in 0 .. n
    BY <1>1, <1>4, <1>10
  <2> QED BY <2>2, <2>3
<1>13. ASSUME NEW k \in 0 .. n - 1, k \in T PROVE k + 1 \in T
  <2>1. k + 1 \in 1 .. n /\ k + 1 - 1 = k /\ k \in Nat
    BY <1>1
  <2>2. PICK g : Maps(k, upTo[k], g)
    BY <1>13
  <2>3. PICK w \in Seq(S) : w = upTo[k]
    BY <1>13
  <2>4. CASE k + 1 \notin places
    <3>1. upTo[k + 1] = w
      BY <1>11, <2>1, <2>3, <2>4
    <3>2. g \in [1 .. Len(w) -> 1 .. k + 1]
      BY <2>1, <2>2, <2>3
    <3>3. \A m \in 1 .. k + 1 : m \in places => m \in 1 .. k
      BY <2>1, <2>4
    <3>4. Maps(k + 1, w, g)
      BY <2>2, <2>3, <3>2, <3>3
    <3> HIDE DEF Maps
    <3> QED BY <1>1, <2>1, <3>1, <3>4
  <2>5. CASE k + 1 \in places
    <3> DEFINE x == list[k + 1]
               v == Append(w, x)
               h == [i \in 1 .. Len(w) + 1 |-> IF i = Len(w) + 1 THEN k + 1 ELSE g[i]]
    <3>1. upTo[k + 1] = v /\ x \in S
      <4>1. upTo[k + 1] = Append(upTo[k + 1 - 1], list[k + 1])
        <5>1. \A m \in 1 .. n : m \in places => upTo[m] = Append(upTo[m - 1], list[m])
          BY <1>11
        <5> QED BY <2>1, <2>5, <5>1
      <4> QED BY <1>1, <2>1, <2>3, <4>1
    <3>2. v \in Seq(S) /\ Len(v) = Len(w) + 1 /\ v[Len(w) + 1] = x /\ Len(w) \in Nat
          /\ \A i \in 1 .. Len(w) : v[i] = w[i]
      BY <3>1, AppendProperties, LenProperties
    <3> HIDE DEF v
    <3>3. \A i \in 1 .. Len(w) : g[i] \in 1 .. k /\ g[i] # k + 1 /\ g[i] \in 1 .. k + 1
      <4>1. g \in [1 .. Len(w) -> 1 .. k]
        BY <2>2, <2>3
      <4>2. \A m \in 1 .. k : m # k + 1 /\ m \in 1 .. k + 1
        BY <2>1
      <4> QED BY <4>1, <4>2
    <3>4. h \in [1 .. Len(v) -> 1 .. k + 1]
      BY <2>1, <3>2, <3>3
    <3>5. \A i \in 1 .. Len(v) : i = Len(w) + 1 \/ i \in 1 .. Len(w)
      BY <3>2
    <3>6. /\ h[Len(w) + 1] = k + 1 /\ Len(w) + 1 \in 1 .. Len(v)
          /\ \A i \in 1 .. Len(w) : h[i] = g[i] /\ i \in 1 .. Len(v)
      BY <3>2
    <3> HIDE DEF h
    <3>7. \A i, j \in 1 .. Len(v) : h[i] = h[j] => i = j
      BY <2>2, <2>3, <3>3, <3>5, <3>6
    <3>8. \A i \in 1 .. Len(v) : h[i] \in places /\ v[i] = list[h[i]]
      BY <2>2, <2>3, <2>5, <3>2, <3>5, <3>6
    <3>9. \A m \in 1 .. k + 1 : m = k + 1 \/ m \in 1 .. k
      BY <2>1
    <3>10. \A m \in 1 .. k + 1 : m \in places => \E i \in 1 .. Len(v) : h[i] = m
      BY <2>2, <2>3, <3>6, <3>9
    <3>11. Maps(k + 1, v, h)
      BY <3>4, <3>7, <3>8, <3>10
    <3> HIDE DEF Maps
    <3> QED BY <1>1, <2>1, <3>1, <3>2, <3>11
  <2> QED BY <2>4, <2>5
<1>14. \A k \in 0 .. n : k \in T
  <2> HIDE DEF T
  <2> QED BY <1>1, <1>12, <1>13, UpTo
<1>15. PICK g : Maps(n, upTo[n], g) /\ upTo[n] \in Seq(S)
  <2> HIDE DEF Maps
  <2> QED BY <1>1, <1>14
<1>16. DOMAIN Kept(list, places) = 1 .. Len(upTo[n]) /\ DOMAIN g = 1 .. Len(upTo[n])
  BY <1>9, <1>15, LenProperties
<1>17. /\ g \in [DOMAIN Kept(list, places) -> DOMAIN list]
       /\ \A i, j \in DOMAIN g : g[i] = g[j] => i = j
       /\ \A i \in DOMAIN g : g[i] \in places /\ Kept(list, places)[i] = list[g[i]]
       /\ \A k \in DOMAIN list : k \in places => \E i \in DOMAIN g : g[i] = k
  <2>1. g \in [1 .. Len(upTo[n]) -> 1 .. n]
    BY <1>15
  <2>2. g \in [DOMAIN Kept(list, places) -> DOMAIN list]
    BY <1>1, <1>16, <2>1
  <2> QED BY <1>1, <1>9, <1>15, <1>16, <2>2
<1> HIDE DEF Maps
<1> QED BY <1>9, <1>15, <1>17 DEF IsPick

\* The invariant: each copy of the preferences has its types and is of one piece, with
\* ids that were given out.
WholeCopy(s, u) ==
  /\ s \in Preferences /\ OnePiece(s)
  /\ \A i \in DOMAIN s.px : s.px[i].id \in 1 .. u
  /\ \A c \in Consumer : s.routes[c].profile \in 0 .. u

\* The parts of a piece
ProxiesApart(px) ==
  /\ \A i, j \in DOMAIN px : px[i].name = px[j].name \/ px[i].id = px[j].id => i = j
  /\ \A i \in DOMAIN px : IsInjective(px[i].ends)
RoutesClean(routes) == \A c \in Consumer : routes[c].profile = 0 => routes[c].node = 0
PathsFew(paths) == IsInjective(paths) /\ Len(paths) <= MaxPaths
AiWhole(ai, active, last) ==
  /\ \A i, j \in DOMAIN ai : ai[i].name = ai[j].name => i = j
  /\ IF ai = <<>> THEN active = "" ELSE HasLabel(ai, active)
  /\ last = "" \/ HasLabel(ai, last)
IdsOut(px, u) == \A i \in DOMAIN px : px[i].id \in 1 .. u
RoutesOut(routes, u) == \A c \in Consumer : routes[c].profile \in 0 .. u

\* They make the whole.
LEMMA WholeIs ==
  ASSUME NEW s, NEW u
  PROVE  WholeCopy(s, u) <=> /\ s \in Preferences /\ AiWhole(s.ai, s.active, s.last) /\ ProxiesApart(s.px)
                         /\ RoutesClean(s.routes) /\ PathsFew(s.paths) /\ IdsOut(s.px, u) /\ RoutesOut(s.routes, u)
BY DEF WholeCopy, OnePiece, AiWhole, ProxiesApart, RoutesClean, PathsFew, IdsOut, RoutesOut

\* Later more ids are out.
LEMMA WholeGrows ==
  ASSUME NEW s, NEW u \in Nat, NEW v \in Nat, u <= v, WholeCopy(s, u)
  PROVE  WholeCopy(s, v)
<1>1. \A k \in 1 .. u : k \in 1 .. v
  OBVIOUS
<1>2. \A k \in 0 .. u : k \in 0 .. v
  OBVIOUS
<1> QED BY <1>1, <1>2 DEF WholeCopy

\* A list whose names are different, and one where a profile has its place in it
Different(list) == \A i, j \in DOMAIN list : list[i].name = list[j].name => i = j
HasInPlace(w, list, p) ==
  \E k \in DOMAIN w :
    /\ w[k] = p
    /\ \A i \in DOMAIN w : i # k => i \in DOMAIN list /\ w[i] = list[i] /\ list[i].name # p.name
    /\ \A i \in DOMAIN list : i # k => i \in DOMAIN w
    /\ k \in DOMAIN list => list[k].name = p.name

\* A profile takes the place of its name, or the last.
LEMMA UpsertIs ==
  ASSUME NEW S, NEW list \in Seq(S), NEW p \in S, Different(list)
  PROVE  Upsert(list, p) \in Seq(S) /\ Upsert(list, p) # <<>> /\ HasInPlace(Upsert(list, p), list, p)
<1> USE DEF Different, HasInPlace
<1>1. CASE HasLabel(list, p.name)
  <2> DEFINE k == PlaceIn(list, p.name)
             w == [list EXCEPT ![k] = p]
  <2>1. k \in DOMAIN list /\ list[k].name = p.name
    BY <1>1 DEF HasLabel, PlaceIn
  <2>2. Upsert(list, p) = w
    BY <1>1 DEF Upsert
  <2> HIDE DEF k
  <2>3. w \in Seq(S) /\ DOMAIN w = DOMAIN list /\ w[k] = p /\ \A i \in DOMAIN list : i # k => w[i] = list[i]
    BY <2>1
  <2>4. w # <<>>
    BY <2>1, <2>3
  <2> HIDE DEF w
  <2>5. \A i \in DOMAIN list : i # k => list[i].name # p.name
    BY <2>1
  <2> QED BY <2>1, <2>2, <2>3, <2>4, <2>5
<1>2. CASE ~HasLabel(list, p.name)
  <2> DEFINE w == Append(list, p)
             k == Len(list) + 1
  <2>1. Upsert(list, p) = w
    BY <1>2 DEF Upsert
  <2>2. /\ w \in Seq(S) /\ w # <<>> /\ Len(w) = Len(list) + 1 /\ w[k] = p /\ Len(list) \in Nat
        /\ \A i \in 1 .. Len(list) : w[i] = list[i]
    BY AppendProperties, LenProperties
  <2> HIDE DEF w
  <2>3. DOMAIN w = 1 .. Len(list) + 1 /\ DOMAIN list = 1 .. Len(list)
    BY <2>2, LenProperties
  <2>4. k \in DOMAIN w /\ k \notin DOMAIN list /\ \A i \in DOMAIN w : i # k => i \in DOMAIN list
    BY <2>2, <2>3
  <2>5. \A i \in DOMAIN list : i \in DOMAIN w /\ list[i].name # p.name
    BY <1>2, <2>2, <2>3 DEF HasLabel
  <2> QED BY <2>1, <2>2, <2>3, <2>4, <2>5
<1> QED BY <1>1, <1>2

\* A profile more or another makes no name twice, and none is lost.
LEMMA UpsertNames ==
  ASSUME NEW S, NEW list \in Seq(S), NEW p \in S, Different(list)
  PROVE  /\ Different(Upsert(list, p)) /\ HasLabel(Upsert(list, p), p.name)
         /\ \A n : HasLabel(list, n) => HasLabel(Upsert(list, p), n)
<1> DEFINE w == Upsert(list, p)
<1>1. HasInPlace(w, list, p)
  BY UpsertIs
<1> HIDE DEF w
<1>2. PICK k \in DOMAIN w : /\ w[k] = p
                            /\ \A i \in DOMAIN w : i # k => i \in DOMAIN list /\ w[i] = list[i] /\ list[i].name # p.name
                            /\ \A i \in DOMAIN list : i # k => i \in DOMAIN w
                            /\ k \in DOMAIN list => list[k].name = p.name
  BY <1>1 DEF HasInPlace
<1>3. Different(w)
  BY <1>2 DEF Different
<1>4. HasLabel(w, p.name)
  BY <1>2 DEF HasLabel
<1>5. \A n : HasLabel(list, n) => HasLabel(w, n)
  BY <1>2 DEF HasLabel
<1> QED BY <1>3, <1>4, <1>5 DEF w

\* A list from which a name was taken
IsWithout(w, list, n) ==
  \E g \in [DOMAIN w -> DOMAIN list] :
    /\ \A i, j \in DOMAIN g : g[i] = g[j] => i = j
    /\ \A i \in DOMAIN g : list[g[i]].name # n /\ w[i] = list[g[i]]

\* Taken out of a list, a name is not there any more, and the others are.
LEMMA WithoutIs ==
  ASSUME NEW S, NEW list \in Seq(S), NEW n
  PROVE  /\ Without(list, n) \in Seq(S) /\ IsWithout(Without(list, n), list, n)
         /\ \A m : m # n /\ HasLabel(list, m) => HasLabel(Without(list, n), m)
<1> DEFINE places == {i \in DOMAIN list : list[i].name # n}
<1>1. Without(list, n) = Kept(list, places)
  BY DEF Without
<1>2. \A i \in places : i \in DOMAIN list /\ list[i].name # n
  OBVIOUS
<1>3. \A i \in DOMAIN list : list[i].name # n => i \in places
  OBVIOUS
<1> HIDE DEF places
<1>4. PICK g \in [DOMAIN Kept(list, places) -> DOMAIN list] :
              /\ \A i, j \in DOMAIN g : g[i] = g[j] => i = j
              /\ \A i \in DOMAIN g : g[i] \in places /\ Kept(list, places)[i] = list[g[i]]
              /\ \A k \in DOMAIN list : k \in places => \E i \in DOMAIN g : g[i] = k
  <2>1. IsPick(Kept(list, places), list, places)
    BY KeptIs
  <2> QED BY <2>1 DEF IsPick
<1>5. Kept(list, places) \in Seq(S)
  BY KeptIs
<1>6. \A i \in DOMAIN g : list[g[i]].name # n /\ Kept(list, places)[i] = list[g[i]]
  BY <1>2, <1>4
<1>7. ASSUME NEW m, m # n, HasLabel(list, m) PROVE HasLabel(Kept(list, places), m)
  <2>1. PICK k \in DOMAIN list : list[k].name = m
    BY <1>7 DEF HasLabel
  <2>2. PICK i \in DOMAIN g : g[i] = k
    BY <1>3, <1>4, <1>7, <2>1
  <2>3. i \in DOMAIN Kept(list, places) /\ Kept(list, places)[i].name = m
    BY <1>4, <2>1, <2>2
  <2> QED BY <2>3 DEF HasLabel
<1>8. IsWithout(Kept(list, places), list, n)
  BY <1>4, <1>6 DEF IsWithout
<1> QED BY <1>1, <1>5, <1>7, <1>8

\* Only what is of the AI profiles changes.
LEMMA AiPart ==
  ASSUME NEW s, NEW u, WholeCopy(s, u), NEW t,
         NEW ai \in Seq(AiProfile), NEW active \in Label \cup {""}, NEW last \in Label \cup {""},
         t = [s EXCEPT !.ai = ai, !.active = active, !.last = last],
         Different(ai),
         IF ai = <<>> THEN active = "" ELSE HasLabel(ai, active),
         last = "" \/ HasLabel(ai, last)
  PROVE  WholeCopy(t, u)
<1>1. s \in Preferences
  BY DEF WholeCopy
<1>2. t \in Preferences
  BY <1>1 DEF Preferences
<1>3. t.ai = ai /\ t.active = active /\ t.last = last /\ t.px = s.px /\ t.routes = s.routes /\ t.paths = s.paths
  BY <1>1 DEF Preferences
<1>4. AiWhole(ai, active, last)
  BY DEF AiWhole, Different
<1>5. ProxiesApart(s.px) /\ RoutesClean(s.routes) /\ PathsFew(s.paths) /\ IdsOut(s.px, u) /\ RoutesOut(s.routes, u)
  BY WholeIs
<1> QED BY <1>2, <1>3, <1>4, <1>5, WholeIs

\* An AI profile is saved.
LEMMA SavesAi ==
  ASSUME NEW s, NEW u, WholeCopy(s, u), NEW p \in AiProfile
  PROVE  WholeCopy(SaveAi(s, p), u)
<1> DEFINE ai == Upsert(s.ai, p)
           active == IF s.ai = <<>> /\ s.active = "" THEN p.name ELSE s.active
<1>1. s.ai \in Seq(AiProfile) /\ s \in Preferences /\ s.active \in Label \cup {""} /\ s.last \in Label \cup {""} /\ p.name \in Label
  BY DEF WholeCopy, Preferences, AiProfile
<1>2. Different(s.ai)
  BY DEF WholeCopy, OnePiece, Different
<1>3. ai \in Seq(AiProfile) /\ ai # <<>>
  BY <1>1, <1>2, UpsertIs
<1>4. /\ Different(ai)
      /\ HasLabel(ai, p.name) /\ \A n : HasLabel(s.ai, n) => HasLabel(ai, n)
  BY <1>1, <1>2, UpsertNames
<1>5. (IF s.ai = <<>> THEN s.active = "" ELSE HasLabel(s.ai, s.active)) /\ (s.last = "" \/ HasLabel(s.ai, s.last))
  BY DEF WholeCopy, OnePiece, Different
<1>6. SaveAi(s, p) = [s EXCEPT !.ai = ai, !.active = active, !.last = s.last]
  BY <1>1 DEF SaveAi, Preferences
<1> HIDE DEF ai
<1>7. HasLabel(ai, active) /\ active \in Label \cup {""} /\ (s.last = "" \/ HasLabel(ai, s.last))
  BY <1>1, <1>4, <1>5
<1> HIDE DEF active
<1> QED BY <1>1, <1>3, <1>4, <1>6, <1>7, AiPart

\* An AI profile is removed: another takes its place as the active one.
LEMMA RemovesAi ==
  ASSUME NEW s, NEW u, WholeCopy(s, u), NEW n \in Label
  PROVE  WholeCopy(RemoveAi(s, n), u)
<1> DEFINE left == Without(s.ai, n)
           last == IF s.last = n THEN "" ELSE s.last
           active == IF s.active # n THEN s.active ELSE IF left = <<>> THEN "" ELSE left[1].name
<1>1. s.ai \in Seq(AiProfile) /\ s \in Preferences /\ s.active \in Label \cup {""} /\ s.last \in Label \cup {""}
  BY DEF WholeCopy, Preferences
<1>2. Different(s.ai)
  BY DEF WholeCopy, OnePiece, Different
<1>3. left \in Seq(AiProfile) /\ \A m : m # n /\ HasLabel(s.ai, m) => HasLabel(left, m)
  BY <1>1, WithoutIs
<1>4. PICK g \in [DOMAIN left -> DOMAIN s.ai] :
        /\ \A i, j \in DOMAIN g : g[i] = g[j] => i = j
        /\ \A i \in DOMAIN g : s.ai[g[i]].name # n /\ left[i] = s.ai[g[i]]
  <2>1. IsWithout(left, s.ai, n)
    BY <1>1, WithoutIs
  <2> QED BY <2>1 DEF IsWithout
<1>5. Different(left)
  BY <1>2, <1>4 DEF Different
<1>6. (IF s.ai = <<>> THEN s.active = "" ELSE HasLabel(s.ai, s.active)) /\ (s.last = "" \/ HasLabel(s.ai, s.last))
  BY DEF WholeCopy, OnePiece, Different
<1>7. RemoveAi(s, n) = [s EXCEPT !.ai = left, !.active = active, !.last = last]
  BY <1>1 DEF RemoveAi, Preferences
<1> HIDE DEF left
<1>8. last \in Label \cup {""} /\ (last = "" \/ HasLabel(left, last))
  BY <1>1, <1>3, <1>6
<1>9. left # <<>> => 1 \in DOMAIN left /\ left[1].name \in Label /\ HasLabel(left, left[1].name)
  <2>1. left # <<>> => 1 \in DOMAIN left /\ left[1] \in AiProfile
    BY <1>3, EmptySeq, LenProperties
  <2> QED BY <2>1 DEF AiProfile, HasLabel
<1>10. s.ai = <<>> => left = <<>>
  <2>1. ASSUME s.ai = <<>>, 1 \in DOMAIN left PROVE FALSE
    <3>1. g[1] \in DOMAIN s.ai
      BY <1>4, <2>1
    <3> QED BY <2>1, <3>1
  <2> QED BY <1>9, <2>1
<1>11. active \in Label \cup {""} /\ IF left = <<>> THEN active = "" ELSE HasLabel(left, active)
  <2>1. CASE s.active = n
    BY <1>9, <2>1
  <2>2. CASE s.active # n /\ s.ai = <<>>
    BY <1>1, <1>6, <1>10, <2>2
  <2>3. CASE s.active # n /\ s.ai # <<>>
    <3>1. HasLabel(left, s.active)
      BY <1>3, <1>6, <2>3
    <3>2. left # <<>>
      BY <3>1 DEF HasLabel
    <3> QED BY <1>1, <2>3, <3>1, <3>2
  <2> QED BY <2>1, <2>2, <2>3
<1> HIDE DEF active, last
<1> QED BY <1>3, <1>5, <1>7, <1>8, <1>11, AiPart

\* Which is active, and which the rules dialog has chosen
LEMMA SetsActive ==
  ASSUME NEW s, NEW u, WholeCopy(s, u), NEW n \in Label
  PROVE  WholeCopy(SetActive(s, n), u)
<1>1. s.ai \in Seq(AiProfile) /\ s \in Preferences /\ s.active \in Label \cup {""} /\ s.last \in Label \cup {""}
  BY DEF WholeCopy, Preferences
<1>2. CASE HasLabel(s.ai, n)
  <2>1. SetActive(s, n) = [s EXCEPT !.ai = s.ai, !.active = n, !.last = s.last]
    BY <1>1, <1>2 DEF SetActive, Preferences
  <2>2. s.ai # <<>>
    BY <1>2 DEF HasLabel
  <2>3. (Different(s.ai)) /\ (s.last = "" \/ HasLabel(s.ai, s.last))
    BY DEF WholeCopy, OnePiece, Different
  <2> QED BY <1>1, <1>2, <2>1, <2>2, <2>3, AiPart
<1>3. CASE ~HasLabel(s.ai, n)
  BY <1>3 DEF SetActive
<1> QED BY <1>2, <1>3

\* The choice of the rules dialog
LEMMA ChoosesLast ==
  ASSUME NEW s, NEW u, WholeCopy(s, u), NEW n \in Label, HasLabel(s.ai, n)
  PROVE  WholeCopy([s EXCEPT !.last = n], u)
<1>1. s.ai \in Seq(AiProfile) /\ s \in Preferences /\ s.active \in Label \cup {""} /\ s.last \in Label \cup {""}
  BY DEF WholeCopy, Preferences
<1>2. [s EXCEPT !.last = n] = [s EXCEPT !.ai = s.ai, !.active = s.active, !.last = n]
  BY <1>1 DEF Preferences
<1>3. (Different(s.ai)) /\ IF s.ai = <<>> THEN s.active = "" ELSE HasLabel(s.ai, s.active)
  BY DEF WholeCopy, OnePiece, Different
<1> QED BY <1>1, <1>2, <1>3, AiPart

\* Only profiles of proxies and the routes change.
LEMMA ProxyPart ==
  ASSUME NEW s, NEW u \in Nat, NEW v \in Nat, u <= v, WholeCopy(s, u), NEW t,
         NEW px \in Seq(ProxyProfile), NEW routes \in [Consumer -> [profile : Nat, node : Nat]],
         t = [s EXCEPT !.px = px, !.routes = routes],
         ProxiesApart(px), RoutesClean(routes), IdsOut(px, v), RoutesOut(routes, v)
  PROVE  WholeCopy(t, v)
<1>1. s \in Preferences
  BY DEF WholeCopy
<1>2. t \in Preferences
  BY <1>1 DEF Preferences
<1>3. t.ai = s.ai /\ t.active = s.active /\ t.last = s.last /\ t.px = px /\ t.routes = routes /\ t.paths = s.paths
  BY <1>1 DEF Preferences
<1>4. AiWhole(s.ai, s.active, s.last) /\ PathsFew(s.paths)
  BY WholeIs
<1> QED BY <1>2, <1>3, <1>4, WholeIs

\* Only the routes change.
LEMMA RoutesPart ==
  ASSUME NEW s, NEW u \in Nat, WholeCopy(s, u), NEW routes \in [Consumer -> [profile : Nat, node : Nat]],
         RoutesClean(routes), RoutesOut(routes, u)
  PROVE  WholeCopy([s EXCEPT !.routes = routes], u)
<1>1. s \in Preferences /\ s.px \in Seq(ProxyProfile)
  BY DEF WholeCopy, Preferences
<1>2. [s EXCEPT !.routes = routes] = [s EXCEPT !.px = s.px, !.routes = routes]
  BY <1>1 DEF Preferences
<1>3. ProxiesApart(s.px) /\ IdsOut(s.px, u) /\ u <= u
  BY WholeIs
<1> QED BY <1>1, <1>2, <1>3, ProxyPart

\* What a copy that is whole has of proxies and routes
LEMMA ProxiesOf ==
  ASSUME NEW s, NEW u \in Nat, WholeCopy(s, u)
  PROVE  /\ s \in Preferences /\ s.px \in Seq(ProxyProfile) /\ s.routes \in [Consumer -> [profile : Nat, node : Nat]]
         /\ ProxiesApart(s.px) /\ RoutesClean(s.routes) /\ IdsOut(s.px, u) /\ RoutesOut(s.routes, u) /\ Different(s.px)
         /\ \A i \in DOMAIN s.px : s.px[i].id \in 1 .. u /\ s.px[i].id \in Nat /\ s.px[i].id # 0 /\ s.px[i].ends \in EndLists
                                   /\ s.px[i].name \in Label
<1>1. s \in Preferences /\ s.px \in Seq(ProxyProfile) /\ s.routes \in [Consumer -> [profile : Nat, node : Nat]]
  BY DEF WholeCopy, Preferences
<1>2. ProxiesApart(s.px) /\ RoutesClean(s.routes) /\ IdsOut(s.px, u) /\ RoutesOut(s.routes, u)
  BY WholeIs
<1>3. ASSUME NEW i \in DOMAIN s.px
      PROVE s.px[i].id \in 1 .. u /\ s.px[i].id \in Nat /\ s.px[i].id # 0 /\ s.px[i].ends \in EndLists /\ s.px[i].name \in Label
  <2>1. s.px[i] \in ProxyProfile
    BY <1>1, LenProperties
  <2> QED BY <1>2, <2>1 DEF IdsOut, ProxyProfile
<1>4. Different(s.px)
  BY <1>2 DEF ProxiesApart, Different
<1> QED BY <1>1, <1>2, <1>3, <1>4

\* A proxy profile is saved with an id that nobody has.
LEMMA SavesProxy ==
  ASSUME NEW s, NEW u \in Nat, NEW v \in Nat, u < v, WholeCopy(s, u), NEW p \in ProxyProfile, p.id = v, IsInjective(p.ends)
  PROVE  WholeCopy(SaveProxy(s, p), v) /\ HasLabel(SaveProxy(s, p).px, p.name)
<1> DEFINE px == Upsert(s.px, p)
<1>1. s \in Preferences /\ s.px \in Seq(ProxyProfile) /\ Different(s.px) /\ s.routes \in [Consumer -> [profile : Nat, node : Nat]]
      /\ RoutesClean(s.routes) /\ RoutesOut(s.routes, u) /\ ProxiesApart(s.px) /\ IdsOut(s.px, u)
  BY ProxiesOf
<1>2. px \in Seq(ProxyProfile) /\ HasInPlace(px, s.px, p)
  BY <1>1, UpsertIs
<1>3. Different(px) /\ HasLabel(px, p.name)
  BY <1>1, UpsertNames
<1>4. SaveProxy(s, p) = [s EXCEPT !.px = px, !.routes = s.routes] /\ SaveProxy(s, p).px = px
  BY <1>1 DEF SaveProxy, Preferences
<1> HIDE DEF px
<1>5. PICK k \in DOMAIN px : /\ px[k] = p
                             /\ \A i \in DOMAIN px : i # k => i \in DOMAIN s.px /\ px[i] = s.px[i]
  BY <1>2 DEF HasInPlace
<1>6. \A i \in DOMAIN px : i # k => px[i].id \in 1 .. u /\ px[i].id # p.id /\ IsInjective(px[i].ends)
  BY <1>1, <1>5 DEF IdsOut, ProxiesApart
<1>7. ASSUME NEW i \in DOMAIN px, NEW j \in DOMAIN px, px[i].name = px[j].name \/ px[i].id = px[j].id PROVE i = j
  <2>1. CASE px[i].name = px[j].name
    BY <1>3, <2>1 DEF Different
  <2>2. CASE px[i].id = px[j].id
    <3>1. (i = k /\ j = k) \/ (i # k /\ j # k)
      BY <1>5, <1>6, <2>2
    <3>2. CASE i # k /\ j # k
      <4>1. i \in DOMAIN s.px /\ j \in DOMAIN s.px /\ s.px[i].id = s.px[j].id
        BY <1>5, <2>2, <3>2
      <4> QED BY <1>1, <4>1 DEF ProxiesApart
    <3> QED BY <3>1, <3>2
  <2> QED BY <1>7, <2>1, <2>2
<1>8. ProxiesApart(px)
  <2>1. \A i \in DOMAIN px : IsInjective(px[i].ends)
    BY <1>5, <1>6
  <2> QED BY <1>7, <2>1 DEF ProxiesApart
<1>9. IdsOut(px, v)
  <2>1. \A m \in 1 .. u : m \in 1 .. v
    OBVIOUS
  <2>2. v \in 1 .. v
    OBVIOUS
  <2> QED BY <1>5, <1>6, <2>1, <2>2 DEF IdsOut
<1>10. RoutesOut(s.routes, v)
  <2>1. \A m \in 0 .. u : m \in 0 .. v
    OBVIOUS
  <2> QED BY <1>1, <2>1 DEF RoutesOut
<1>11. u <= v
  OBVIOUS
<1> QED BY <1>1, <1>2, <1>3, <1>4, <1>8, <1>9, <1>10, <1>11, ProxyPart

\* A proxy profile is removed, and with it the routes to it.
LEMMA RemovesProxy ==
  ASSUME NEW s, NEW u \in Nat, WholeCopy(s, u), NEW n
  PROVE  WholeCopy(RemoveProxy(s, n), u)
<1> DEFINE px == Without(s.px, n)
           gone == IF HasLabel(s.px, n) THEN s.px[PlaceIn(s.px, n)].id ELSE 0
           routes == [c \in Consumer |-> IF s.routes[c].profile = gone THEN Unset ELSE s.routes[c]]
<1>1. s \in Preferences /\ s.px \in Seq(ProxyProfile) /\ s.routes \in [Consumer -> [profile : Nat, node : Nat]]
      /\ RoutesClean(s.routes) /\ RoutesOut(s.routes, u) /\ ProxiesApart(s.px) /\ IdsOut(s.px, u)
  BY ProxiesOf
<1>2. px \in Seq(ProxyProfile) /\ IsWithout(px, s.px, n)
  BY <1>1, WithoutIs
<1>3. RemoveProxy(s, n) = [s EXCEPT !.px = px, !.routes = routes]
  BY <1>1 DEF RemoveProxy, Preferences
<1> HIDE DEF px, gone
<1>4. PICK g \in [DOMAIN px -> DOMAIN s.px] : /\ \A i, j \in DOMAIN g : g[i] = g[j] => i = j
                                              /\ \A i \in DOMAIN g : px[i] = s.px[g[i]]
  BY <1>2 DEF IsWithout
<1>5. ASSUME NEW i \in DOMAIN px PROVE g[i] \in DOMAIN s.px /\ px[i] = s.px[g[i]]
  BY <1>4
<1>6. ASSUME NEW i \in DOMAIN px, NEW j \in DOMAIN px, px[i].name = px[j].name \/ px[i].id = px[j].id PROVE i = j
  <2>1. g[i] = g[j]
    BY <1>1, <1>5, <1>6 DEF ProxiesApart
  <2> QED BY <1>4, <2>1
<1>7. ProxiesApart(px)
  <2>1. \A i \in DOMAIN px : IsInjective(px[i].ends)
    BY <1>1, <1>5 DEF ProxiesApart
  <2> QED BY <1>6, <2>1 DEF ProxiesApart
<1>8. IdsOut(px, u)
  BY <1>1, <1>5 DEF IdsOut
<1>9. routes \in [Consumer -> [profile : Nat, node : Nat]] /\ RoutesClean(routes) /\ RoutesOut(routes, u)
  <2>1. Unset \in [profile : Nat, node : Nat] /\ Unset.profile = 0 /\ Unset.node = 0 /\ 0 \in 0 .. u
    BY DEF Unset
  <2> QED BY <1>1, <2>1 DEF RoutesClean, RoutesOut
<1> HIDE DEF routes
<1>10. u <= u
  OBVIOUS
<1> QED BY <1>1, <1>2, <1>3, <1>7, <1>8, <1>9, <1>10, ProxyPart

\* A route leads to an id that is out, and to no node if to none.
LEMMA SetsRoute ==
  ASSUME NEW s, NEW u \in Nat, WholeCopy(s, u), NEW c \in Consumer, NEW id \in 0 .. u, NEW node \in Nat, id = 0 => node = 0
  PROVE  WholeCopy(SetRoute(s, c, id, node), u)
<1> DEFINE routes == [s.routes EXCEPT ![c] = [profile |-> id, node |-> node]]
<1>1. s \in Preferences /\ s.routes \in [Consumer -> [profile : Nat, node : Nat]] /\ RoutesClean(s.routes) /\ RoutesOut(s.routes, u)
  BY ProxiesOf
<1>2. SetRoute(s, c, id, node) = [s EXCEPT !.routes = routes]
  BY <1>1 DEF SetRoute, Preferences
<1>3. routes \in [Consumer -> [profile : Nat, node : Nat]] /\ RoutesClean(routes) /\ RoutesOut(routes, u)
  BY <1>1 DEF RoutesClean, RoutesOut
<1> HIDE DEF routes
<1> QED BY <1>2, <1>3, RoutesPart

\* Who asks for a route that dangles drops it.
LEMMA AsksRoute ==
  ASSUME NEW s, NEW u \in Nat, WholeCopy(s, u)
  PROVE  WholeCopy(AllAsked(s), u) /\ (\A c \in Consumer : WholeCopy(Asked(s, c), u)) /\ AllAsked(s).px = s.px
         /\ \A c \in Consumer : Asked(s, c).px = s.px
<1>1. s \in Preferences /\ s.routes \in [Consumer -> [profile : Nat, node : Nat]] /\ RoutesClean(s.routes) /\ RoutesOut(s.routes, u)
  BY ProxiesOf
<1>2. Unset \in [profile : Nat, node : Nat] /\ Unset.profile = 0 /\ Unset.node = 0 /\ 0 \in 0 .. u
  BY DEF Unset
<1>3. WholeCopy(AllAsked(s), u) /\ AllAsked(s).px = s.px
  <2> DEFINE routes == [c \in Consumer |-> IF Dangling(s, c) THEN Unset ELSE s.routes[c]]
  <2>1. AllAsked(s) = [s EXCEPT !.routes = routes] /\ AllAsked(s).px = s.px
    BY <1>1 DEF AllAsked, Preferences
  <2>2. routes \in [Consumer -> [profile : Nat, node : Nat]] /\ RoutesClean(routes) /\ RoutesOut(routes, u)
    BY <1>1, <1>2 DEF RoutesClean, RoutesOut
  <2> HIDE DEF routes
  <2> QED BY <2>1, <2>2, RoutesPart
<1>4. ASSUME NEW c \in Consumer PROVE WholeCopy(Asked(s, c), u) /\ Asked(s, c).px = s.px
  <2> DEFINE routes == [s.routes EXCEPT ![c] = Unset]
  <2>1. Asked(s, c) = [s EXCEPT !.routes = routes] \/ Asked(s, c) = s
    BY <1>1 DEF Asked, Preferences
  <2>2. routes \in [Consumer -> [profile : Nat, node : Nat]] /\ RoutesClean(routes) /\ RoutesOut(routes, u)
    BY <1>1, <1>2 DEF RoutesClean, RoutesOut
  <2> HIDE DEF routes
  <2>3. [s EXCEPT !.routes = routes].px = s.px
    BY <1>1 DEF Preferences
  <2>4. WholeCopy([s EXCEPT !.routes = routes], u)
    BY <2>2, RoutesPart
  <2> QED BY <2>1, <2>3, <2>4
<1> QED BY <1>3, <1>4

\* The latest directory is the first, and the last falls out.
LEMMA AddsPath ==
  ASSUME NEW s, NEW u \in Nat, WholeCopy(s, u), NEW d \in Dir
  PROVE  WholeCopy(AddPath(s, d), u) /\ AddPath(s, d).px = s.px
<1> DEFINE places == {i \in DOMAIN s.paths : s.paths[i] # d}
           kept == Kept(s.paths, places)
           all == <<d>> \o kept
           n == IF Len(all) > MaxPaths THEN MaxPaths ELSE Len(all)
           paths == SubSeq(all, 1, n)
<1>1. s \in Preferences /\ s.paths \in Seq(Dir) /\ MaxPaths \in Nat \ {0} /\ PathsFew(s.paths)
  BY WholeIs, ProfilesAssumption DEF Preferences
<1>2. kept \in Seq(Dir) /\ IsPick(kept, s.paths, places)
  BY <1>1, KeptIs
<1>3. AddPath(s, d) = [s EXCEPT !.paths = paths]
  BY DEF AddPath
<1>4. \A i \in places : i \in DOMAIN s.paths /\ s.paths[i] # d
  OBVIOUS
<1> HIDE DEF places, kept
<1>5. PICK g \in [DOMAIN kept -> DOMAIN s.paths] :
        /\ \A i, j \in DOMAIN g : g[i] = g[j] => i = j
        /\ \A i \in DOMAIN g : g[i] \in places /\ kept[i] = s.paths[g[i]]
  BY <1>2 DEF IsPick
<1>6. DOMAIN kept = 1 .. Len(kept) /\ Len(kept) \in Nat
  BY <1>2, LenProperties
<1>7. \A i, j \in 1 .. Len(kept) : kept[i] = kept[j] => i = j
  <2>1. \A a, b \in DOMAIN s.paths : s.paths[a] = s.paths[b] => a = b
    BY <1>1 DEF PathsFew, IsInjective
  <2> QED BY <1>5, <1>6, <2>1
<1>8. \A i \in 1 .. Len(kept) : kept[i] # d
  BY <1>4, <1>5, <1>6
<1>9. /\ all \in Seq(Dir) /\ Len(all) = 1 + Len(kept)
      /\ all[1] = d /\ \A i \in 2 .. 1 + Len(kept) : all[i] = kept[i - 1]
  <2>1. <<d>> \in Seq(Dir) /\ Len(<<d>>) = 1 /\ <<d>>[1] = d
    OBVIOUS
  <2> QED BY <1>2, <1>6, <2>1, ConcatProperties
<1> HIDE DEF all
<1>10. n \in 1 .. Len(all) /\ n <= MaxPaths /\ n \in Nat
  BY <1>1, <1>6, <1>9
<1> HIDE DEF n
<1>11. \A i, j \in 1 .. Len(all) : all[i] = all[j] => i = j
  <2>1. \A i \in 1 .. Len(all) : i = 1 \/ (i \in 2 .. 1 + Len(kept) /\ i - 1 \in 1 .. Len(kept))
    BY <1>6, <1>9
  <2> QED BY <1>7, <1>8, <1>9, <2>1
<1>12. \A i \in 1 .. n : all[i] \in Dir /\ i \in 1 .. Len(all)
  BY <1>9, <1>10, LenProperties
<1>13. /\ paths \in Seq(Dir) /\ Len(paths) = n /\ \A i \in 1 .. n : paths[i] = all[i]
  <2>1. 1 \in Int /\ n \in Int /\ 1 <= n /\ n - 1 + 1 = n
    BY <1>10
  <2>2. paths \in Seq(Dir) /\ Len(paths) = n - 1 + 1 /\ \A i \in 1 .. n - 1 + 1 : paths[i] = all[1 + i - 1]
    BY <1>12, <2>1, SubSeqProperties
  <2> QED BY <1>10, <2>1, <2>2
<1> HIDE DEF paths
<1>14. DOMAIN paths = 1 .. n
  BY <1>13, LenProperties
<1>15. PathsFew(paths)
  BY <1>10, <1>11, <1>12, <1>13, <1>14 DEF PathsFew, IsInjective
<1>16. AddPath(s, d) \in Preferences
  BY <1>1, <1>3, <1>13 DEF Preferences
<1>17. /\ AddPath(s, d).ai = s.ai /\ AddPath(s, d).active = s.active /\ AddPath(s, d).last = s.last
       /\ AddPath(s, d).px = s.px /\ AddPath(s, d).routes = s.routes /\ AddPath(s, d).paths = paths
  BY <1>1, <1>3 DEF Preferences
<1>18. /\ AiWhole(s.ai, s.active, s.last) /\ ProxiesApart(s.px) /\ RoutesClean(s.routes)
       /\ IdsOut(s.px, u) /\ RoutesOut(s.routes, u)
  BY WholeIs
<1> QED BY <1>15, <1>16, <1>17, <1>18, WholeIs

Profile == IF topic = "ai" THEN AiProfile ELSE ProxyProfile
PageWhole(pg, u) ==
  /\ pg \in PageRecords /\ pg.list \in Seq(Profile) /\ pg.editing \in Profile \cup {Missing}
  /\ topic # "ai" => \A i \in DOMAIN pg.list : pg.list[i].id \in 1 .. u
CmdWhole(cm, u) ==
  /\ WholeCopy(cm.copy, u) /\ cm.name \in Label /\ cm.verb \in Verbs
  /\ cm.verb \notin {"add", "visit"} => HasLabel(List(cm.copy), cm.name)
PrefsInv ==
  /\ topic \in {"ai", "proxy", "paths"} /\ edits \in 0 .. MaxEdits /\ cmds \in 0 .. MaxCommands /\ uuids \in Nat
  /\ trialOf \in Label \cup {""} /\ chosen \in Label \cup {""} /\ proxySession \in EndLists \cup {<<>>}
  /\ stored = Missing \/ WholeCopy(stored, uuids)
  /\ mem = Missing \/ WholeCopy(mem, uuids)
  /\ cmd = Missing \/ CmdWhole(cmd, uuids)
  /\ page = Missing \/ (PageWhole(page, uuids) /\ mem # Missing)
  /\ trialOf # "" => page # Missing
  /\ mem = Missing => chosen = "" /\ proxySession = <<>>
  /\ SessionFresh

\* A copy that is whole is there.
LEMMA WholeIsThere ==
  ASSUME NEW s, NEW u, WholeCopy(s, u) PROVE s # Missing
BY ProfilesAssumption DEF WholeCopy

\* What the invariant says
LEMMA PrefsInvShows == PrefsInv => SettingsSound /\ PrefsTypeOK
<1> SUFFICES ASSUME PrefsInv PROVE SettingsSound /\ PrefsTypeOK
  OBVIOUS
<1>1. \A s \in Stores : WholeCopy(s, uuids)
  BY DEF PrefsInv, Stores, CmdWhole
<1>2. OfOnePiece
  BY <1>1 DEF OfOnePiece, WholeCopy
<1>3. ASSUME NEW s \in Stores
      PROVE  /\ s.active \in Label \cup {""} /\ s.last \in Label \cup {""}
             /\ \A i \in DOMAIN s.ai : s.ai[i] \in AiProfile
             /\ \A i \in DOMAIN s.px : s.px[i] \in ProxyProfile /\ s.px[i].id \in 1 .. uuids
             /\ \A c \in Consumer : s.routes[c].profile \in 0 .. uuids
  <2>1. WholeCopy(s, uuids) /\ s \in Preferences
    BY <1>1 DEF WholeCopy
  <2>2. s.ai \in Seq(AiProfile) /\ s.px \in Seq(ProxyProfile) /\ s.active \in Label \cup {""} /\ s.last \in Label \cup {""}
    BY <2>1 DEF Preferences
  <2>3. (\A i \in DOMAIN s.ai : s.ai[i] \in AiProfile) /\ \A i \in DOMAIN s.px : s.px[i] \in ProxyProfile
    BY <2>2, LenProperties
  <2> QED BY <2>1, <2>2, <2>3 DEF WholeCopy
<1> QED BY <1>2, <1>3 DEF PrefsInv, SettingsSound, PrefsTypeOK

\* What a user sees when nothing was ever written
LEMMA FreshWhole == ASSUME NEW u \in Nat PROVE WholeCopy(FreshPrefs, u)
<1>1. FreshPrefs \in Preferences
  BY EmptySeq DEF FreshPrefs, Preferences, Unset
<1>2. AiWhole(<<>>, "", "") /\ ProxiesApart(<<>>) /\ IdsOut(<<>>, u)
  BY DEF AiWhole, ProxiesApart, IdsOut
<1>3. PathsFew(<<>>)
  BY ProfilesAssumption, EmptySeq DEF PathsFew, IsInjective
<1>4. RoutesClean([c \in Consumer |-> Unset]) /\ RoutesOut([c \in Consumer |-> Unset], u)
  BY DEF RoutesClean, RoutesOut, Unset
<1>5. /\ FreshPrefs.ai = <<>> /\ FreshPrefs.active = "" /\ FreshPrefs.last = "" /\ FreshPrefs.px = <<>>
      /\ FreshPrefs.routes = [c \in Consumer |-> Unset] /\ FreshPrefs.paths = <<>>
  BY DEF FreshPrefs
<1> QED BY <1>1, <1>2, <1>3, <1>4, <1>5, WholeIs

\* What a process that starts reads from the file is whole (load_settings).
LEMMA LoadedWhole == ASSUME PrefsInv PROVE WholeCopy(Loaded, uuids)
BY FreshWhole DEF PrefsInv, Loaded

\* A copy whose pieces are whole makes a page that is.
LEMMA PageOfWhole ==
  ASSUME NEW s, NEW u \in Nat, WholeCopy(s, u)
  PROVE  PageWhole(PageOf(s), u) /\ PageOf(s) # Missing
<1>1. /\ s.ai \in Seq(AiProfile) /\ s.px \in Seq(ProxyProfile) /\ s.active \in Label \cup {""}
      /\ \A i \in DOMAIN s.px : s.px[i].id \in 1 .. u
  BY DEF WholeCopy, Preferences
<1>2. List(s) \in Seq(Profile) /\ List(s) \in Seq(AiProfile) \cup Seq(ProxyProfile)
  BY <1>1 DEF List, Profile
<1>3. PageOf(s) \in PageRecords /\ PageOf(s).list = List(s) /\ PageOf(s).editing = Missing
  BY <1>1, <1>2 DEF PageOf, PageRecords
<1>4. topic # "ai" => \A i \in DOMAIN List(s) : List(s)[i].id \in 1 .. u
  BY <1>1 DEF List
<1>5. PageWhole(PageOf(s), u)
  BY <1>2, <1>3, <1>4 DEF PageWhole
<1>6. PageOf(s) # Missing
  BY <1>3, ProfilesAssumption
<1> QED BY <1>5, <1>6

\* A page that is whole is open.
LEMMA PageIsThere ==
  ASSUME NEW pg, NEW u, PageWhole(pg, u) PROVE pg # Missing
BY ProfilesAssumption DEF PageWhole

\* A page stays whole when more ids were given out.
LEMMA PageGrows ==
  ASSUME NEW pg, NEW u \in Nat, NEW v \in Nat, u <= v, PageWhole(pg, u)
  PROVE  PageWhole(pg, v) /\ pg # Missing
<1>1. \A m \in 1 .. u : m \in 1 .. v
  OBVIOUS
<1>2. pg # Missing
  BY ProfilesAssumption DEF PageWhole
<1> QED BY <1>1, <1>2 DEF PageWhole

\* Steps that are whole leave whole what is written and what is in memory.
LEMMA WritesWhole ==
  ASSUME NEW steps, NEW n \in Nat \ {0}, DOMAIN steps = 1 .. n, Len(steps) = n, NEW u \in Nat,
         \A k \in 1 .. n : WholeCopy(steps[k], u), stored = Missing \/ WholeCopy(stored, u), Writes(steps), edits \in 0 .. MaxEdits
  PROVE  /\ WholeCopy(mem', u) /\ (stored' = Missing \/ WholeCopy(stored', u)) /\ edits' \in 0 .. MaxEdits
         /\ mem' \in {steps[k] : k \in 1 .. n}
<1>1. Last(steps) = steps[n] /\ n \in 1 .. n
  BY DEF Last
<1>2. edits' \in 0 .. MaxEdits
  BY ProfilesAssumption DEF Writes
<1>3. CASE mem' = Last(steps) /\ stored' = Last(steps)
  BY <1>1, <1>2, <1>3
<1>4. ASSUME NEW k \in DOMAIN steps, mem' = steps[k], stored' = IF k = 1 THEN stored ELSE steps[k - 1]
      PROVE  WholeCopy(mem', u) /\ (stored' = Missing \/ WholeCopy(stored', u)) /\ mem' \in {steps[m] : m \in 1 .. n}
  <2>1. k = 1 \/ k - 1 \in 1 .. n
    BY <1>4
  <2> QED BY <1>4, <2>1
<1> QED BY <1>2, <1>3, <1>4 DEF Writes

\* The page after a write
LEMMA RefreshedWhole ==
  ASSUME NEW steps, NEW u \in Nat, WholeCopy(mem', u), PageWhole(page, u), Refreshed(steps), topic' = topic
  PROVE  PageWhole(page', u) /\ page' # Missing
<1>1. CASE page' = PageOf(mem')
  BY <1>1, PageOfWhole
<1>2. CASE page' = [page EXCEPT !.editing = Missing]
  <2>1. page' \in PageRecords /\ page'.list = page.list /\ page'.editing = Missing
    BY <1>2 DEF PageWhole, PageRecords
  <2>2. PageWhole(page', u)
    BY <2>1 DEF PageWhole
  <2> QED BY <2>2, PageGrows
<1> QED BY <1>1, <1>2 DEF Refreshed

\* What has to be seen of a step
LEMMA PrefsInvFrom ==
  ASSUME PrefsInv, topic' = topic, uuids' \in Nat,
         edits' \in 0 .. MaxEdits, cmds' \in 0 .. MaxCommands,
         trialOf' \in Label \cup {""}, chosen' \in Label \cup {""}, proxySession' \in EndLists \cup {<<>>},
         stored' = Missing \/ WholeCopy(stored', uuids'), mem' = Missing \/ WholeCopy(mem', uuids'),
         cmd' = Missing \/ CmdWhole(cmd', uuids'),
         page' = Missing \/ (PageWhole(page', uuids') /\ mem' # Missing),
         trialOf' # "" => page' # Missing,
         mem' = Missing => chosen' = "" /\ proxySession' = <<>>,
         page' = Missing /\ mem' # Missing =>
           (chosen' = "" \/ HasLabel(mem'.px, chosen')) /\ proxySession' = Endpoints(mem', chosen')
  PROVE  PrefsInv'
<1>1. topic' \in {"ai", "proxy", "paths"}
  BY DEF PrefsInv
<1>2. cmd' = Missing \/ CmdWhole(cmd, uuids)'
  BY DEF CmdWhole, Verbs, List
<1>3. page' = Missing \/ (PageWhole(page, uuids)' /\ mem' # Missing)
  BY DEF PageWhole, Profile
<1>4. SessionFresh'
  BY DEF SessionFresh
<1> QED BY <1>1, <1>2, <1>3, <1>4 DEF PrefsInv

\* So does the command that runs.
LEMMA CmdGrows ==
  ASSUME PrefsInv, NEW v \in Nat, uuids <= v
  PROVE  cmd = Missing \/ CmdWhole(cmd, v)
<1>1. cmd # Missing => CmdWhole(cmd, uuids) /\ uuids \in Nat
  BY DEF PrefsInv
<1>2. cmd # Missing => WholeCopy(cmd.copy, v)
  BY <1>1, WholeGrows DEF CmdWhole
<1> QED BY <1>1, <1>2 DEF CmdWhole

\* The page stays open: whatever the window writes, its session is seen to later.
LEMMA PageStep ==
  ASSUME PrefsInv, topic' = topic, uuids' \in Nat, uuids <= uuids', edits' \in 0 .. MaxEdits,
         UNCHANGED <<cmd, cmds, chosen, proxySession>>, trialOf' \in Label \cup {""},
         stored' = Missing \/ WholeCopy(stored', uuids'), WholeCopy(mem', uuids'), PageWhole(page', uuids')
  PROVE  PrefsInv'
<1>1. page' # Missing /\ mem' # Missing
  BY WholeIsThere, PageIsThere
<1>2. cmd' = Missing \/ CmdWhole(cmd', uuids')
  <2>1. cmd = Missing \/ CmdWhole(cmd, uuids')
    BY CmdGrows
  <2> QED BY <2>1
<1>3. cmds' \in 0 .. MaxCommands /\ chosen' \in Label \cup {""} /\ proxySession' \in EndLists \cup {<<>>}
  BY DEF PrefsInv
<1> QED BY <1>1, <1>2, <1>3, PrefsInvFrom

\* Only the file and the window's copy change, and the profiles of proxies do not.
LEMMA ProxiesStay ==
  ASSUME PrefsInv, UNCHANGED <<topic, page, trialOf, chosen, proxySession, cmd, uuids, cmds>>,
         mem # Missing, edits' \in 0 .. MaxEdits, stored' = Missing \/ WholeCopy(stored', uuids), WholeCopy(mem', uuids), mem'.px = mem.px
  PROVE  PrefsInv'
<1>1. /\ uuids' \in Nat /\ cmds' \in 0 .. MaxCommands
      /\ chosen' \in Label \cup {""} /\ proxySession' \in EndLists \cup {<<>>} /\ trialOf' \in Label \cup {""}
      /\ trialOf' # "" => page' # Missing
  BY DEF PrefsInv
<1>2. mem' # Missing
  BY WholeIsThere
<1>3. stored' = Missing \/ WholeCopy(stored', uuids')
  OBVIOUS
<1>4. mem' = Missing \/ WholeCopy(mem', uuids')
  OBVIOUS
<1>5. cmd' = Missing \/ CmdWhole(cmd', uuids')
  <2>1. cmd = Missing \/ CmdWhole(cmd, uuids)
    BY DEF PrefsInv
  <2> QED BY <2>1
<1>6. page' = Missing \/ (PageWhole(page', uuids') /\ mem' # Missing)
  <2>1. page = Missing \/ PageWhole(page, uuids)
    BY DEF PrefsInv
  <2> QED BY <1>2, <2>1
<1>7. page' = Missing => (chosen' = "" \/ HasLabel(mem'.px, chosen')) /\ proxySession' = Endpoints(mem', chosen')
  <2>1. page = Missing => (chosen = "" \/ HasLabel(mem.px, chosen)) /\ proxySession = Endpoints(mem, chosen)
    BY DEF PrefsInv, SessionFresh
  <2>2. Endpoints(mem', chosen) = Endpoints(mem, chosen)
    BY DEF Endpoints
  <2> QED BY <2>1, <2>2
<1>8. topic' = topic /\ edits' \in 0 .. MaxEdits
  OBVIOUS
<1>9. mem' = Missing => chosen' = "" /\ proxySession' = <<>>
  BY <1>2
<1>10. page' = Missing /\ mem' # Missing =>
         (chosen' = "" \/ HasLabel(mem'.px, chosen')) /\ proxySession' = Endpoints(mem', chosen')
  BY <1>7
<1> QED BY <1>1, <1>3, <1>4, <1>5, <1>6, <1>8, <1>9, <1>10, PrefsInvFrom

\* One write
LEMMA WritesOne ==
  ASSUME PrefsInv, NEW x, NEW u \in Nat, uuids <= u, WholeCopy(x, u), Writes(<<x>>)
  PROVE  /\ WholeCopy(mem', u) /\ (stored' = Missing \/ WholeCopy(stored', u)) /\ edits' \in 0 .. MaxEdits /\ mem' = x
<1> DEFINE steps == <<x>>
<1>1. DOMAIN steps = 1 .. 1 /\ Len(steps) = 1 /\ steps[1] = x
  OBVIOUS
<1>2. Writes(steps)
  OBVIOUS
<1> HIDE DEF steps
<1>3. stored = Missing \/ WholeCopy(stored, u)
  BY WholeGrows DEF PrefsInv
<1>4. edits \in 0 .. MaxEdits
  BY DEF PrefsInv
<1>5. \A k \in 1 .. 1 : k = 1
  OBVIOUS
<1>6. \A k \in 1 .. 1 : WholeCopy(steps[k], u)
  BY <1>1, <1>5
<1>7. /\ WholeCopy(mem', u) /\ (stored' = Missing \/ WholeCopy(stored', u)) /\ edits' \in 0 .. MaxEdits
      /\ mem' \in {steps[k] : k \in 1 .. 1}
  <2>1. 1 \in Nat \ {0}
    OBVIOUS
  <2> QED BY <1>1, <1>2, <1>3, <1>4, <1>6, <2>1, WritesWhole
<1> QED BY <1>1, <1>5, <1>7

\* The page writes once and shows what is in memory.
LEMMA PageWritesOne ==
  ASSUME PrefsInv, NEW x, uuids' \in Nat, uuids <= uuids', WholeCopy(x, uuids'), Writes(<<x>>), Refreshed(<<x>>), page # Missing,
         topic' = topic, UNCHANGED <<cmd, cmds, chosen, proxySession, trialOf>>
  PROVE  PrefsInv'
<1>1. PICK u \in Nat : u = uuids'
  OBVIOUS
<1>2. WholeCopy(mem', u) /\ (stored' = Missing \/ WholeCopy(stored', u)) /\ edits' \in 0 .. MaxEdits
  BY <1>1, WritesOne
<1>3. PageWhole(page, u)
  BY <1>1, PageGrows DEF PrefsInv
<1>4. PageWhole(page', u)
  BY <1>2, <1>3, RefreshedWhole
<1>5. trialOf' \in Label \cup {""}
  BY DEF PrefsInv
<1> QED BY <1>1, <1>2, <1>4, <1>5, PageStep

\* Ids
LEMMA IdsAre ==
  ASSUME PrefsInv
  PROVE  uuids \in Nat /\ uuids <= uuids /\ uuids <= uuids + 1 /\ uuids < uuids + 1 /\ uuids + 1 \in Nat
<1>1. uuids \in Nat
  BY DEF PrefsInv
<1> QED BY <1>1

\* What is of the page
LEMMA PageHas ==
  ASSUME PrefsInv, page # Missing
  PROVE  /\ PageWhole(page, uuids) /\ WholeCopy(mem, uuids) /\ uuids \in Nat /\ uuids <= uuids
         /\ page.list \in Seq(Profile) /\ page.editing \in Profile \cup {Missing}
         /\ \A i \in DOMAIN page.list : page.list[i] \in Profile /\ (topic # "ai" => page.list[i].id \in 1 .. uuids)
<1>1. PageWhole(page, uuids) /\ WholeCopy(mem, uuids) /\ uuids \in Nat
  BY DEF PrefsInv
<1>2. page.list \in Seq(Profile) /\ page.editing \in Profile \cup {Missing}
  BY <1>1 DEF PageWhole
<1>3. \A i \in DOMAIN page.list : page.list[i] \in Profile
  BY <1>2, LenProperties
<1>4. topic # "ai" => \A i \in DOMAIN page.list : page.list[i].id \in 1 .. uuids
  BY <1>1 DEF PageWhole
<1>5. uuids <= uuids
  BY <1>1
<1> QED BY <1>1, <1>2, <1>3, <1>4, <1>5

\* Where no id is made
LEMMA SameIds ==
  ASSUME PrefsInv, uuids' = uuids
  PROVE  uuids' \in Nat /\ uuids <= uuids'
<1>1. uuids \in Nat /\ uuids <= uuids
  BY IdsAre
<1> QED BY <1>1

\* The page writes once without a new id.
LEMMA PagePuts ==
  ASSUME PrefsInv, NEW x, WholeCopy(x, uuids), Writes(<<x>>), Refreshed(<<x>>), page # Missing,
         UNCHANGED <<topic, cmd, cmds, chosen, proxySession, trialOf, uuids>>
  PROVE  PrefsInv'
<1>1. uuids' \in Nat /\ uuids <= uuids'
  BY SameIds
<1>2. WholeCopy(x, uuids')
  OBVIOUS
<1> QED BY <1>1, <1>2, PageWritesOne

\* Adding a profile for models, and taking one that was edited, keep the invariant.
LEMMA AddsAi == ASSUME PrefsInv, NEW n \in Label, AddAi(n) \/ AcceptAi(n) PROVE PrefsInv'
<1>1. CASE AddAi(n)
  <2> DEFINE p == [name |-> n, on |-> TRUE, tested |-> "no"]
  <2>1. p \in AiProfile
    BY DEF AiProfile
  <2>2. page # Missing /\ Writes(<<SaveAi(mem, p)>>) /\ Refreshed(<<SaveAi(mem, p)>>)
        /\ UNCHANGED <<topic, cmd, cmds, chosen, proxySession, trialOf, uuids>>
    BY <1>1 DEF AddAi
  <2> HIDE DEF p
  <2>3. WholeCopy(SaveAi(mem, p), uuids)
    BY <2>1, <2>2, PageHas, SavesAi
  <2> QED BY <2>2, <2>3, PagePuts
<1>2. CASE AcceptAi(n)
  <2> DEFINE p == [page.editing EXCEPT !.name = n]
  <2>1. /\ page # Missing /\ page.editing # Missing /\ topic = "ai" /\ Writes(<<SaveAi(mem, p)>>) /\ Refreshed(<<SaveAi(mem, p)>>)
        /\ UNCHANGED <<topic, cmd, cmds, chosen, proxySession, trialOf, uuids>>
    BY <1>2 DEF AcceptAi, Editing
  <2>2. page.editing \in AiProfile
    BY <2>1, PageHas DEF Profile
  <2>3. p \in AiProfile
    BY <2>2 DEF AiProfile
  <2> HIDE DEF p
  <2>4. WholeCopy(SaveAi(mem, p), uuids)
    BY <2>1, <2>3, PageHas, SavesAi
  <2> QED BY <2>1, <2>4, PagePuts
<1> QED BY <1>1, <1>2

\* So do the buttons of a row: remove, switch on or off, make active, test.
LEMMA AiRows == ASSUME PrefsInv, NEW i, RemoveAiShown(i) \/ Toggle(i) \/ MakeActive(i) \/ StartTrial(i) PROVE PrefsInv'
<1>0. page # Missing /\ i \in DOMAIN page.list /\ topic = "ai"
  BY DEF RemoveAiShown, Toggle, MakeActive, StartTrial, Selecting
<1>1. page.list[i] \in AiProfile /\ page.list \in Seq(AiProfile) /\ page.list[i].name \in Label
  BY <1>0, PageHas DEF Profile, AiProfile
<1>2. CASE RemoveAiShown(i)
  <2> DEFINE n == page.list[i].name
  <2>1. Writes(<<RemoveAi(mem, n)>>) /\ Refreshed(<<RemoveAi(mem, n)>>)
        /\ UNCHANGED <<topic, cmd, cmds, chosen, proxySession, trialOf, uuids>>
    BY <1>2 DEF RemoveAiShown
  <2>2. WholeCopy(RemoveAi(mem, n), uuids)
    BY <1>0, <1>1, PageHas, RemovesAi
  <2> QED BY <1>0, <2>1, <2>2, PagePuts
<1>3. CASE Toggle(i)
  <2>1. UNCHANGED <<topic, stored, mem, trialOf, chosen, proxySession, cmd, uuids, edits, cmds>>
        /\ page' = [page EXCEPT !.list[i].on = ~@]
    BY <1>3 DEF Toggle
  <2> DEFINE p == [page.list[i] EXCEPT !.on = ~page.list[i].on]
             list == [page.list EXCEPT ![i] = p]
  <2>2. p \in AiProfile
    BY <1>1 DEF AiProfile
  <2>3. page.list \in Seq(AiProfile) /\ DOMAIN page.list = 1 .. Len(page.list)
    BY <1>1, LenProperties
  <2>4. list \in Seq(AiProfile)
    BY <1>0, <2>2, <2>3, ExceptSeq
  <2>5. PageWhole(page, uuids) /\ page \in PageRecords
    BY <1>0, PageHas DEF PageWhole
  <2>6. page' = [page EXCEPT !.list = list]
    BY <2>1, <2>5 DEF PageRecords
  <2> HIDE DEF list
  <2>7. page' \in PageRecords /\ page'.list = list /\ page'.editing = page.editing
    BY <2>4, <2>5, <2>6 DEF PageRecords
  <2>8. PageWhole(page', uuids)
    BY <1>0, <2>4, <2>5, <2>7 DEF PageWhole, Profile
  <2>9. uuids' \in Nat /\ uuids <= uuids' /\ PageWhole(page', uuids')
    BY <2>1, <2>8, SameIds
  <2>10. WholeCopy(mem, uuids) /\ (stored = Missing \/ WholeCopy(stored, uuids)) /\ edits \in 0 .. MaxEdits /\ trialOf \in Label \cup {""}
    BY <1>0, PageHas DEF PrefsInv
  <2> QED BY <2>1, <2>9, <2>10, PageStep
<1>4. CASE MakeActive(i)
  <2> DEFINE n == page.list[i].name
  <2>1. UNCHANGED <<topic, cmd, cmds, chosen, proxySession, trialOf, uuids>>
    BY <1>4 DEF MakeActive
  <2>2. CASE HasLabel(mem.ai, n)
    <3>1. Writes(<<SetActive(mem, n)>>) /\ Refreshed(<<SetActive(mem, n)>>)
      BY <1>4, <2>2 DEF MakeActive
    <3>2. WholeCopy(SetActive(mem, n), uuids)
      BY <1>0, <1>1, PageHas, SetsActive
    <3> QED BY <1>0, <2>1, <3>1, <3>2, PagePuts
  <2>3. CASE ~HasLabel(mem.ai, n)
    <3>1. page' = PageOf(mem) /\ UNCHANGED <<stored, mem, edits>>
      BY <1>4, <2>3 DEF MakeActive
    <3>2. PageWhole(PageOf(mem), uuids)
      BY <1>0, PageHas, PageOfWhole
    <3>3. uuids' \in Nat /\ uuids <= uuids' /\ PageWhole(page', uuids')
      BY <2>1, <3>1, <3>2, SameIds
    <3>4. WholeCopy(mem, uuids) /\ (stored = Missing \/ WholeCopy(stored, uuids)) /\ edits \in 0 .. MaxEdits /\ trialOf \in Label \cup {""}
      BY <1>0, PageHas DEF PrefsInv
    <3> QED BY <2>1, <3>1, <3>3, <3>4, PageStep
  <2> QED BY <2>2, <2>3
<1>5. CASE StartTrial(i)
  <2>1. UNCHANGED <<topic, stored, mem, page, chosen, proxySession, cmd, uuids, edits, cmds>> /\ trialOf' = page.list[i].name
    BY <1>5 DEF StartTrial
  <2>2. WholeCopy(mem, uuids) /\ (stored = Missing \/ WholeCopy(stored, uuids)) /\ edits \in 0 .. MaxEdits /\ PageWhole(page, uuids)
    BY <1>0, PageHas DEF PrefsInv
  <2>3. uuids' \in Nat /\ uuids <= uuids' /\ PageWhole(page', uuids')
    BY <2>1, <2>2, SameIds
  <2> QED BY <1>1, <2>1, <2>2, <2>3, PageStep
<1> QED BY <1>2, <1>3, <1>4, <1>5

\* So does a test that ends: its verdict goes to the profile of that name, if it is there.
LEMMA TrialEnds == ASSUME PrefsInv, NEW v \in {"ok", "failed", "error"}, TestEnds(v) PROVE PrefsInv'
<1>1. /\ trialOf # "" /\ trialOf' = "" /\ UNCHANGED <<topic, chosen, proxySession, cmd, uuids, cmds>>
  BY DEF TestEnds
<1>2. page # Missing
  BY <1>1 DEF PrefsInv
<1>3. WholeCopy(mem, uuids) /\ (stored = Missing \/ WholeCopy(stored, uuids)) /\ edits \in 0 .. MaxEdits /\ PageWhole(page, uuids)
      /\ uuids \in Nat /\ uuids <= uuids
  BY <1>2, PageHas DEF PrefsInv
<1>4. uuids' \in Nat /\ uuids <= uuids' /\ trialOf' \in Label \cup {""}
  BY <1>1, SameIds
<1>5. CASE v # "error" /\ HasLabel(mem.ai, trialOf)
  <2> DEFINE k == PlaceIn(mem.ai, trialOf)
             p == [mem.ai[k] EXCEPT !.tested = v]
             x == SaveAi(mem, p)
  <2>1. Writes(<<x>>) /\ page' = IF stored' = Last(<<x>>) THEN [PageOf(mem') EXCEPT !.editing = page.editing] ELSE page
    BY <1>5 DEF TestEnds
  <2>2. k \in DOMAIN mem.ai
    BY <1>5 DEF HasLabel, PlaceIn
  <2>3. mem.ai[k] \in AiProfile
    <3>1. mem.ai \in Seq(AiProfile)
      BY <1>3 DEF WholeCopy, Preferences
    <3> QED BY <2>2, <3>1, LenProperties
  <2> HIDE DEF k
  <2>4. p \in AiProfile
    BY <1>5, <2>3 DEF AiProfile
  <2> HIDE DEF p
  <2>5. WholeCopy(x, uuids)
    BY <1>3, <2>4, SavesAi
  <2> HIDE DEF x
  <2>6. WholeCopy(mem', uuids) /\ (stored' = Missing \/ WholeCopy(stored', uuids)) /\ edits' \in 0 .. MaxEdits
    BY <1>3, <2>1, <2>5, WritesOne
  <2>7. PageWhole(page', uuids)
    <3>1. CASE page' = [PageOf(mem') EXCEPT !.editing = page.editing]
      <4>1. PageWhole(PageOf(mem'), uuids)
        BY <1>3, <2>6, PageOfWhole
      <4>2. page.editing \in Profile \cup {Missing} /\ page.editing \in AiProfile \cup ProxyProfile \cup {Missing}
        BY <1>2, PageHas DEF Profile
      <4> DEFINE pg == PageOf(mem')
      <4> HIDE DEF pg
      <4>3. PageWhole(pg, uuids) /\ page' = [pg EXCEPT !.editing = page.editing]
        BY <3>1, <4>1 DEF pg
      <4>4. page' \in PageRecords /\ page'.list = pg.list /\ page'.editing = page.editing
        BY <4>2, <4>3 DEF PageWhole, PageRecords
      <4> QED BY <4>2, <4>3, <4>4 DEF PageWhole
    <3> QED BY <1>3, <2>1, <3>1
  <2>8. WholeCopy(mem', uuids') /\ (stored' = Missing \/ WholeCopy(stored', uuids')) /\ PageWhole(page', uuids')
    BY <1>1, <2>6, <2>7
  <2> QED BY <1>1, <1>4, <2>6, <2>8, PageStep
<1>6. CASE ~(v # "error" /\ HasLabel(mem.ai, trialOf))
  <2>1. UNCHANGED <<stored, mem, page, edits>>
    BY <1>6 DEF TestEnds
  <2>2. WholeCopy(mem', uuids') /\ (stored' = Missing \/ WholeCopy(stored', uuids')) /\ PageWhole(page', uuids') /\ edits' \in 0 .. MaxEdits
    BY <1>1, <1>3, <2>1
  <2> QED BY <1>1, <1>4, <2>2, PageStep
<1> QED BY <1>5, <1>6

\* So does the choice of a profile in a window.
LEMMA Chooses == ASSUME PrefsInv, NEW n \in Label, ChooseLast(n) PROVE PrefsInv'
<1>1. /\ mem # Missing /\ HasLabel(mem.ai, n) /\ Writes(<<[mem EXCEPT !.last = n]>>)
      /\ UNCHANGED <<topic, page, trialOf, chosen, proxySession, cmd, uuids, cmds>>
  BY DEF ChooseLast
<1>2. WholeCopy(mem, uuids) /\ uuids \in Nat /\ uuids <= uuids
  BY <1>1, IdsAre DEF PrefsInv
<1> DEFINE x == [mem EXCEPT !.last = n]
<1>3. WholeCopy(x, uuids)
  BY <1>1, <1>2, ChoosesLast
<1>4. x.px = mem.px
  BY <1>2 DEF WholeCopy, Preferences
<1>5. Writes(<<x>>)
  BY <1>1
<1> HIDE DEF x
<1>6. WholeCopy(mem', uuids) /\ (stored' = Missing \/ WholeCopy(stored', uuids)) /\ edits' \in 0 .. MaxEdits /\ mem' = x
  BY <1>2, <1>3, <1>5, WritesOne
<1> QED BY <1>1, <1>4, <1>6, ProxiesStay

\* The page writes several times: each write is whole.
LEMMA PageWrites ==
  ASSUME PrefsInv, NEW steps, NEW n \in Nat \ {0}, DOMAIN steps = 1 .. n, Len(steps) = n,
         NEW u \in Nat, uuids <= u, uuids' = u, \A k \in 1 .. n : WholeCopy(steps[k], u), Writes(steps),
         page # Missing, Refreshed(steps) \/ page' = page,
         topic' = topic, UNCHANGED <<cmd, cmds, chosen, proxySession, trialOf>>
  PROVE  PrefsInv'
<1>1. stored = Missing \/ WholeCopy(stored, u)
  BY WholeGrows, IdsAre DEF PrefsInv
<1>2. edits \in 0 .. MaxEdits /\ trialOf \in Label \cup {""}
  BY DEF PrefsInv
<1>3. WholeCopy(mem', u) /\ (stored' = Missing \/ WholeCopy(stored', u)) /\ edits' \in 0 .. MaxEdits
  BY <1>1, <1>2, WritesWhole
<1>4. PageWhole(page, u)
  <2>1. PageWhole(page, uuids) /\ uuids \in Nat
    BY PageHas
  <2> QED BY <2>1, PageGrows
<1>5. PageWhole(page', u)
  BY <1>3, <1>4, RefreshedWhole
<1>6. uuids' \in Nat /\ uuids <= uuids' /\ WholeCopy(mem', uuids') /\ PageWhole(page', uuids')
      /\ (stored' = Missing \/ WholeCopy(stored', uuids'))
  BY <1>3, <1>5
<1> QED BY <1>2, <1>3, <1>6, PageStep

\* Lists of steps that are whole
InSteps(steps, u) ==
  \E n \in Nat \ {0} : DOMAIN steps = 1 .. n /\ Len(steps) = n /\ \A k \in 1 .. n : WholeCopy(steps[k], u)

\* One or two copies that are whole are steps that are.
LEMMA FewSteps ==
  ASSUME NEW x, NEW y, NEW u, WholeCopy(x, u), WholeCopy(y, u)
  PROVE  InSteps(<<x>>, u) /\ InSteps(<<x, y>>, u) /\ <<x>> \o <<>> = <<x>> /\ <<>> \o <<y>> = <<y>> /\ <<x>> \o <<y>> = <<x, y>>
<1>1. InSteps(<<x>>, u)
  <2> DEFINE s == <<x>>
  <2>1. DOMAIN s = 1 .. 1 /\ Len(s) = 1 /\ s[1] = x /\ 1 \in Nat \ {0}
    OBVIOUS
  <2> HIDE DEF s
  <2>2. \A k \in 1 .. 1 : k = 1
    OBVIOUS
  <2>3. InSteps(s, u)
    BY <2>1, <2>2 DEF InSteps
  <2> QED BY <2>3 DEF s
<1>2. InSteps(<<x, y>>, u)
  <2> DEFINE s == <<x, y>>
  <2>1. DOMAIN s = 1 .. 2 /\ Len(s) = 2 /\ s[1] = x /\ s[2] = y /\ 2 \in Nat \ {0}
    OBVIOUS
  <2> HIDE DEF s
  <2>2. \A k \in 1 .. 2 : k = 1 \/ k = 2
    OBVIOUS
  <2>3. InSteps(s, u)
    BY <2>1, <2>2 DEF InSteps
  <2> QED BY <2>3 DEF s
<1>3. <<x>> \o <<>> = <<x>> /\ <<>> \o <<y>> = <<y>>
  <2>1. <<x>> \in Seq({x, y}) /\ <<y>> \in Seq({x, y})
    OBVIOUS
  <2> QED BY <2>1, ConcatEmptySeq
<1>4. <<x>> \o <<y>> = <<x, y>>
  <2>1. <<x>> \in Seq({x, y}) /\ <<y>> \in Seq({x, y}) /\ <<x, y>> \in Seq({x, y}) /\ Len(<<x, y>>) = 2
        /\ <<x, y>>[1] = x /\ <<x, y>>[2] = y /\ Len(<<x>>) = 1 /\ Len(<<y>>) = 1 /\ <<x>>[1] = x /\ <<y>>[1] = y
    OBVIOUS
  <2> DEFINE s == <<x>> t == <<y>> w == <<x, y>>
  <2> HIDE DEF s, t, w
  <2>2. s \in Seq({x, y}) /\ t \in Seq({x, y}) /\ w \in Seq({x, y}) /\ Len(w) = 2
        /\ w[1] = x /\ w[2] = y /\ Len(s) = 1 /\ Len(t) = 1 /\ s[1] = x /\ t[1] = y
    BY <2>1 DEF s, t, w
  <2>3. s \o t \in Seq({x, y}) /\ Len(s \o t) = 2 /\ \A i \in 1 .. 2 : (s \o t)[i] = IF i <= 1 THEN s[i] ELSE t[i - 1]
    BY <2>2, ConcatProperties
  <2>4. (s \o t)[1] = x /\ (s \o t)[2] = y
    BY <2>2, <2>3
  <2>5. \A i \in 1 .. 2 : i = 1 \/ i = 2
    OBVIOUS
  <2>6. s \o t = w
    BY <2>2, <2>3, <2>4, <2>5, SeqEqual
  <2> QED BY <2>6 DEF s, t, w
<1> QED BY <1>1, <1>2, <1>3, <1>4

\* Adding a proxy profile keeps the invariant: its id is a new one.
LEMMA AddsProxy == ASSUME PrefsInv, NEW n \in Label, NEW ends \in EndLists, AddProxy(n, ends) PROVE PrefsInv'
<1> DEFINE v == uuids + 1
           p == [name |-> n, id |-> v, ends |-> ends]
           x == SaveProxy(mem, p)
<1>1. /\ page # Missing /\ uuids' = v /\ IsInjective(ends) /\ Writes(<<x>>) /\ Refreshed(<<x>>)
      /\ topic' = topic /\ UNCHANGED <<trialOf, chosen, proxySession, cmd, cmds>>
  <2>1. uuids' = v
    BY DEF AddProxy
  <2> QED BY <2>1 DEF AddProxy, NoTwins
<1>2. v \in Nat /\ uuids < v /\ uuids <= v /\ uuids \in Nat
  BY IdsAre
<1> HIDE DEF v
<1>3. p \in ProxyProfile /\ p.id = v /\ p.ends = ends
  BY <1>2 DEF ProxyProfile
<1> HIDE DEF p
<1>4. WholeCopy(x, v)
  BY <1>1, <1>2, <1>3, PageHas, SavesProxy
<1> HIDE DEF x
<1>5. uuids' \in Nat /\ uuids <= uuids' /\ WholeCopy(x, uuids')
  BY <1>1, <1>2, <1>4
<1> QED BY <1>1, <1>5, PageWritesOne

\* Removing after saving
LEMMA AcceptsProxy == ASSUME PrefsInv, NEW n \in Label, NEW ends \in EndLists, AcceptProxy(n, ends) PROVE PrefsInv'
<1> DEFINE v == uuids + 1
           p == [name |-> n, id |-> v, ends |-> ends]
           x == SaveProxy(mem, p)
           old == page.editing.name
           y == RemoveProxy(x, old)
           steps == IF n = old THEN <<x>> ELSE <<x, y>>
<1>1. /\ page # Missing /\ uuids' = v /\ IsInjective(ends) /\ Writes(steps) /\ Refreshed(steps)
      /\ topic' = topic /\ UNCHANGED <<trialOf, chosen, proxySession, cmd, cmds>>
  <2>1. uuids' = v
    BY DEF AcceptProxy
  <2> QED BY <2>1 DEF AcceptProxy, NoTwins, Editing
<1>2. v \in Nat /\ uuids < v /\ uuids <= v /\ uuids \in Nat
  BY IdsAre
<1> HIDE DEF v
<1>3. p \in ProxyProfile /\ p.id = v /\ p.ends = ends
  BY <1>2 DEF ProxyProfile
<1> HIDE DEF p
<1>4. WholeCopy(x, v)
  BY <1>1, <1>2, <1>3, PageHas, SavesProxy
<1> HIDE DEF x, old
<1>5. WholeCopy(y, v)
  BY <1>2, <1>4, RemovesProxy
<1> HIDE DEF y
<1>6. InSteps(steps, v)
  BY <1>4, <1>5, FewSteps
<1> HIDE DEF steps
<1>7. PICK m \in Nat \ {0} : DOMAIN steps = 1 .. m /\ Len(steps) = m /\ \A k \in 1 .. m : WholeCopy(steps[k], v)
  BY <1>6 DEF InSteps
<1> QED BY <1>1, <1>2, <1>7, PageWrites

\* Removing a proxy profile keeps it, whether a route still uses it or not.
LEMMA RemovesShown == ASSUME PrefsInv, NEW i, RemoveProxyShown(i) PROVE PrefsInv'
<1> DEFINE asked == AllAsked(mem)
           looked == IF asked = mem THEN <<>> ELSE <<asked>>
           used == \E c \in Consumer : asked.routes[c].profile = page.list[i].id
           y == RemoveProxy(asked, page.list[i].name)
           steps == looked \o IF used THEN <<>> ELSE <<y>>
<1>1. /\ page # Missing /\ steps # <<>> /\ Writes(steps) /\ (Refreshed(steps) \/ page' = page)
      /\ topic' = topic /\ UNCHANGED <<trialOf, chosen, proxySession, cmd, uuids, cmds>>
  BY DEF RemoveProxyShown, Selecting
<1>2. uuids \in Nat /\ WholeCopy(mem, uuids) /\ uuids <= uuids
  BY <1>1, PageHas
<1>3. WholeCopy(asked, uuids)
  BY <1>2, AsksRoute
<1> HIDE DEF asked
<1>4. WholeCopy(y, uuids)
  BY <1>2, <1>3, RemovesProxy
<1> HIDE DEF y, used
<1>5. InSteps(steps, uuids)
  <2>1. <<>> \o <<>> = <<>>
    BY EmptySeq, ConcatEmptySeq
  <2>2. steps \in {<<>>, <<y>>, <<asked>>, <<asked, y>>}
    BY <1>3, <1>4, <2>1, FewSteps
  <2> HIDE DEF steps
  <2> QED BY <1>1, <1>3, <1>4, <2>2, FewSteps
<1> HIDE DEF steps
<1>6. PICK m \in Nat \ {0} : DOMAIN steps = 1 .. m /\ Len(steps) = m /\ \A k \in 1 .. m : WholeCopy(steps[k], uuids)
  BY <1>5 DEF InSteps
<1>7. uuids' = uuids
  BY <1>1
<1> QED BY <1>1, <1>2, <1>6, <1>7, PageWrites

\* All routes one after the other
LEMMA RoutedWhole ==
  ASSUME NEW u \in Nat, WholeCopy(mem, u), NEW id \in 0 .. u
  PROVE  \E n \in Nat \ {0} : DOMAIN RoutedAll(id) = 1 .. n /\ Len(RoutedAll(id)) = n
                              /\ \A k \in 1 .. n : WholeCopy(RoutedAll(id)[k], u)
<1> DEFINE order == SetToSeq(Consumer)
           n == Cardinality(Consumer)
           routes(k) == [c \in Consumer |-> IF c \in Range(SubSeq(order, 1, k))
                                            THEN [profile |-> id, node |-> 0] ELSE mem.routes[c]]
<1>1. n \in Nat \ {0} /\ \E f : f \in [1 .. n -> Consumer] /\ IsInjective(f)
  <2>1. n \in Nat /\ ExistsBijection(1 .. n, Consumer)
    BY ProfilesAssumption, FS_CardinalityType
  <2>2. n # 0
    BY ProfilesAssumption, FS_EmptySet
  <2>3. \E f : f \in [1 .. n -> Consumer] /\ IsInjective(f)
    BY <2>1 DEF ExistsBijection, Bijection, Injection
  <2> QED BY <2>1, <2>2, <2>3
<1>2. order \in [1 .. n -> Consumer]
  BY <1>1 DEF SetToSeq
<1> HIDE DEF order, n
<1>3. mem.routes \in [Consumer -> [profile : Nat, node : Nat]] /\ RoutesClean(mem.routes) /\ RoutesOut(mem.routes, u)
  BY ProxiesOf
<1>4. ASSUME NEW k \in 1 .. n PROVE WholeCopy([mem EXCEPT !.routes = routes(k)], u)
  <2>1. routes(k) \in [Consumer -> [profile : Nat, node : Nat]] /\ RoutesClean(routes(k)) /\ RoutesOut(routes(k), u)
    BY <1>3 DEF RoutesClean, RoutesOut
  <2> HIDE DEF routes
  <2> QED BY <2>1, RoutesPart
<1>5. RoutedAll(id) = [k \in 1 .. n |-> [mem EXCEPT !.routes = routes(k)]]
  <2>1. RoutedAll(id) = [k \in DOMAIN order |-> [mem EXCEPT !.routes = routes(k)]]
    BY DEF RoutedAll, order
  <2> QED BY <1>2, <2>1
<1> HIDE DEF routes
<1>6. DOMAIN RoutedAll(id) = 1 .. n /\ Len(RoutedAll(id)) = n /\ \A k \in 1 .. n : RoutedAll(id)[k] = [mem EXCEPT !.routes = routes(k)]
  BY <1>1, <1>5
<1> QED BY <1>1, <1>4, <1>6

\* Routing every consumer over one profile, or over none, keeps it.
LEMMA RoutesAll == ASSUME PrefsInv, ResetRoutes \/ \E i \in 1 .. 3 : MakeDefault(i) PROVE PrefsInv'
<1>1. PICK id : /\ id = 0 \/ \E i \in DOMAIN page.list : topic = "proxy" /\ id = page.list[i].id
                /\ page # Missing /\ Writes(RoutedAll(id)) /\ (Refreshed(RoutedAll(id)) \/ page' = page)
                /\ topic' = topic /\ UNCHANGED <<trialOf, chosen, proxySession, cmd, uuids, cmds>>
  <2>1. CASE ResetRoutes
    BY <2>1 DEF ResetRoutes
  <2>2. ASSUME NEW i \in 1 .. 3, MakeDefault(i) PROVE \E id : /\ id = 0 \/ \E j \in DOMAIN page.list : topic = "proxy" /\ id = page.list[j].id
                /\ page # Missing /\ Writes(RoutedAll(id)) /\ (Refreshed(RoutedAll(id)) \/ page' = page)
                /\ topic' = topic /\ UNCHANGED <<trialOf, chosen, proxySession, cmd, uuids, cmds>>
    BY <2>2 DEF MakeDefault, Selecting
  <2> QED BY <2>1, <2>2
<1>2. uuids \in Nat /\ WholeCopy(mem, uuids) /\ uuids <= uuids
  BY <1>1, PageHas
<1>3. id \in 0 .. uuids
  <2>1. \A m \in 1 .. uuids : m \in 0 .. uuids
    BY <1>2
  <2>2. 0 \in 0 .. uuids
    BY <1>2
  <2> QED BY <1>1, <2>1, <2>2, PageHas
<1>4. PICK n \in Nat \ {0} : DOMAIN RoutedAll(id) = 1 .. n /\ Len(RoutedAll(id)) = n
                              /\ \A k \in 1 .. n : WholeCopy(RoutedAll(id)[k], uuids)
  BY <1>2, <1>3, RoutedWhole
<1>5. uuids' = uuids
  BY <1>1
<1> QED BY <1>1, <1>2, <1>4, <1>5, PageWrites

\* Endpoints are numbers.
LEMMA NodesAre ==
  /\ \A l \in EndLists : FirstNode(l) \in Nat /\ Range(l) \subseteq Nat
  /\ Nodes \subseteq Nat
<1>1. ASSUME NEW l \in EndLists PROVE FirstNode(l) \in Nat /\ Range(l) \subseteq Nat
  <2>1. l \in Seq(Nat)
    BY ProfilesAssumption
  <2>2. \A i \in DOMAIN l : l[i] \in Nat
    BY <2>1, LenProperties
  <2>3. l # <<>> => 1 \in DOMAIN l
    BY <2>1, EmptySeq, LenProperties
  <2> QED BY <2>2, <2>3 DEF FirstNode, Range
<1> QED BY <1>1 DEF Nodes

\* Routes are set from the page.
LEMMA PicksRoute ==
  ASSUME PrefsInv, NEW c \in Consumer, NEW k, PickRoute(c, k) \/ PickNode(c, k)
  PROVE  PrefsInv'
<1>1. page # Missing
  BY DEF PickRoute, PickNode
<1>2. WholeCopy(mem, uuids) /\ uuids \in Nat /\ uuids <= uuids /\ PageWhole(page, uuids)
  BY <1>1, PageHas
<1>3. ASSUME NEW id, KnowsId(mem, id) PROVE id \in 0 .. uuids /\ id # 0 /\ ById(mem, id).ends \in EndLists
  <2>1. PICK i \in DOMAIN mem.px : mem.px[i].id = id
    BY <1>3 DEF KnowsId
  <2>2. ById(mem, id) = mem.px[CHOOSE j \in DOMAIN mem.px : mem.px[j].id = id]
    BY DEF ById
  <2>3. PICK j \in DOMAIN mem.px : ById(mem, id) = mem.px[j]
    BY <2>1, <2>2
  <2>4. mem.px[i].id \in 1 .. uuids /\ mem.px[i].id # 0 /\ mem.px[j].ends \in EndLists
    BY <1>2, ProxiesOf
  <2>5. \A m \in 1 .. uuids : m \in 0 .. uuids
    BY <1>2
  <2> QED BY <2>1, <2>3, <2>4, <2>5
<1>4. \E x : /\ WholeCopy(x, uuids) /\ x.px = mem.px /\ Writes(<<x>>)
             /\ UNCHANGED <<topic, page, trialOf, chosen, proxySession, cmd, uuids, cmds>>
  <2>1. ASSUME NEW id \in 0 .. uuids, NEW node \in Nat, id = 0 => node = 0
        PROVE  WholeCopy(SetRoute(mem, c, id, node), uuids) /\ SetRoute(mem, c, id, node).px = mem.px
    <3>1. mem \in Preferences
      BY <1>2 DEF WholeCopy
    <3>2. SetRoute(mem, c, id, node).px = mem.px
      BY <3>1 DEF SetRoute, Preferences
    <3> QED BY <1>2, <2>1, <3>2, SetsRoute
  <2>2. CASE PickRoute(c, k)
    <3> DEFINE node == IF k = 0 THEN 0 ELSE FirstNode(ById(mem, k).ends)
    <3>1. /\ k = 0 \/ KnowsId(mem, k)
          /\ Writes(<<SetRoute(mem, c, k, node)>>)
          /\ UNCHANGED <<topic, page, trialOf, chosen, proxySession, cmd, uuids, cmds>>
      BY <2>2 DEF PickRoute
    <3>2. node \in Nat /\ (k = 0 => node = 0) /\ k \in 0 .. uuids
      BY <1>2, <1>3, <3>1, NodesAre
    <3> HIDE DEF node
    <3> QED BY <2>1, <3>1, <3>2
  <2>3. CASE PickNode(c, k)
    <3> DEFINE id == mem.routes[c].profile
    <3>1. /\ KnowsId(mem, id) /\ k \in Range(ById(mem, id).ends)
          /\ Writes(<<SetRoute(mem, c, id, k)>>)
          /\ UNCHANGED <<topic, page, trialOf, chosen, proxySession, cmd, uuids, cmds>>
      BY <2>3 DEF PickNode
    <3> HIDE DEF id
    <3>2. id \in 0 .. uuids /\ id # 0 /\ k \in Nat
      BY <1>3, <3>1, NodesAre
    <3> QED BY <2>1, <3>1, <3>2
  <2> QED BY <2>2, <2>3
<1>5. PICK x : /\ WholeCopy(x, uuids) /\ x.px = mem.px /\ Writes(<<x>>)
               /\ UNCHANGED <<topic, page, trialOf, chosen, proxySession, cmd, uuids, cmds>>
  BY <1>4
<1>6. WholeCopy(mem', uuids) /\ (stored' = Missing \/ WholeCopy(stored', uuids)) /\ edits' \in 0 .. MaxEdits /\ mem' = x
  BY <1>2, <1>5, WritesOne
<1>7. mem # Missing
  BY <1>2, WholeIsThere
<1> QED BY <1>5, <1>6, <1>7, ProxiesStay

\* A lookup of a consumer's route, which may write, and a visit of a directory keep it.
LEMMA AsksAndVisits ==
  ASSUME PrefsInv, (\E c \in Consumer : AskRoute(c)) \/ \E d \in Dir : VisitDir(d)
  PROVE  PrefsInv'
<1>1. /\ mem # Missing /\ UNCHANGED <<topic, page, trialOf, chosen, proxySession, cmd, uuids, cmds>>
  BY DEF AskRoute, VisitDir
<1>2. WholeCopy(mem, uuids) /\ uuids \in Nat /\ uuids <= uuids
  BY <1>1, IdsAre DEF PrefsInv
<1>3. \E x : WholeCopy(x, uuids) /\ x.px = mem.px /\ Writes(<<x>>)
  <2>1. ASSUME NEW c \in Consumer, AskRoute(c) PROVE \E x : WholeCopy(x, uuids) /\ x.px = mem.px /\ Writes(<<x>>)
    <3>1. Writes(<<Asked(mem, c)>>)
      BY <2>1 DEF AskRoute
    <3> QED BY <1>2, <3>1, AsksRoute
  <2>2. ASSUME NEW d \in Dir, VisitDir(d) PROVE \E x : WholeCopy(x, uuids) /\ x.px = mem.px /\ Writes(<<x>>)
    <3>1. Writes(<<AddPath(mem, d)>>)
      BY <2>2 DEF VisitDir
    <3> QED BY <1>2, <3>1, AddsPath
  <2> QED BY <2>1, <2>2
<1>4. PICK x : WholeCopy(x, uuids) /\ x.px = mem.px /\ Writes(<<x>>)
  BY <1>3
<1>5. WholeCopy(mem', uuids) /\ (stored' = Missing \/ WholeCopy(stored', uuids)) /\ edits' \in 0 .. MaxEdits /\ mem' = x
  BY <1>2, <1>4, WritesOne
<1> QED BY <1>1, <1>4, <1>5, ProxiesStay

\* The window's session follows the profile that is chosen.
LEMMA SessionFollows ==
  ASSUME NEW s, NEW u \in Nat, WholeCopy(s, u), NEW n \in Label \cup {""}
  PROVE  /\ Endpoints(s, n) \in EndLists \cup {<<>>}
         /\ StillThere(s, n) \in Label \cup {""} /\ (StillThere(s, n) = "" \/ HasLabel(s.px, StillThere(s, n)))
<1>1. Endpoints(s, n) \in EndLists \cup {<<>>}
  <2>1. CASE n # "" /\ HasLabel(s.px, n)
    <3>1. PlaceIn(s.px, n) \in DOMAIN s.px
      BY <2>1 DEF HasLabel, PlaceIn
    <3> QED BY <2>1, <3>1, ProxiesOf DEF Endpoints
  <2> QED BY <2>1 DEF Endpoints
<1> QED BY <1>1 DEF StillThere

\* The choice of a profile for a crawl, and closing the window, keep it.
LEMMA ProfilesChosen ==
  ASSUME PrefsInv, CloseSettings \/ \E n \in Label \cup {""} : ChooseProfile(n)
  PROVE  PrefsInv'
<1>0. /\ mem # Missing /\ page' = Missing /\ UNCHANGED <<topic, stored, mem, cmd, uuids, edits, cmds>>
  <2>1. CASE CloseSettings
    BY <2>1 DEF CloseSettings, PrefsInv
  <2>2. CASE \E n \in Label \cup {""} : ChooseProfile(n)
    BY <2>2 DEF ChooseProfile
  <2> QED BY <2>1, <2>2
<1>1. WholeCopy(mem, uuids) /\ uuids \in Nat /\ chosen \in Label \cup {""}
  BY <1>0 DEF PrefsInv
<1>2. /\ chosen' \in Label \cup {""} /\ proxySession' \in EndLists \cup {<<>>} /\ proxySession' = Endpoints(mem, chosen')
      /\ chosen' = "" \/ HasLabel(mem.px, chosen')
      /\ trialOf' = ""
  <2>1. CASE CloseSettings
    <3>1. chosen' = StillThere(mem, chosen) /\ proxySession' = Endpoints(mem, chosen') /\ trialOf' = ""
      BY <2>1 DEF CloseSettings
    <3>2. chosen' \in Label \cup {""} /\ (chosen' = "" \/ HasLabel(mem.px, chosen'))
      BY <1>1, <3>1, SessionFollows
    <3> QED BY <1>1, <3>1, <3>2, SessionFollows
  <2>2. ASSUME NEW n \in Label \cup {""}, ChooseProfile(n)
        PROVE  /\ chosen' \in Label \cup {""} /\ proxySession' \in EndLists \cup {<<>>} /\ proxySession' = Endpoints(mem, chosen')
               /\ chosen' = "" \/ HasLabel(mem.px, chosen')
               /\ trialOf' = ""
    <3>1. n \in Labels(mem.px) \cup {""} /\ chosen' = n /\ proxySession' = Endpoints(mem, n) /\ page = Missing /\ trialOf' = trialOf
      BY <2>2 DEF ChooseProfile
    <3>2. n = "" \/ HasLabel(mem.px, n)
      BY <3>1 DEF Labels, HasLabel
    <3>3. trialOf = ""
      BY <3>1 DEF PrefsInv
    <3> QED BY <1>1, <3>1, <3>2, <3>3, SessionFollows
  <2> QED BY <2>1, <2>2
<1>3. /\ topic' = topic /\ uuids' \in Nat /\ edits' \in 0 .. MaxEdits /\ cmds' \in 0 .. MaxCommands
      /\ stored' = Missing \/ WholeCopy(stored', uuids')
      /\ mem' = Missing \/ WholeCopy(mem', uuids')
      /\ trialOf' \in Label \cup {""} /\ mem' # Missing
  BY <1>0, <1>1, <1>2 DEF PrefsInv
<1>4. cmd' = Missing \/ CmdWhole(cmd', uuids')
  <2>1. cmd = Missing \/ CmdWhole(cmd, uuids)
    BY DEF PrefsInv
  <2> QED BY <1>0, <2>1
<1>5. (chosen' = "" \/ HasLabel(mem'.px, chosen')) /\ proxySession' = Endpoints(mem', chosen')
  BY <1>0, <1>2
<1>6. page' = Missing /\ trialOf' = ""
  BY <1>0, <1>2
<1> QED BY <1>2, <1>3, <1>4, <1>5, <1>6, PrefsInvFrom

\* The window comes, goes, opens and shuts its dialogs.
LEMMA WindowMoves ==
  ASSUME PrefsInv, GuiLoads \/ GuiExits \/ OpenSettings \/ Dismiss \/ \E i \in 1 .. 3 : Edit(i)
  PROVE  PrefsInv'
<1>1. CASE GuiLoads
  <2>1. /\ mem = Missing /\ UNCHANGED <<topic, page, trialOf, chosen, proxySession, cmd, uuids, edits, cmds>>
        /\ \/ mem' = Loaded /\ stored' = stored
           \/ mem' = FreshPrefs /\ stored' = Missing
    BY <1>1 DEF GuiLoads
  <2>2. chosen = "" /\ proxySession = <<>> /\ page = Missing /\ trialOf = "" /\ uuids \in Nat
    BY <2>1 DEF PrefsInv
  <2>3. WholeCopy(mem', uuids) /\ (stored' = Missing \/ WholeCopy(stored', uuids))
    BY <2>1, <2>2, LoadedWhole, FreshWhole DEF PrefsInv
  <2>4. mem' # Missing
    BY <2>3, WholeIsThere
  <2>5. /\ topic' = topic /\ uuids' \in Nat /\ edits' \in 0 .. MaxEdits /\ cmds' \in 0 .. MaxCommands
        /\ stored' = Missing \/ WholeCopy(stored', uuids')
        /\ mem' = Missing \/ WholeCopy(mem', uuids')
        /\ trialOf' \in Label \cup {""} /\ chosen' \in Label \cup {""} /\ proxySession' \in EndLists \cup {<<>>}
        /\ chosen' = "" /\ proxySession' = <<>> /\ page' = Missing /\ trialOf' = ""
    BY <2>1, <2>2, <2>3 DEF PrefsInv
  <2>6. cmd' = Missing \/ CmdWhole(cmd', uuids')
    <3>1. cmd = Missing \/ CmdWhole(cmd, uuids)
      BY DEF PrefsInv
    <3> QED BY <2>1, <3>1
  <2>7. proxySession' = Endpoints(mem', chosen')
    BY <2>5 DEF Endpoints
  <2> QED BY <2>4, <2>5, <2>6, <2>7, PrefsInvFrom
<1>2. CASE GuiExits
  <2>1. /\ mem' = Missing /\ page' = Missing /\ trialOf' = "" /\ chosen' = "" /\ proxySession' = <<>>
        /\ UNCHANGED <<topic, stored, cmd, uuids, edits, cmds>>
    BY <1>2 DEF GuiExits
  <2>2. /\ topic' = topic /\ uuids' \in Nat /\ edits' \in 0 .. MaxEdits /\ cmds' \in 0 .. MaxCommands
        /\ stored' = Missing \/ WholeCopy(stored', uuids')
        /\ trialOf' \in Label \cup {""} /\ chosen' \in Label \cup {""} /\ proxySession' \in EndLists \cup {<<>>}
    BY <2>1 DEF PrefsInv
  <2>3. cmd' = Missing \/ CmdWhole(cmd', uuids')
    <3>1. cmd = Missing \/ CmdWhole(cmd, uuids)
      BY DEF PrefsInv
    <3> QED BY <2>1, <3>1
  <2> QED BY <2>1, <2>2, <2>3, PrefsInvFrom
<1>3. CASE OpenSettings
  <2>1. mem # Missing /\ page' = PageOf(mem)
        /\ UNCHANGED <<topic, stored, mem, trialOf, chosen, proxySession, cmd, uuids, edits, cmds>>
    BY <1>3 DEF OpenSettings
  <2>2. WholeCopy(mem, uuids) /\ uuids \in Nat /\ (stored = Missing \/ WholeCopy(stored, uuids)) /\ edits \in 0 .. MaxEdits
        /\ trialOf \in Label \cup {""}
    BY <2>1 DEF PrefsInv
  <2>3. PageWhole(page', uuids)
    BY <2>1, <2>2, PageOfWhole
  <2>4. uuids' \in Nat /\ uuids <= uuids'
    BY <2>1, SameIds
  <2>5. PageWhole(page', uuids') /\ WholeCopy(mem', uuids') /\ (stored' = Missing \/ WholeCopy(stored', uuids'))
    BY <2>1, <2>2, <2>3
  <2> QED BY <2>1, <2>2, <2>4, <2>5, PageStep
<1>4. CASE Dismiss \/ \E i \in 1 .. 3 : Edit(i)
  <2>1. /\ page # Missing /\ UNCHANGED <<topic, stored, mem, trialOf, chosen, proxySession, cmd, uuids, edits, cmds>>
        /\ \E e \in {Missing} \cup {page.list[i] : i \in DOMAIN page.list} : page' = [page EXCEPT !.editing = e]
    BY <1>4 DEF Dismiss, Edit, Selecting
  <2>2. PICK e \in {Missing} \cup {page.list[i] : i \in DOMAIN page.list} : page' = [page EXCEPT !.editing = e]
    BY <2>1
  <2>3. e \in Profile \cup {Missing}
    BY <2>1, PageHas
  <2>4. PageWhole(page, uuids) /\ WholeCopy(mem, uuids)
    BY <2>1, PageHas
  <2>5. page' \in PageRecords /\ page'.list = page.list /\ page'.editing = e
    BY <2>2, <2>3, <2>4 DEF PageWhole, PageRecords, Profile
  <2>6. PageWhole(page', uuids)
    BY <2>3, <2>4, <2>5 DEF PageWhole
  <2>7. uuids' \in Nat /\ uuids <= uuids'
    BY <2>1, SameIds
  <2>8. (stored = Missing \/ WholeCopy(stored, uuids)) /\ edits \in 0 .. MaxEdits /\ trialOf \in Label \cup {""}
    BY DEF PrefsInv
  <2>9. PageWhole(page', uuids') /\ WholeCopy(mem', uuids') /\ (stored' = Missing \/ WholeCopy(stored', uuids'))
    BY <2>1, <2>4, <2>6, <2>8
  <2> QED BY <2>1, <2>7, <2>8, <2>9, PageStep
<1> QED BY <1>1, <1>2, <1>3, <1>4

\* A command does not touch the window.
LEMMA WindowStays ==
  ASSUME PrefsInv, UNCHANGED <<topic, mem, page, trialOf, chosen, proxySession, edits>>,
         NEW v \in Nat, uuids <= v, uuids' = v, cmds' \in 0 .. MaxCommands, stored' = Missing \/ WholeCopy(stored', v),
         cmd' = Missing \/ CmdWhole(cmd', v)
  PROVE  PrefsInv'
<1>1. uuids \in Nat
  BY IdsAre
<1>2. mem' = Missing \/ WholeCopy(mem', v)
  <2>1. mem = Missing \/ WholeCopy(mem, v)
    BY <1>1, WholeGrows DEF PrefsInv
  <2> QED BY <2>1
<1>3. page' = Missing \/ (PageWhole(page', v) /\ mem' # Missing)
  <2>1. page = Missing \/ (PageWhole(page, v) /\ mem # Missing)
    BY <1>1, PageGrows DEF PrefsInv
  <2> QED BY <2>1
<1>4. /\ trialOf' \in Label \cup {""} /\ chosen' \in Label \cup {""} /\ proxySession' \in EndLists \cup {<<>>}
      /\ edits' \in 0 .. MaxEdits
      /\ trialOf' # "" => page' # Missing
      /\ mem' = Missing => chosen' = "" /\ proxySession' = <<>>
  BY DEF PrefsInv
<1>5. page' = Missing /\ mem' # Missing =>
        (chosen' = "" \/ HasLabel(mem'.px, chosen')) /\ proxySession' = Endpoints(mem', chosen')
  BY DEF PrefsInv, SessionFresh
<1>6. topic' = topic /\ uuids' \in Nat /\ (stored' = Missing \/ WholeCopy(stored', uuids')) /\ (mem' = Missing \/ WholeCopy(mem', uuids'))
      /\ (cmd' = Missing \/ CmdWhole(cmd', uuids')) /\ (page' = Missing \/ (PageWhole(page', uuids') /\ mem' # Missing))
  BY <1>2, <1>3
<1> QED BY <1>4, <1>5, <1>6, PrefsInvFrom

\* A command of the command line that begins reads a copy of its own.
LEMMA CommandBegins == ASSUME PrefsInv, NEW verb, NEW n \in Label, CommandStarts(verb, n) PROVE PrefsInv'
<1>1. /\ cmds < MaxCommands /\ cmds' = cmds + 1 /\ verb \in Verbs
      /\ verb \notin {"visit"} => HasLabel(List(Loaded), n) = (verb # "add")
      /\ cmd' = [verb |-> verb, name |-> n, copy |-> Loaded]
      /\ UNCHANGED <<topic, stored, mem, page, trialOf, chosen, proxySession, uuids, edits>>
  BY DEF CommandStarts
<1>2. cmds' \in 0 .. MaxCommands
  <2>1. cmds \in 0 .. MaxCommands /\ MaxCommands \in Nat
    BY ProfilesAssumption DEF PrefsInv
  <2>2. cmds + 1 \in 0 .. MaxCommands
    BY <1>1, <2>1
  <2> QED BY <1>1, <2>2
<1>3. uuids \in Nat /\ uuids <= uuids /\ (stored = Missing \/ WholeCopy(stored, uuids))
  BY IdsAre DEF PrefsInv
<1>4. CmdWhole([verb |-> verb, name |-> n, copy |-> Loaded], uuids)
  <2>1. WholeCopy(Loaded, uuids)
    BY LoadedWhole
  <2> DEFINE l == Loaded
  <2> HIDE DEF l
  <2>2. WholeCopy(l, uuids) /\ (verb \notin {"visit"} => HasLabel(List(l), n) = (verb # "add"))
    BY <1>1, <2>1 DEF l
  <2>3. CmdWhole([verb |-> verb, name |-> n, copy |-> l], uuids)
    BY <1>1, <2>2 DEF CmdWhole
  <2> QED BY <2>3 DEF l
<1>5. stored' = Missing \/ WholeCopy(stored', uuids)
  BY <1>1, <1>3
<1>6. CmdWhole(cmd', uuids)
  BY <1>1, <1>4
<1> QED BY <1>1, <1>2, <1>3, <1>5, <1>6, WindowStays

\* Whatever a command writes is whole.
LEMMA CommandWrites ==
  ASSUME PrefsInv, cmd # Missing, NEW x \in Commanded, NEW v \in Nat,
         v = IF topic = "proxy" /\ cmd.verb = "add" THEN uuids + 1 ELSE uuids
  PROVE  WholeCopy(x, v)
<1> DEFINE s == cmd.copy
           n == cmd.name
<1>1. /\ WholeCopy(s, uuids) /\ n \in Label /\ cmd.verb \in Verbs /\ topic \in {"ai", "proxy", "paths"}
      /\ cmd.verb \notin {"add", "visit"} => HasLabel(List(s), n)
  BY DEF PrefsInv, CmdWhole
<1>2. uuids \in Nat /\ uuids <= uuids /\ uuids < uuids + 1 /\ uuids + 1 \in Nat
  BY IdsAre
<1>3. CASE topic = "ai"
  <2>0. v = uuids /\ cmd.verb \in {"add", "remove", "default", "test"} /\ (cmd.verb # "add" => HasLabel(s.ai, n))
    BY <1>1, <1>3 DEF Verbs, List
  <2>1. CASE cmd.verb = "add"
    <3> DEFINE p == [name |-> n, on |-> TRUE, tested |-> "no"]
    <3>1. x = SaveAi(s, p)
      BY <1>3, <2>1 DEF Commanded
    <3>2. p \in AiProfile
      BY <1>1 DEF AiProfile
    <3> HIDE DEF p
    <3> QED BY <1>1, <2>0, <3>1, <3>2, SavesAi
  <2>2. CASE cmd.verb = "remove"
    <3>1. x = RemoveAi(s, n)
      BY <1>3, <2>2 DEF Commanded
    <3> QED BY <1>1, <2>0, <3>1, RemovesAi
  <2>3. CASE cmd.verb = "default"
    <3>1. x = SetActive(s, n)
      BY <1>3, <2>3 DEF Commanded
    <3> QED BY <1>1, <2>0, <3>1, SetsActive
  <2>4. CASE cmd.verb = "test"
    <3>1. x \in {SaveAi(s, [s.ai[PlaceIn(s.ai, n)] EXCEPT !.tested = t]) : t \in {"ok", "failed"}}
      BY <1>3, <2>4 DEF Commanded
    <3>2. PICK t \in {"ok", "failed"} : x = SaveAi(s, [s.ai[PlaceIn(s.ai, n)] EXCEPT !.tested = t])
      BY <3>1
    <3>3. PlaceIn(s.ai, n) \in DOMAIN s.ai
      BY <2>0, <2>4 DEF HasLabel, PlaceIn
    <3>4. s.ai \in Seq(AiProfile)
      BY <1>1 DEF WholeCopy, Preferences
    <3>5. s.ai[PlaceIn(s.ai, n)] \in AiProfile
      BY <3>3, <3>4, LenProperties
    <3>6. [s.ai[PlaceIn(s.ai, n)] EXCEPT !.tested = t] \in AiProfile
      BY <3>5 DEF AiProfile
    <3> QED BY <1>1, <2>0, <3>2, <3>6, SavesAi
  <2> QED BY <2>0, <2>1, <2>2, <2>3, <2>4
<1>4. CASE topic = "proxy"
  <2>0. cmd.verb \in {"add", "remove", "set", "show"} /\ (cmd.verb # "add" => HasLabel(s.px, n) /\ v = uuids)
    BY <1>1, <1>4 DEF Verbs, List
  <2>1. CASE cmd.verb = "add"
    <3>1. x \in {SaveProxy(s, [name |-> n, id |-> uuids + 1, ends |-> l]) : l \in Twinless}
      BY <1>4, <2>1 DEF Commanded
    <3>2. PICK l \in EndLists : NoTwins(l) /\ x = SaveProxy(s, [name |-> n, id |-> uuids + 1, ends |-> l])
      BY <3>1 DEF Twinless
    <3> DEFINE p == [name |-> n, id |-> uuids + 1, ends |-> l]
    <3>3. p \in ProxyProfile /\ p.id = uuids + 1 /\ IsInjective(p.ends)
      BY <1>1, <1>2, <3>2 DEF ProxyProfile, NoTwins
    <3>4. v = uuids + 1
      BY <1>4, <2>1
    <3>5. x = SaveProxy(s, p)
      BY <3>2
    <3> HIDE DEF p
    <3> QED BY <1>1, <1>2, <3>3, <3>4, <3>5, SavesProxy
  <2>2. CASE cmd.verb = "remove"
    <3>1. x = RemoveProxy(s, n)
      BY <1>4, <2>2 DEF Commanded
    <3> QED BY <1>1, <1>2, <2>0, <2>2, <3>1, RemovesProxy
  <2>3. CASE cmd.verb = "set"
    <3> DEFINE p == s.px[PlaceIn(s.px, n)]
    <3>1. x \in {SetRoute(s, c, p.id, k) : c \in Consumer, k \in Nodes \cup {FirstNode(p.ends)}}
      BY <1>4, <2>3 DEF Commanded
    <3>2. PlaceIn(s.px, n) \in DOMAIN s.px
      BY <2>0, <2>3 DEF HasLabel, PlaceIn
    <3>3. p.id \in 1 .. uuids /\ p.id # 0 /\ p.ends \in EndLists
      BY <1>1, <1>2, <3>2, ProxiesOf
    <3> HIDE DEF p
    <3>4. PICK c \in Consumer, k \in Nodes \cup {FirstNode(p.ends)} : x = SetRoute(s, c, p.id, k)
      BY <3>1
    <3>5. k \in Nat
      BY <3>3, NodesAre
    <3>6. p.id \in 0 .. uuids
      BY <1>2, <3>3
    <3>7. v = uuids
      BY <2>0, <2>3
    <3> QED BY <1>1, <1>2, <3>3, <3>4, <3>5, <3>6, <3>7, SetsRoute
  <2>4. CASE cmd.verb = "show"
    <3>1. x = AllAsked(s)
      BY <1>4, <2>4 DEF Commanded
    <3> QED BY <1>1, <1>2, <2>0, <2>4, <3>1, AsksRoute
  <2> QED BY <2>0, <2>1, <2>2, <2>3, <2>4
<1>5. CASE topic = "paths"
  <2>1. cmd.verb = "visit" /\ v = uuids
    BY <1>1, <1>5 DEF Verbs
  <2>2. x \in {AddPath(s, d) : d \in Dir}
    BY <1>5, <2>1 DEF Commanded
  <2> QED BY <1>1, <1>2, <2>1, <2>2, AddsPath
<1> QED BY <1>1, <1>3, <1>4, <1>5

\* And one that ends writes that copy back, changed or not.
LEMMA CommandStops == ASSUME PrefsInv, CommandEnds PROVE PrefsInv'
<1> DEFINE v == IF topic = "proxy" /\ cmd.verb = "add" THEN uuids + 1 ELSE uuids
<1>1. /\ cmd # Missing /\ uuids' = v /\ cmd' = Missing
      /\ UNCHANGED <<topic, mem, page, trialOf, chosen, proxySession, edits, cmds>>
      /\ stored' = stored \/ stored' \in Commanded
  BY DEF CommandEnds
<1>2. v \in Nat /\ uuids <= v /\ uuids \in Nat
  BY IdsAre
<1>3. \A x \in Commanded : WholeCopy(x, v)
  BY <1>1, <1>2, CommandWrites
<1> HIDE DEF v
<1>4. stored = Missing \/ WholeCopy(stored, v)
  BY <1>2, WholeGrows DEF PrefsInv
<1>5. stored' = Missing \/ WholeCopy(stored', v)
  BY <1>1, <1>3, <1>4
<1>6. cmds' \in 0 .. MaxCommands
  BY <1>1 DEF PrefsInv
<1> QED BY <1>1, <1>2, <1>5, <1>6, WindowStays

\* At the start the invariant holds,
LEMMA PrefsStart == PrefsInit => PrefsInv
<1> SUFFICES ASSUME PrefsInit PROVE PrefsInv
  OBVIOUS
<1>1. MaxEdits \in Nat /\ MaxCommands \in Nat
  BY ProfilesAssumption
<1>2. /\ topic \in {"ai", "proxy", "paths"} /\ edits = 0 /\ cmds = 0 /\ uuids = 0
      /\ stored = Missing /\ mem = Missing /\ page = Missing /\ trialOf = "" /\ chosen = "" /\ proxySession = <<>> /\ cmd = Missing
  BY DEF PrefsInit
<1>3. edits \in 0 .. MaxEdits /\ cmds \in 0 .. MaxCommands /\ uuids \in Nat
  <2>1. 0 \in 0 .. MaxEdits /\ 0 \in 0 .. MaxCommands
    BY <1>1
  <2> QED BY <1>2, <2>1
<1> QED BY <1>2, <1>3 DEF PrefsInv, SessionFresh

\* a step that leaves the preferences alone keeps it,
LEMMA PrefsIdle == PrefsInv /\ UNCHANGED prefs => PrefsInv'
BY DEF PrefsInv, prefs, SessionFresh, CmdWhole, PageWhole, Profile, Verbs, List

\* and so does each step of a window or a command.
LEMMA PrefsStep == PrefsInv /\ [PrefsNext]_prefs => PrefsInv'
<1> SUFFICES ASSUME PrefsInv, [PrefsNext]_prefs PROVE PrefsInv'
  OBVIOUS
<1>1. CASE AiPage
  BY <1>1, AddsAi, AiRows, TrialEnds, Chooses DEF AiPage
<1>2. CASE ProxyPage
  <2>1. ASSUME NEW n \in Label, NEW l \in EndLists, AddProxy(n, l) \/ AcceptProxy(n, l) PROVE PrefsInv'
    BY <2>1, AddsProxy, AcceptsProxy
  <2>2. ASSUME NEW i \in 1 .. 3, RemoveProxyShown(i) \/ MakeDefault(i) PROVE PrefsInv'
    BY <2>2, RemovesShown, RoutesAll
  <2>3. CASE ResetRoutes
    BY <2>3, RoutesAll
  <2>4. ASSUME NEW c \in Consumer, AskRoute(c) \/ \E k \in 0 .. uuids : PickRoute(c, k) PROVE PrefsInv'
    BY <2>4, PicksRoute, AsksAndVisits
  <2>5. ASSUME NEW c \in Consumer, NEW k \in Nodes, PickNode(c, k) PROVE PrefsInv'
    BY <2>5, PicksRoute
  <2>6. ASSUME NEW n \in Label \cup {""}, ChooseProfile(n) PROVE PrefsInv'
    BY <2>6, ProfilesChosen
  <2> QED BY <1>2, <2>1, <2>2, <2>3, <2>4, <2>5, <2>6 DEF ProxyPage
<1>3. CASE GuiLoads \/ GuiExits \/ OpenSettings \/ Dismiss \/ \E i \in 1 .. 3 : Edit(i)
  BY <1>3, WindowMoves
<1>4. CASE CloseSettings
  BY <1>4, ProfilesChosen
<1>5. CASE \E d \in Dir : VisitDir(d)
  BY <1>5, AsksAndVisits
<1>6. CASE \E v \in {"add", "remove", "default", "test", "set", "show", "visit"}, n \in Label : CommandStarts(v, n)
  BY <1>6, CommandBegins
<1>7. CASE CommandEnds
  BY <1>7, CommandStops
<1>8. CASE UNCHANGED prefs
  BY <1>8, PrefsIdle
<1> QED BY <1>1, <1>2, <1>3, <1>4, <1>5, <1>6, <1>7, <1>8 DEF PrefsNext

\* SettingsSound holds whatever windows and commands do, and whichever write fails: every
\* copy of the preferences, in the file, in memory or with a command, is of one piece, and
\* once the settings are closed the session has the endpoints of the profile chosen.
THEOREM SettingsStaySound == PrefsSpec => []SettingsSound
<1>1. PrefsInv => SettingsSound
  BY PrefsInvShows
<1> QED BY <1>1, PrefsStart, PrefsStep, PTL DEF PrefsSpec

-----------------------------------------------------------------------------
(* Calls of models: permits and tokens                                       *)

\* A number of ticks in whole tokens, and what is over
LEMMA Division ==
  ASSUME NEW t \in Nat \ {0}, NEW n \in Nat
  PROVE  /\ n \div t \in Nat /\ n % t \in Nat /\ n % t < t
         /\ n = t * (n \div t) + (n % t)
OBVIOUS

\* Who finds such a quotient and remainder has found the ones.
LEMMA QuotientIs ==
  ASSUME NEW t \in Nat \ {0}, NEW n \in Nat, NEW q \in Nat, NEW r \in Nat, n = t * q + r, r < t
  PROVE  n \div t = q /\ n % t = r
OBVIOUS

\* More ticks are as many tokens or more.
LEMMA QuotientGrows ==
  ASSUME NEW t \in Nat \ {0}, NEW m \in Nat, NEW n \in Nat, m <= n
  PROVE  m \div t <= n \div t
OBVIOUS

\* The record of a call
CallStates ==
  [at : {"free", "permit", "token", "sleep", "sent"}, stage : {"ask", "probe", "reprobe"}, age : Nat, left : Nat]
\* How many ticks ago, in a minute
Ages == 0 .. Minute - 1

\* Types of the limiter and its callers
CallsTyped ==
  /\ tokens \in 0 .. Minute /\ sem \in Nat /\ lostPermits \in Nat
  /\ call \in [AiCaller -> CallStates] /\ sent \in [Ages -> Nat]

\* Who sleeps for a token found the bucket emptied, so what grew since is less than what
\* was slept.
SleepersWait ==
  \A c \in AiCaller : call[c].at = "sleep" => call[c].left + tokens <= TokenTicks

\* Sums of what was sent in the last ticks
IsSum(g, f) == \A a \in Ages : g[a] = f[a] + IF a = 0 THEN 0 ELSE g[a - 1]

\* What can still be sent within the minute that began a ticks ago: by each permit a
\* request for each token's time, one more by who wakes up within what is over, and what
\* the bucket pays for.
Ahead(a) == Minute - 1 - a
Soon(a) == {c \in AiCaller : call[c].at = "sleep" /\ call[c].left <= Ahead(a) % TokenTicks}
ToCome(a) ==
  Cardinality(Soon(a)) + AiConcurrency * (Ahead(a) \div TokenTicks) + ((tokens + Ahead(a)) \div TokenTicks)

RateBounded ==
  \E g \in [Ages -> Nat] : IsSum(g, sent) /\ \A a \in Ages : g[a] + ToCome(a) < (AiConcurrency + 2) * Capacity

CallsInv == CallsTyped /\ PermitsBack /\ IsFiniteSet(PermitHolders) /\ SleepersWait /\ RateBounded

\* What the limits are
LEMMA MinuteIs ==
  /\ Capacity \in Nat \ {0} /\ TokenTicks \in Nat \ {0} /\ AiConcurrency \in Nat \ {0} /\ MaxWait \in Nat \ {0}
  /\ Minute \in Nat \ {0} /\ 0 \in Ages /\ Minute = Capacity * TokenTicks /\ TokenTicks <= Minute
  /\ \A a \in Ages : Ahead(a) \in Nat /\ Ahead(a) <= Minute - 1 /\ a \in Nat
<1>1. Capacity \in Nat \ {0} /\ TokenTicks \in Nat \ {0} /\ AiConcurrency \in Nat \ {0} /\ MaxWait \in Nat \ {0}
  BY CallsAssumption
<1>2. Capacity * TokenTicks \in Nat \ {0} /\ TokenTicks <= Capacity * TokenTicks
  BY <1>1
<1>3. Minute \in Nat \ {0} /\ Minute = Capacity * TokenTicks
  BY <1>2 DEF Minute
<1> QED BY <1>1, <1>2, <1>3 DEF Ages, Ahead

\* What is to come is a number.
LEMMA ToComeIs ==
  ASSUME CallsTyped, IsFiniteSet(PermitHolders), NEW a \in Ages
  PROVE  /\ Soon(a) \subseteq PermitHolders /\ IsFiniteSet(Soon(a)) /\ Cardinality(Soon(a)) \in Nat
         /\ Cardinality(Soon(a)) <= Cardinality(PermitHolders) /\ Cardinality(PermitHolders) \in Nat
         /\ AiConcurrency * (Ahead(a) \div TokenTicks) \in Nat /\ (tokens + Ahead(a)) \div TokenTicks \in Nat
         /\ ToCome(a) \in Nat
<1>1. Soon(a) \subseteq PermitHolders
  BY DEF Soon, PermitHolders
<1>2. /\ IsFiniteSet(Soon(a)) /\ Cardinality(Soon(a)) \in Nat
      /\ Cardinality(Soon(a)) <= Cardinality(PermitHolders) /\ Cardinality(PermitHolders) \in Nat
  BY <1>1, FS_Subset, FS_CardinalityType
<1>3. tokens + Ahead(a) \in Nat /\ Ahead(a) \in Nat
  BY MinuteIs DEF CallsTyped
<1>4. Ahead(a) \div TokenTicks \in Nat /\ (tokens + Ahead(a)) \div TokenTicks \in Nat
  BY <1>3, MinuteIs, Division
<1>5. AiConcurrency * (Ahead(a) \div TokenTicks) \in Nat
  BY <1>4, MinuteIs
<1> QED BY <1>1, <1>2, <1>4, <1>5 DEF ToCome

\* A call that moves is or is not one that holds a permit, and that wakes up soon.
LEMMA CallMoves ==
  ASSUME CallsTyped, NEW c \in AiCaller, NEW x \in CallStates, call' = [call EXCEPT ![c] = x]
  PROVE  /\ call' \in [AiCaller -> CallStates] /\ call'[c] = x
         /\ \A d \in AiCaller : d # c => call'[d] = call[d]
         /\ PermitHolders' = IF x.at \in {"token", "sleep", "sent"} THEN PermitHolders \cup {c} ELSE PermitHolders \ {c}
         /\ \A a \in Ages : Soon(a)' = IF x.at = "sleep" /\ x.left <= Ahead(a) % TokenTicks
                                       THEN Soon(a) \cup {c} ELSE Soon(a) \ {c}
<1>1. call' \in [AiCaller -> CallStates] /\ call'[c] = x /\ \A d \in AiCaller : d # c => call'[d] = call[d]
  BY DEF CallsTyped
<1>2. ASSUME NEW a \in Ages
      PROVE  Soon(a)' = IF x.at = "sleep" /\ x.left <= Ahead(a) % TokenTicks
                        THEN Soon(a) \cup {c} ELSE Soon(a) \ {c}
  BY <1>1 DEF Soon, Ahead
<1>3. PermitHolders' = IF x.at \in {"token", "sleep", "sent"} THEN PermitHolders \cup {c} ELSE PermitHolders \ {c}
  BY <1>1 DEF PermitHolders
<1> QED BY <1>1, <1>2, <1>3

\* The bound stays as long as what is sent was to come.
LEMMA RateGoesOn ==
  ASSUME CallsInv, CallsTyped', IsFiniteSet(PermitHolders)',
         \/ UNCHANGED sent /\ \A a \in Ages : ToCome(a)' <= ToCome(a)
         \/ sent' = [sent EXCEPT ![0] = @ + 1] /\ \A a \in Ages : ToCome(a)' + 1 <= ToCome(a)
  PROVE  RateBounded'
<1> DEFINE Limit == (AiConcurrency + 2) * Capacity
<1>1. Limit \in Nat /\ \A a \in Ages : ToCome(a) \in Nat /\ ToCome(a)' \in Nat
  <2>1. \A a \in Ages : ToCome(a) \in Nat
    BY ToComeIs DEF CallsInv
  <2>2. ASSUME NEW a \in Ages PROVE ToCome(a)' \in Nat
    <3>1. Soon(a)' \subseteq PermitHolders'
      BY DEF Soon, PermitHolders
    <3>2. Cardinality(Soon(a)') \in Nat
      BY <3>1, FS_Subset, FS_CardinalityType
    <3>3. tokens' + Ahead(a) \in Nat /\ Ahead(a) \in Nat
      BY MinuteIs DEF CallsTyped
    <3>4. Ahead(a) \div TokenTicks \in Nat /\ (tokens' + Ahead(a)) \div TokenTicks \in Nat
      BY <3>3, MinuteIs, Division
    <3>5. AiConcurrency * (Ahead(a) \div TokenTicks) \in Nat
      BY <3>4, MinuteIs
    <3> QED BY <3>2, <3>4, <3>5 DEF ToCome, Ahead
  <2> QED BY <2>1, <2>2, MinuteIs
<1>2. PICK g \in [Ages -> Nat] : IsSum(g, sent) /\ \A a \in Ages : g[a] + ToCome(a) < Limit
  BY DEF CallsInv, RateBounded
<1>3. CASE UNCHANGED sent /\ \A a \in Ages : ToCome(a)' <= ToCome(a)
  <2>1. ASSUME NEW a \in Ages PROVE g[a] + ToCome(a)' < Limit
    BY <1>1, <1>2, <1>3
  <2> QED BY <1>2, <1>3, <2>1 DEF RateBounded
<1>4. CASE sent' = [sent EXCEPT ![0] = @ + 1] /\ \A a \in Ages : ToCome(a)' + 1 <= ToCome(a)
  <2> DEFINE h == [a \in Ages |-> g[a] + 1]
  <2>1. h \in [Ages -> Nat] /\ \A a \in Ages : h[a] = g[a] + 1
    OBVIOUS
  <2>2. ASSUME NEW a \in Ages PROVE h[a] + ToCome(a)' < Limit
    <3>1. h[a] = g[a] + 1 /\ g[a] \in Nat /\ g[a] + ToCome(a) < Limit /\ ToCome(a)' + 1 <= ToCome(a)
      BY <1>2, <1>4, <2>1
    <3> HIDE DEF h, Limit
    <3> QED BY <1>1, <3>1
  <2>3. IsSum(h, sent')
    <3> SUFFICES ASSUME NEW a \in Ages PROVE h[a] = sent'[a] + IF a = 0 THEN 0 ELSE h[a - 1]
      BY DEF IsSum
    <3>1. /\ sent'[a] = IF a = 0 THEN sent[a] + 1 ELSE sent[a]
          /\ g[a] = sent[a] + IF a = 0 THEN 0 ELSE g[a - 1]
          /\ sent[a] \in Nat
      BY <1>2, <1>4, MinuteIs DEF IsSum, CallsInv, CallsTyped
    <3>2. a # 0 => a - 1 \in Ages
      BY MinuteIs DEF Ages
    <3>3. a # 0 => g[a - 1] \in Nat /\ h[a - 1] = g[a - 1] + 1
      BY <3>2, <2>1
    <3>4. h[a] = g[a] + 1
      BY <2>1
    <3> HIDE DEF h
    <3> QED BY <3>1, <3>3, <3>4
  <2> HIDE DEF h
  <2> QED BY <2>1, <2>2, <2>3 DEF RateBounded
<1> QED BY <1>3, <1>4

\* The count of who holds a permit, when one call moves
LEMMA HoldersMove ==
  ASSUME IsFiniteSet(PermitHolders), NEW c,
         \/ PermitHolders' = PermitHolders \cup {c}
         \/ PermitHolders' = PermitHolders \ {c}
  PROVE  /\ IsFiniteSet(PermitHolders') /\ Cardinality(PermitHolders') \in Nat /\ Cardinality(PermitHolders) \in Nat
         /\ PermitHolders' = PermitHolders \cup {c} =>
              Cardinality(PermitHolders') = Cardinality(PermitHolders) + IF c \in PermitHolders THEN 0 ELSE 1
         /\ PermitHolders' = PermitHolders \ {c} =>
              Cardinality(PermitHolders') = Cardinality(PermitHolders) - IF c \in PermitHolders THEN 1 ELSE 0
BY FS_AddElement, FS_RemoveElement, FS_CardinalityType

\* Where a call goes that neither sends nor sleeps, and permits change with it
LEMMA QuietMove ==
  ASSUME CallsInv, NEW c \in AiCaller, NEW x \in CallStates, call' = [call EXCEPT ![c] = x],
         x.at # "sleep", UNCHANGED <<tokens, sent>>, NEW free \in Nat, sem' = free, NEW gone \in Nat, lostPermits' = gone,
         NEW before \in Nat, before = IF c \in PermitHolders THEN 1 ELSE 0,
         NEW after \in Nat, after = IF x.at \in {"token", "sleep", "sent"} THEN 1 ELSE 0,
         free + gone + after = sem + lostPermits + before
  PROVE  CallsInv'
<1>0. CallsTyped /\ IsFiniteSet(PermitHolders) /\ PermitsBack /\ SleepersWait
  BY DEF CallsInv
<1>1. /\ call' \in [AiCaller -> CallStates] /\ call'[c] = x
      /\ \A d \in AiCaller : d # c => call'[d] = call[d]
      /\ PermitHolders' = IF x.at \in {"token", "sleep", "sent"} THEN PermitHolders \cup {c} ELSE PermitHolders \ {c}
      /\ \A a \in Ages : Soon(a)' = Soon(a) \ {c}
  BY <1>0, CallMoves
<1>2. CallsTyped'
  BY <1>0, <1>1 DEF CallsTyped
<1>3. IsFiniteSet(PermitHolders')
  BY <1>0, <1>1, HoldersMove
<1>4. PermitsBack'
  <2>1. Cardinality(PermitHolders') \in Nat /\ Cardinality(PermitHolders) \in Nat
    BY <1>0, <1>1, HoldersMove
  <2>2. Cardinality(PermitHolders') + before = Cardinality(PermitHolders) + after
    <3>1. CASE x.at \in {"token", "sleep", "sent"}
      <4>1. PermitHolders' = PermitHolders \cup {c} /\ after = 1
        BY <1>1, <3>1
      <4>2. Cardinality(PermitHolders') = Cardinality(PermitHolders) + IF c \in PermitHolders THEN 0 ELSE 1
        BY <1>0, <4>1, HoldersMove
      <4> QED BY <2>1, <4>1, <4>2
    <3>2. CASE x.at \notin {"token", "sleep", "sent"}
      <4>1. PermitHolders' = PermitHolders \ {c} /\ after = 0
        BY <1>1, <3>2
      <4>2. Cardinality(PermitHolders') = Cardinality(PermitHolders) - IF c \in PermitHolders THEN 1 ELSE 0
        BY <1>0, <4>1, HoldersMove
      <4> QED BY <2>1, <4>1, <4>2
    <3> QED BY <3>1, <3>2
  <2>3. sem + Cardinality(PermitHolders) + lostPermits = AiConcurrency /\ sem \in Nat /\ lostPermits \in Nat
    BY <1>0 DEF PermitsBack, CallsTyped
  <2> QED BY <2>1, <2>2, <2>3 DEF PermitsBack
<1>5. SleepersWait'
  BY <1>0, <1>1 DEF SleepersWait
<1>6. \A a \in Ages : ToCome(a)' <= ToCome(a)
  <2> SUFFICES ASSUME NEW a \in Ages PROVE ToCome(a)' <= ToCome(a)
    OBVIOUS
  <2>1. Cardinality(Soon(a)') <= Cardinality(Soon(a)) /\ Cardinality(Soon(a)') \in Nat
    BY <1>0, <1>1, ToComeIs, FS_Subset, FS_CardinalityType
  <2>2. ToCome(a)' = Cardinality(Soon(a)') + AiConcurrency * (Ahead(a) \div TokenTicks) + ((tokens + Ahead(a)) \div TokenTicks)
    BY DEF ToCome, Ahead
  <2> QED BY <1>0, <2>1, <2>2, ToComeIs DEF ToCome
<1>7. RateBounded'
  BY <1>2, <1>3, <1>6, RateGoesOn
<1> QED BY <1>2, <1>3, <1>4, <1>5, <1>7 DEF CallsInv

\* A request that ends leaves its call free, or waiting for a permit for another try.
LEMMA AfterEnds ==
  ASSUME CallsTyped, NEW c \in AiCaller, NEW again \in BOOLEAN, After(c, again)
  PROVE  \E x \in CallStates : call' = [call EXCEPT ![c] = x] /\ x.at \in {"free", "permit"}
<1>1. call[c] \in CallStates /\ NoCall \in CallStates /\ NoCall.at = "free"
  BY DEF CallsTyped, NoCall, CallStates
<1>2. CASE call[c].stage = "ask"
  BY <1>1, <1>2 DEF After
<1>3. CASE call[c].stage # "ask"
  <2> DEFINE next == IF again /\ call[c].stage = "probe" THEN "reprobe" ELSE "ask"
             x == [call[c] EXCEPT !.at = "permit", !.age = 0, !.stage = next]
  <2>1. x \in CallStates /\ x.at = "permit"
    BY <1>1 DEF CallStates
  <2>2. call' = [call EXCEPT ![c] = x]
    BY <1>3, Zenon DEF After
  <2> HIDE DEF x
  <2> QED BY <2>1, <2>2
<1> QED BY <1>2, <1>3

\* What goes on with permits alone
LEMMA PermitsMove ==
  ASSUME CallsInv, NEW c \in AiCaller, NEW b \in BOOLEAN,
         Call(c, b) \/ Permit(c) \/ NoPermit(c) \/ RequestEnds(c, b) \/ CancelWait(c) \/ Cancel(c)
  PROVE  CallsInv'
<1>0. CallsTyped /\ call[c] \in CallStates /\ sem \in Nat /\ lostPermits \in Nat
  BY DEF CallsInv, CallsTyped
<1>n. NoCall \in CallStates /\ NoCall.at = "free"
  BY DEF NoCall, CallStates
<1>h. c \in PermitHolders <=> call[c].at \in {"token", "sleep", "sent"}
  BY DEF PermitHolders
<1>1. CASE Call(c, b)
  <2> DEFINE x == [NoCall EXCEPT !.at = "permit", !.stage = IF b THEN "probe" ELSE "ask"]
  <2>1. x \in CallStates /\ x.at = "permit" /\ call' = [call EXCEPT ![c] = x] /\ UNCHANGED <<tokens, sem, lostPermits, sent>>
    BY <1>1 DEF Call, NoCall, CallStates
  <2>2. c \notin PermitHolders
    BY <1>1, <1>h, <1>n DEF Call
  <2> HIDE DEF x
  <2> QED BY <1>0, <2>1, <2>2, QuietMove
<1>2. CASE Permit(c)
  <2> DEFINE x == [call[c] EXCEPT !.at = "token"]
  <2>1. x \in CallStates /\ x.at = "token" /\ call' = [call EXCEPT ![c] = x] /\ UNCHANGED <<tokens, lostPermits, sent>>
    BY <1>0, <1>2 DEF Permit, CallGoes, CallStates
  <2>2. c \notin PermitHolders /\ sem - 1 \in Nat /\ sem' = sem - 1 /\ (sem - 1) + lostPermits + 1 = sem + lostPermits + 0
    BY <1>0, <1>2, <1>h DEF Permit
  <2> HIDE DEF x
  <2> QED BY <1>0, <2>1, <2>2, QuietMove
<1>3. CASE NoPermit(c)
  <2>1. PICK x \in CallStates : call' = [call EXCEPT ![c] = x] /\ x.at \in {"free", "permit"}
    BY <1>0, <1>3, AfterEnds DEF NoPermit
  <2>2. c \notin PermitHolders /\ UNCHANGED <<tokens, sem, lostPermits, sent>>
    BY <1>3, <1>h DEF NoPermit
  <2> QED BY <1>0, <2>1, <2>2, QuietMove
<1>4. CASE RequestEnds(c, b)
  <2>1. PICK x \in CallStates : call' = [call EXCEPT ![c] = x] /\ x.at \in {"free", "permit"}
    BY <1>0, <1>4, AfterEnds DEF RequestEnds
  <2>2. /\ c \in PermitHolders /\ sem' = sem + 1 /\ UNCHANGED <<tokens, lostPermits, sent>>
        /\ sem + 1 \in Nat /\ (sem + 1) + lostPermits + 0 = sem + lostPermits + 1
    BY <1>0, <1>4, <1>h DEF RequestEnds
  <2> QED BY <1>0, <2>1, <2>2, QuietMove
<1>5. CASE CancelWait(c)
  <2>1. c \notin PermitHolders /\ call' = [call EXCEPT ![c] = NoCall] /\ UNCHANGED <<tokens, sem, lostPermits, sent>>
    BY <1>5, <1>h DEF CancelWait
  <2> QED BY <1>0, <1>n, <2>1, QuietMove
<1>6. CASE Cancel(c)
  <2>1. /\ c \in PermitHolders /\ call' = [call EXCEPT ![c] = NoCall] /\ sem' = sem + 1
        /\ UNCHANGED <<tokens, lostPermits, sent>> /\ sem + 1 \in Nat /\ (sem + 1) + lostPermits + 0 = sem + lostPermits + 1
    BY <1>0, <1>6, <1>h DEF Cancel
  <2> QED BY <1>0, <1>n, <2>1, QuietMove
<1> QED BY <1>1, <1>2, <1>3, <1>4, <1>5, <1>6

\* What is to come, part by part
LEMMA ToComeParts ==
  ASSUME CallsTyped, IsFiniteSet(PermitHolders), NEW a \in Ages
  PROVE  \E n \in Nat, k \in Nat, m \in Nat :
           /\ n = Cardinality(Soon(a)) /\ k = AiConcurrency * (Ahead(a) \div TokenTicks)
           /\ m = (tokens + Ahead(a)) \div TokenTicks /\ ToCome(a) = n + k + m
BY ToComeIs DEF ToCome

\* A token that is there is paid, and what is to come is less by one.
LEMMA TokenPaid ==
  ASSUME CallsInv, NEW c \in AiCaller, call[c].at = "token", tokens >= TokenTicks, Token(c)
  PROVE  CallsInv'
<1>0. CallsTyped /\ IsFiniteSet(PermitHolders) /\ PermitsBack /\ SleepersWait /\ call[c] \in CallStates
  BY DEF CallsInv, CallsTyped
<1> DEFINE x == [call[c] EXCEPT !.at = "sent"]
<1>1. /\ x \in CallStates /\ x.at = "sent" /\ call' = [call EXCEPT ![c] = x]
      /\ tokens' = tokens - TokenTicks /\ sent' = [sent EXCEPT ![0] = @ + 1] /\ UNCHANGED <<sem, lostPermits>>
  BY <1>0 DEF Token, Send, CallGoes, CallStates
<1> HIDE DEF x
<1>2. /\ call' \in [AiCaller -> CallStates] /\ call'[c] = x
      /\ \A d \in AiCaller : d # c => call'[d] = call[d]
      /\ PermitHolders' = PermitHolders \cup {c}
      /\ \A a \in Ages : Soon(a)' = Soon(a) \ {c}
  BY <1>0, <1>1, CallMoves
<1>3. c \in PermitHolders /\ PermitHolders' = PermitHolders /\ \A a \in Ages : Soon(a)' = Soon(a)
  BY <1>2 DEF PermitHolders, Soon
<1>4. tokens - TokenTicks \in 0 .. Minute /\ tokens \in Nat /\ tokens' = tokens - TokenTicks
  BY <1>0, <1>1, MinuteIs DEF CallsTyped
<1>5. CallsTyped'
  <2>1. sent' \in [Ages -> Nat]
    BY <1>0, <1>1, MinuteIs DEF CallsTyped
  <2> QED BY <1>0, <1>1, <1>2, <1>4, <2>1 DEF CallsTyped
<1>6. PermitsBack' /\ IsFiniteSet(PermitHolders)'
  BY <1>0, <1>1, <1>3 DEF PermitsBack
<1>7. SleepersWait'
  <2> SUFFICES ASSUME NEW d \in AiCaller, call'[d].at = "sleep" PROVE call'[d].left + tokens' <= TokenTicks
    BY DEF SleepersWait
  <2>1. d # c /\ call[d] \in CallStates /\ call'[d] = call[d]
    BY <1>0, <1>1, <1>2 DEF CallsTyped
  <2>2. call[d].left \in Nat /\ call[d].left + tokens <= TokenTicks
    BY <1>0, <2>1 DEF SleepersWait, CallStates
  <2> QED BY <1>4, <2>1, <2>2, MinuteIs
<1>8. \A a \in Ages : ToCome(a)' + 1 <= ToCome(a)
  <2> SUFFICES ASSUME NEW a \in Ages PROVE ToCome(a)' + 1 <= ToCome(a)
    OBVIOUS
  <2> DEFINE whole == (tokens + Ahead(a)) \div TokenTicks
             left == (tokens - TokenTicks + Ahead(a)) \div TokenTicks
  <2>1. left \in Nat /\ whole \in Nat /\ left + 1 = whole
    <3> DEFINE n == tokens + Ahead(a)
    <3>1. n \in Nat /\ n >= TokenTicks /\ tokens - TokenTicks + Ahead(a) = n - TokenTicks
      BY <1>4, MinuteIs
    <3> HIDE DEF n
    <3>2. (n - TokenTicks) \div TokenTicks \in Nat /\ n \div TokenTicks \in Nat
          /\ ((n - TokenTicks) \div TokenTicks) + 1 = n \div TokenTicks
      BY <3>1, MinuteIs
    <3> QED BY <3>1, <3>2 DEF n
  <2>2. ToCome(a)' = Cardinality(Soon(a)) + AiConcurrency * (Ahead(a) \div TokenTicks) + left
    BY <1>1, <1>3 DEF ToCome, Ahead
  <2> HIDE DEF left, whole
  <2>3. ToCome(a) = Cardinality(Soon(a)) + AiConcurrency * (Ahead(a) \div TokenTicks) + whole
    BY DEF ToCome, whole
  <2>4. Cardinality(Soon(a)) \in Nat /\ AiConcurrency * (Ahead(a) \div TokenTicks) \in Nat
    BY <1>0, ToComeIs
  <2> QED BY <2>1, <2>2, <2>3, <2>4
<1>9. RateBounded'
  BY <1>1, <1>5, <1>6, <1>8, RateGoesOn
<1> QED BY <1>5, <1>6, <1>7, <1>9 DEF CallsInv

\* Who wakes up was to come.
LEMMA WakesUp ==
  ASSUME CallsInv, NEW c \in AiCaller, WakeUp(c)
  PROVE  CallsInv'
<1>0. CallsTyped /\ IsFiniteSet(PermitHolders) /\ PermitsBack /\ SleepersWait /\ call[c] \in CallStates
  BY DEF CallsInv, CallsTyped
<1> DEFINE x == [call[c] EXCEPT !.at = "sent"]
<1>1. /\ x \in CallStates /\ x.at = "sent" /\ call' = [call EXCEPT ![c] = x]
      /\ call[c].at = "sleep" /\ call[c].left = 0
      /\ sent' = [sent EXCEPT ![0] = @ + 1] /\ UNCHANGED <<tokens, sem, lostPermits>>
  BY <1>0 DEF WakeUp, Send, CallGoes, CallStates
<1> HIDE DEF x
<1>2. /\ call' \in [AiCaller -> CallStates] /\ call'[c] = x
      /\ \A d \in AiCaller : d # c => call'[d] = call[d]
      /\ PermitHolders' = PermitHolders \cup {c}
      /\ \A a \in Ages : Soon(a)' = Soon(a) \ {c}
  BY <1>0, <1>1, CallMoves
<1>3. c \in PermitHolders /\ PermitHolders' = PermitHolders
  BY <1>1, <1>2 DEF PermitHolders
<1>5. CallsTyped'
  <2>1. sent' \in [Ages -> Nat]
    BY <1>0, <1>1, MinuteIs DEF CallsTyped
  <2> QED BY <1>0, <1>1, <1>2, <2>1 DEF CallsTyped
<1>6. PermitsBack' /\ IsFiniteSet(PermitHolders)'
  BY <1>0, <1>1, <1>3 DEF PermitsBack
<1>7. SleepersWait'
  BY <1>0, <1>1, <1>2 DEF SleepersWait
<1>8. \A a \in Ages : ToCome(a)' + 1 <= ToCome(a)
  <2> SUFFICES ASSUME NEW a \in Ages PROVE ToCome(a)' + 1 <= ToCome(a)
    OBVIOUS
  <2>1. Ahead(a) % TokenTicks \in Nat
    BY MinuteIs, Division
  <2>2. c \in Soon(a)
    BY <1>1, <2>1 DEF Soon
  <2>3. Cardinality(Soon(a)') = Cardinality(Soon(a)) - 1 /\ Cardinality(Soon(a)) \in Nat
    BY <1>0, <1>2, <2>2, ToComeIs, FS_RemoveElement
  <2>4. ToCome(a)' = Cardinality(Soon(a)') + AiConcurrency * (Ahead(a) \div TokenTicks) + ((tokens + Ahead(a)) \div TokenTicks)
    BY <1>1 DEF ToCome, Ahead
  <2>5. PICK n \in Nat, k \in Nat, m \in Nat :
           /\ n = Cardinality(Soon(a)) /\ k = AiConcurrency * (Ahead(a) \div TokenTicks)
           /\ m = (tokens + Ahead(a)) \div TokenTicks /\ ToCome(a) = n + k + m
    BY <1>0, ToComeParts
  <2> QED BY <2>3, <2>4, <2>5
<1>9. RateBounded'
  BY <1>1, <1>5, <1>6, <1>8, RateGoesOn
<1> QED BY <1>5, <1>6, <1>7, <1>9 DEF CallsInv

\* What the bucket lacks of a token is slept for within the minute, or is not to be had in it.
LEMMA WaitFits ==
  ASSUME NEW t \in Nat \ {0}, NEW n \in Nat, NEW k \in Nat, k < t
  PROVE  /\ t - k <= n % t => n \div t + 1 <= (k + n) \div t
         /\ n \div t <= (k + n) \div t /\ n \div t \in Nat /\ (k + n) \div t \in Nat
<1>1. n \div t \in Nat /\ n % t \in Nat /\ n % t < t /\ n = t * (n \div t) + (n % t)
  BY Division
<1>2. k + n \in Nat /\ n <= k + n /\ (k + n) \div t \in Nat
  BY Division
<1>3. n \div t <= (k + n) \div t
  BY <1>2, QuotientGrows
<1>4. ASSUME t - k <= n % t PROVE n \div t + 1 <= (k + n) \div t
  <2> DEFINE q == n \div t
             r == n % t
  <2>1. q \in Nat /\ r \in Nat /\ n = t * q + r /\ t - k <= r /\ r < t
    BY <1>1, <1>4
  <2> HIDE DEF q, r
  <2>2. t * (q + 1) = t * q + t
    BY <2>1
  <2>3. t * q \in Nat
    BY <2>1
  <2>4. k + n = t * (q + 1) + (k + r - t) /\ k + r - t \in Nat /\ k + r - t < t
    BY <2>1, <2>2, <2>3
  <2>5. (k + n) \div t = q + 1
    BY <1>2, <2>1, <2>4, QuotientIs
  <2> QED BY <2>1, <2>5 DEF q
<1> QED BY <1>1, <1>2, <1>3, <1>4

\* Who finds no token takes what there is, and gives up or sleeps for the rest.
LEMMA TokenLacks ==
  ASSUME CallsInv, NEW c \in AiCaller, tokens < TokenTicks, Token(c)
  PROVE  CallsInv'
<1>0. CallsTyped /\ IsFiniteSet(PermitHolders) /\ PermitsBack /\ SleepersWait /\ call[c] \in CallStates
  BY DEF CallsInv, CallsTyped
<1>1. /\ call[c].at = "token" /\ c \in PermitHolders /\ tokens \in Nat /\ TokenTicks - tokens \in Nat \ {0}
      /\ tokens' = 0 /\ UNCHANGED <<sent, lostPermits>> /\ sem \in Nat /\ lostPermits \in Nat /\ ~(tokens >= TokenTicks)
  <2>1. tokens \in Nat /\ sem \in Nat /\ lostPermits \in Nat /\ TokenTicks - tokens \in Nat \ {0} /\ ~(tokens >= TokenTicks)
    BY <1>0, MinuteIs DEF CallsTyped
  <2>2. call[c].at = "token" /\ tokens' = 0 /\ UNCHANGED <<sent, lostPermits>>
    BY <2>1 DEF Token
  <2> QED BY <2>1, <2>2 DEF PermitHolders
<1>2. CASE call[c].age + (TokenTicks - tokens) > MaxWait
  <2>1. sem' = sem + 1 /\ After(c, FALSE)
    BY <1>1, <1>2 DEF Token
  <2>2. PICK x \in CallStates : call' = [call EXCEPT ![c] = x] /\ x.at \in {"free", "permit"}
    BY <1>0, <2>1, AfterEnds
  <2>3. /\ call' \in [AiCaller -> CallStates] /\ call'[c] = x
        /\ \A d \in AiCaller : d # c => call'[d] = call[d]
        /\ PermitHolders' = PermitHolders \ {c}
        /\ \A a \in Ages : Soon(a)' = Soon(a) \ {c}
    BY <1>0, <2>2, CallMoves
  <2>4. CallsTyped'
    BY <1>0, <1>1, <2>1, <2>3, MinuteIs DEF CallsTyped
  <2>5. IsFiniteSet(PermitHolders)'
    BY <1>0, <2>3, FS_Subset
  <2>6. PermitsBack'
    <3>1. Cardinality(PermitHolders') = Cardinality(PermitHolders) - 1 /\ Cardinality(PermitHolders) \in Nat
      BY <1>0, <1>1, <2>3, FS_RemoveElement, FS_CardinalityType
    <3> QED BY <1>0, <1>1, <2>1, <3>1 DEF PermitsBack
  <2>7. SleepersWait'
    <3> SUFFICES ASSUME NEW d \in AiCaller, call'[d].at = "sleep" PROVE call'[d].left + tokens' <= TokenTicks
      BY DEF SleepersWait
    <3>1. d # c /\ call[d] \in CallStates /\ call'[d] = call[d]
      BY <1>0, <2>2, <2>3 DEF CallsTyped
    <3>2. call[d].left \in Nat /\ call[d].left + tokens <= TokenTicks
      BY <1>0, <3>1 DEF SleepersWait, CallStates
    <3> QED BY <1>1, <3>1, <3>2, MinuteIs
  <2>8. \A a \in Ages : ToCome(a)' <= ToCome(a)
    <3> SUFFICES ASSUME NEW a \in Ages PROVE ToCome(a)' <= ToCome(a)
      OBVIOUS
    <3>1. PICK n \in Nat, k \in Nat, m \in Nat :
             /\ n = Cardinality(Soon(a)) /\ k = AiConcurrency * (Ahead(a) \div TokenTicks)
             /\ m = (tokens + Ahead(a)) \div TokenTicks /\ ToCome(a) = n + k + m
      BY <1>0, ToComeParts
    <3>2. Soon(a)' = Soon(a)
      BY <1>1, <2>3 DEF Soon
    <3>3. 0 + Ahead(a) = Ahead(a) /\ Ahead(a) \in Nat
      BY MinuteIs
    <3>4. ToCome(a)' = n + k + (Ahead(a) \div TokenTicks)
      BY <1>1, <3>1, <3>2, <3>3 DEF ToCome, Ahead
    <3>5. Ahead(a) \div TokenTicks <= m /\ Ahead(a) \div TokenTicks \in Nat
      BY <1>1, <3>1, <3>3, MinuteIs, WaitFits
    <3> QED BY <3>1, <3>4, <3>5
  <2> QED BY <1>1, <2>4, <2>5, <2>6, <2>7, <2>8, RateGoesOn DEF CallsInv
<1>3. CASE ~(call[c].age + (TokenTicks - tokens) > MaxWait)
  <2> DEFINE x == [[call[c] EXCEPT !.at = "sleep"] EXCEPT !.left = TokenTicks - tokens]
  <2>1. x \in CallStates /\ x.at = "sleep" /\ x.left = TokenTicks - tokens
    BY <1>0, <1>1 DEF CallStates
  <2>2. call' = [call EXCEPT ![c].at = "sleep", ![c].left = TokenTicks - tokens] /\ sem' = sem
    BY <1>1, <1>3 DEF Token
  <2>3. call' = [call EXCEPT ![c] = x]
    BY <1>0, <2>2 DEF CallsTyped, CallStates
  <2> HIDE DEF x
  <2>4. /\ call' \in [AiCaller -> CallStates] /\ call'[c] = x
        /\ \A d \in AiCaller : d # c => call'[d] = call[d]
        /\ PermitHolders' = PermitHolders \cup {c}
        /\ \A a \in Ages : Soon(a)' = IF x.left <= Ahead(a) % TokenTicks THEN Soon(a) \cup {c} ELSE Soon(a) \ {c}
    BY <1>0, <2>1, <2>3, CallMoves
  <2>5. PermitHolders' = PermitHolders /\ IsFiniteSet(PermitHolders)' /\ PermitsBack'
    <3>1. PermitHolders' = PermitHolders
      BY <1>1, <2>4
    <3> QED BY <1>0, <1>1, <2>2, <3>1 DEF PermitsBack
  <2>6. CallsTyped'
    BY <1>0, <1>1, <2>2, <2>4, MinuteIs DEF CallsTyped
  <2>7. SleepersWait'
    <3> SUFFICES ASSUME NEW d \in AiCaller, call'[d].at = "sleep" PROVE call'[d].left + tokens' <= TokenTicks
      BY DEF SleepersWait
    <3>1. CASE d = c
      BY <1>1, <2>1, <2>4, <3>1, MinuteIs
    <3>2. CASE d # c
      <4>1. call[d] \in CallStates /\ call'[d] = call[d]
        BY <1>0, <2>4, <3>2 DEF CallsTyped
      <4>2. call[d].left \in Nat /\ call[d].left + tokens <= TokenTicks
        BY <1>0, <4>1 DEF SleepersWait, CallStates
      <4> QED BY <1>1, <4>1, <4>2, MinuteIs
    <3> QED BY <3>1, <3>2
  <2>8. \A a \in Ages : ToCome(a)' <= ToCome(a)
    <3> SUFFICES ASSUME NEW a \in Ages PROVE ToCome(a)' <= ToCome(a)
      OBVIOUS
    <3>1. PICK n \in Nat, k \in Nat, m \in Nat :
             /\ n = Cardinality(Soon(a)) /\ k = AiConcurrency * (Ahead(a) \div TokenTicks)
             /\ m = (tokens + Ahead(a)) \div TokenTicks /\ ToCome(a) = n + k + m
      BY <1>0, ToComeParts
    <3>2. 0 + Ahead(a) = Ahead(a) /\ Ahead(a) \in Nat
      BY MinuteIs
    <3>3. c \notin Soon(a) /\ IsFiniteSet(Soon(a))
      BY <1>0, <1>1, ToComeIs DEF Soon
    <3>4. ToCome(a)' = Cardinality(Soon(a)') + k + (Ahead(a) \div TokenTicks)
      BY <1>1, <3>1, <3>2 DEF ToCome, Ahead
    <3>5. /\ Ahead(a) \div TokenTicks <= m /\ Ahead(a) \div TokenTicks \in Nat
          /\ TokenTicks - tokens <= Ahead(a) % TokenTicks => Ahead(a) \div TokenTicks + 1 <= m
      BY <1>1, <3>1, <3>2, MinuteIs, WaitFits
    <3>6. CASE TokenTicks - tokens <= Ahead(a) % TokenTicks
      <4>1. Cardinality(Soon(a)') = n + 1
        BY <2>1, <2>4, <3>1, <3>3, <3>6, FS_AddElement
      <4> QED BY <3>1, <3>4, <3>5, <3>6, <4>1
    <3>7. CASE ~(TokenTicks - tokens <= Ahead(a) % TokenTicks)
      <4>1. Cardinality(Soon(a)') = n
        BY <2>1, <2>4, <3>1, <3>3, <3>7
      <4> QED BY <3>1, <3>4, <3>5, <4>1
    <3> QED BY <3>6, <3>7
  <2> QED BY <1>1, <2>5, <2>6, <2>7, <2>8, RateGoesOn DEF CallsInv
<1> QED BY <1>2, <1>3

\* A thread that waited for nobody takes a permit, or nothing.
LEMMA StrayTakes ==
  ASSUME CallsInv, NEW c \in AiCaller, StrayEnds(c)
  PROVE  CallsInv'
<1>0. CallsTyped /\ IsFiniteSet(PermitHolders) /\ PermitsBack /\ SleepersWait
  BY DEF CallsInv
<1>1. /\ UNCHANGED <<tokens, call, sent>>
      /\ \/ sem > 0 /\ sem' = sem - 1 /\ lostPermits' = lostPermits + 1
         \/ UNCHANGED <<sem, lostPermits>>
  BY DEF StrayEnds
<1>2. CallsTyped' /\ SleepersWait' /\ PermitHolders' = PermitHolders /\ \A a \in Ages : Soon(a)' = Soon(a)
  BY <1>0, <1>1 DEF CallsTyped, SleepersWait, PermitHolders, Soon, Ahead
<1>3. PermitsBack'
  <2>1. Cardinality(PermitHolders) \in Nat /\ sem \in Nat /\ lostPermits \in Nat
    BY <1>0, FS_CardinalityType DEF CallsTyped
  <2> QED BY <1>0, <1>1, <1>2, <2>1 DEF PermitsBack
<1>4. ASSUME NEW a \in Ages PROVE ToCome(a)' <= ToCome(a)
  <2>1. ToCome(a)' = ToCome(a)
    BY <1>1, <1>2 DEF ToCome, Ahead
  <2> QED BY <1>0, <2>1, ToComeIs
<1> QED BY <1>0, <1>1, <1>2, <1>3, <1>4, RateGoesOn DEF CallsInv

\* The smaller of two numbers
LEMMA MinOfTwo ==
  ASSUME NEW m \in Nat, NEW n \in Nat
  PROVE  Min({m, n}) \in Nat /\ Min({m, n}) <= m /\ Min({m, n}) <= n
<1>1. \E x \in {m, n} : \A y \in {m, n} : x <= y
  OBVIOUS
<1>2. Min({m, n}) \in {m, n} /\ \A y \in {m, n} : Min({m, n}) <= y
  BY <1>1 DEF Min
<1> QED BY <1>2

\* A tick before, there was time for as many tokens, or for one more.
LEMMA TickOfWindow ==
  ASSUME NEW t \in Nat \ {0}, NEW n \in Nat
  PROVE  \/ (n + 1) % t # 0 /\ n \div t = (n + 1) \div t /\ (n % t) + 1 = (n + 1) % t
         \/ (n + 1) % t = 0 /\ (n \div t) + 1 = (n + 1) \div t
<1> DEFINE q == (n + 1) \div t
           r == (n + 1) % t
<1>1. q \in Nat /\ r \in Nat /\ r < t /\ n + 1 = t * q + r
  BY Division
<1> HIDE DEF q, r
<1>2. t * q \in Nat
  BY <1>1
<1>3. CASE r # 0
  <2>1. r - 1 \in Nat /\ n = t * q + (r - 1) /\ r - 1 < t
    BY <1>1, <1>2, <1>3
  <2>2. n \div t = q /\ n % t = r - 1
    BY <1>1, <2>1, QuotientIs
  <2> QED BY <1>1, <1>3, <2>2 DEF q, r
<1>4. CASE r = 0
  <2>1. q # 0
    BY <1>1, <1>4
  <2>2. q - 1 \in Nat /\ t - 1 \in Nat /\ t * (q - 1) = t * q - t
    BY <1>1, <2>1
  <2>3. n = t * (q - 1) + (t - 1)
    BY <1>1, <1>2, <1>4, <2>2
  <2>4. n \div t = q - 1
    BY <2>2, <2>3, QuotientIs
  <2> QED BY <1>1, <1>4, <2>4 DEF q, r
<1> QED BY <1>3, <1>4

\* The clock: what calls become of it
LEMMA TickMoves ==
  ASSUME CallsInv, Tick
  PROVE  /\ CallsTyped' /\ SleepersWait' /\ PermitsBack' /\ PermitHolders' = PermitHolders
         /\ tokens' <= tokens + 1
         /\ \A c \in AiCaller : /\ call'[c].at = call[c].at
                                /\ call[c].at = "sleep" => call[c].left # 0 /\ call'[c].left = call[c].left - 1
<1>0. CallsTyped /\ IsFiniteSet(PermitHolders) /\ PermitsBack /\ SleepersWait
  BY DEF CallsInv
<1>1. tokens' \in 0 .. Minute /\ tokens' <= tokens + 1
  <2>1. tokens + 1 \in Nat /\ Minute \in Nat /\ tokens' = Min({tokens + 1, Minute})
    <3>1. tokens' = Min({tokens + 1, Minute})
      BY DEF Tick
    <3> QED BY <1>0, <3>1, MinuteIs DEF CallsTyped
  <2> QED BY <2>1, MinOfTwo
<1>2. ASSUME NEW c \in AiCaller
      PROVE  /\ call'[c] \in CallStates /\ call'[c].at = call[c].at
             /\ call'[c].left = IF call[c].left = 0 THEN 0 ELSE call[c].left - 1
             /\ call[c] \in CallStates
  <2> DEFINE aged == IF call[c].at \in {"free", "sent"} THEN 0 ELSE Min({call[c].age + 1, MaxWait})
             rest == IF call[c].left = 0 THEN 0 ELSE call[c].left - 1
  <2>1. call[c] \in CallStates
    BY <1>0 DEF CallsTyped
  <2>2. call'[c] = [call[c] EXCEPT !.age = aged, !.left = rest]
    BY DEF Tick
  <2>3. aged \in Nat /\ rest \in Nat
    <3>1. call[c].age + 1 \in Nat /\ MaxWait \in Nat /\ call[c].left \in Nat
      BY <2>1, MinuteIs DEF CallStates
    <3> QED BY <3>1, MinOfTwo
  <2> HIDE DEF aged, rest
  <2>4. call'[c] \in CallStates /\ call'[c].at = call[c].at /\ call'[c].left = rest
    BY <2>1, <2>2, <2>3 DEF CallStates
  <2> QED BY <2>1, <2>4 DEF rest
<1>3. CallsTyped'
  <2>1. call' \in [AiCaller -> CallStates]
    <3>1. \E f : call' = [c \in AiCaller |-> f[c]]
      <4> DEFINE f == [c \in AiCaller |->
                         [call[c] EXCEPT !.age = IF call[c].at \in {"free", "sent"} THEN 0 ELSE Min({@ + 1, MaxWait}),
                                         !.left = IF @ = 0 THEN 0 ELSE @ - 1]]
      <4>1. call' = f
        BY DEF Tick
      <4>2. f = [c \in AiCaller |-> f[c]]
        OBVIOUS
      <4> HIDE DEF f
      <4> QED BY <4>1, <4>2
    <3> QED BY <1>2, <3>1
  <2>2. sent' \in [Ages -> Nat]
    <3>1. sent' = [a \in Ages |-> IF a = 0 THEN 0 ELSE sent[a - 1]]
      BY DEF Tick, Ages
    <3>2. \A a \in Ages : a # 0 => a - 1 \in Ages
      BY MinuteIs DEF Ages
    <3> QED BY <1>0, <3>1, <3>2 DEF CallsTyped
  <2> QED BY <1>0, <1>1, <2>1, <2>2 DEF CallsTyped, Tick
<1>4. ASSUME NEW c \in AiCaller, call[c].at = "sleep"
      PROVE  call[c].left # 0 /\ call'[c].left = call[c].left - 1
  <2>1. call[c].left > 0
    BY <1>4 DEF Tick
  <2>2. call[c].left \in Nat
    BY <1>2 DEF CallStates
  <2> QED BY <1>2, <2>1, <2>2
<1>5. SleepersWait'
  <2> SUFFICES ASSUME NEW c \in AiCaller, call'[c].at = "sleep" PROVE call'[c].left + tokens' <= TokenTicks
    BY DEF SleepersWait
  <2>1. call[c].at = "sleep" /\ call[c].left \in Nat /\ call'[c].left = call[c].left - 1
    BY <1>2, <1>4 DEF CallStates
  <2>2. call[c].left + tokens <= TokenTicks /\ tokens \in Nat /\ tokens' \in Nat
    BY <1>0, <1>1, <2>1 DEF SleepersWait, CallsTyped
  <2> QED BY <1>1, <2>1, <2>2, MinuteIs
<1>6. PermitHolders' = PermitHolders
  BY <1>2 DEF PermitHolders
<1>7. PermitsBack'
  BY <1>0, <1>6 DEF PermitsBack, Tick
<1> QED BY <1>1, <1>2, <1>3, <1>4, <1>5, <1>6, <1>7

\* A minute that begins: one token's time less than a minute is ahead.
LEMMA NewMinute ==
  ASSUME CallsInv, Tick
  PROVE  ToCome(0)' < (AiConcurrency + 2) * Capacity
<1>0. CallsTyped /\ IsFiniteSet(PermitHolders) /\ PermitsBack /\ SleepersWait
  BY DEF CallsInv
<1>1. /\ CallsTyped' /\ SleepersWait' /\ PermitsBack' /\ PermitHolders' = PermitHolders
      /\ \A c \in AiCaller : call'[c].at = call[c].at
  BY TickMoves
<1>2. 0 \in Ages /\ Ahead(0) = Minute - 1 /\ Minute - 1 \in Nat
  BY MinuteIs DEF Ahead
<1>3. (Minute - 1) \div TokenTicks = Capacity - 1 /\ Capacity - 1 \in Nat
  <2>1. Minute - 1 = TokenTicks * (Capacity - 1) + (TokenTicks - 1)
    <3>1. TokenTicks * (Capacity - 1) = Capacity * TokenTicks - TokenTicks /\ Capacity * TokenTicks \in Nat
      BY MinuteIs
    <3> QED BY <3>1, MinuteIs
  <2> QED BY <1>2, <2>1, MinuteIs, QuotientIs
<1>4. PICK k \in Nat : k = tokens' /\ k <= Minute
  BY <1>1, MinuteIs DEF CallsTyped
<1> DEFINE n == Cardinality(Soon(0)')
           m == (k + (Minute - 1)) \div TokenTicks
<1>5. ToCome(0)' = n + AiConcurrency * (Capacity - 1) + m
  BY <1>2, <1>3, <1>4 DEF ToCome, Ahead
<1>6. n \in Nat /\ n <= AiConcurrency
  <2>1. Soon(0)' \subseteq PermitHolders
    BY <1>1 DEF Soon, PermitHolders
  <2>2. n \in Nat /\ n <= Cardinality(PermitHolders) /\ Cardinality(PermitHolders) \in Nat
    BY <1>0, <2>1, FS_Subset, FS_CardinalityType
  <2> HIDE DEF n
  <2> QED BY <1>0, <2>2, MinuteIs DEF PermitsBack, CallsTyped
<1>7. m \in Nat /\ m <= 2 * Capacity - 1
  <2>1. k + (Minute - 1) \in Nat /\ k + (Minute - 1) <= TokenTicks * (2 * Capacity - 1) + (TokenTicks - 1)
    <3>1. TokenTicks * (2 * Capacity - 1) = 2 * (Capacity * TokenTicks) - TokenTicks
      BY MinuteIs
    <3>2. TokenTicks * (2 * Capacity - 1) + (TokenTicks - 1) = 2 * Minute - 1 /\ Minute \in Nat \ {0}
      BY <3>1, MinuteIs
    <3>3. k + (Minute - 1) \in Nat /\ k + (Minute - 1) <= 2 * Minute - 1
      <4>1. Minute \in Nat \ {0} /\ k \in Nat /\ k <= Minute
        BY <1>4, MinuteIs
      <4> QED BY <4>1
    <3> QED BY <3>2, <3>3
  <2>2. TokenTicks * (2 * Capacity - 1) + (TokenTicks - 1) \in Nat /\ 2 * Capacity - 1 \in Nat /\ TokenTicks - 1 \in Nat
    BY MinuteIs
  <2>3. (TokenTicks * (2 * Capacity - 1) + (TokenTicks - 1)) \div TokenTicks = 2 * Capacity - 1
    <3>1. TokenTicks \in Nat \ {0} /\ TokenTicks - 1 < TokenTicks
      BY MinuteIs
    <3> QED BY <2>2, <3>1, QuotientIs
  <2>4. m <= (TokenTicks * (2 * Capacity - 1) + (TokenTicks - 1)) \div TokenTicks /\ m \in Nat
    BY <2>1, <2>2, MinuteIs, QuotientGrows, Division
  <2> QED BY <2>3, <2>4
<1>8. n # 0 => m <= Capacity
  <2> SUFFICES ASSUME n # 0 PROVE m <= Capacity
    OBVIOUS
  <2>1. PICK c \in Soon(0)' : TRUE
    BY FS_EmptySet
  <2>2. c \in AiCaller /\ call'[c].at = "sleep" /\ call'[c].left \in Nat
    BY <1>1, <2>1 DEF Soon, CallsTyped, CallStates
  <2>3. k <= TokenTicks
    BY <1>1, <1>4, <2>2, MinuteIs DEF SleepersWait
  <2>4. k + (Minute - 1) \in Nat /\ k + (Minute - 1) <= TokenTicks * Capacity + (TokenTicks - 1)
    <3>1. TokenTicks * Capacity = Minute /\ Minute \in Nat \ {0} /\ TokenTicks \in Nat
      BY MinuteIs
    <3>2. k + (Minute - 1) \in Nat /\ k + (Minute - 1) <= Minute + (TokenTicks - 1)
      <4>1. Minute \in Nat \ {0} /\ TokenTicks \in Nat \ {0} /\ k \in Nat /\ k <= TokenTicks
        BY <1>4, <2>3, MinuteIs
      <4> QED BY <4>1
    <3> QED BY <3>1, <3>2
  <2>5. TokenTicks * Capacity + (TokenTicks - 1) \in Nat /\ TokenTicks - 1 \in Nat
    BY MinuteIs
  <2>6. (TokenTicks * Capacity + (TokenTicks - 1)) \div TokenTicks = Capacity
    BY <2>5, MinuteIs, QuotientIs
  <2> QED BY <2>4, <2>5, <2>6, MinuteIs, QuotientGrows
<1> HIDE DEF n, m
<1>9. /\ AiConcurrency * (Capacity - 1) = AiConcurrency * Capacity - AiConcurrency
      /\ (AiConcurrency + 2) * Capacity = AiConcurrency * Capacity + 2 * Capacity
      /\ AiConcurrency * Capacity \in Nat
  BY MinuteIs
<1>10. CASE n = 0
  BY <1>5, <1>7, <1>9, <1>10, MinuteIs
<1>11. CASE n # 0
  BY <1>5, <1>6, <1>7, <1>8, <1>9, <1>11, MinuteIs
<1> QED BY <1>10, <1>11

\* A minute that goes on has a tick less ahead, and no more to come.
LEMMA MinuteGoesOn ==
  ASSUME CallsInv, Tick, NEW a \in Ages, a # 0
  PROVE  a - 1 \in Ages /\ ToCome(a)' <= ToCome(a - 1) /\ ToCome(a)' \in Nat
<1>0. CallsTyped /\ IsFiniteSet(PermitHolders) /\ PermitsBack /\ SleepersWait
  BY DEF CallsInv
<1>1. /\ CallsTyped' /\ PermitsBack' /\ PermitHolders' = PermitHolders /\ tokens' <= tokens + 1
      /\ \A c \in AiCaller : /\ call'[c].at = call[c].at
                             /\ call[c].at = "sleep" => call[c].left # 0 /\ call'[c].left = call[c].left - 1
  BY TickMoves
<1>2. a - 1 \in Ages /\ Ahead(a) \in Nat /\ Ahead(a - 1) = Ahead(a) + 1
  BY MinuteIs DEF Ages, Ahead
<1> DEFINE n == Ahead(a)
           q == n \div TokenTicks
           r == n % TokenTicks
<1>3. PICK now \in Nat, k \in Nat, m \in Nat :
        /\ now = Cardinality(Soon(a - 1)) /\ k = AiConcurrency * ((n + 1) \div TokenTicks)
        /\ m = (tokens + (n + 1)) \div TokenTicks /\ ToCome(a - 1) = now + k + m
  BY <1>0, <1>2, ToComeParts
<1>4. PICK later \in Nat : later = (tokens' + n) \div TokenTicks /\ later <= m
  <2>1. PICK i \in Nat, j \in Nat : i = tokens' /\ j = tokens /\ i <= j + 1
    BY <1>0, <1>1 DEF CallsTyped
  <2>2. i + n \in Nat /\ j + (n + 1) \in Nat /\ i + n <= j + (n + 1)
    BY <1>2, <2>1
  <2>3. (i + n) \div TokenTicks \in Nat /\ (i + n) \div TokenTicks <= (j + (n + 1)) \div TokenTicks
    BY <2>2, MinuteIs, Division, QuotientGrows
  <2> QED BY <1>3, <2>1, <2>3
<1>5. Soon(a)' \subseteq PermitHolders /\ IsFiniteSet(Soon(a - 1))
  BY <1>0, <1>1, <1>2, ToComeIs DEF Soon, PermitHolders
<1>6. PICK soon \in Nat : soon = Cardinality(Soon(a)') /\ soon <= AiConcurrency
  <2>1. Cardinality(Soon(a)') \in Nat /\ Cardinality(Soon(a)') <= Cardinality(PermitHolders) /\ Cardinality(PermitHolders) \in Nat
    BY <1>0, <1>5, FS_Subset, FS_CardinalityType
  <2>2. Cardinality(PermitHolders) <= AiConcurrency
    BY <1>0, <2>1, MinuteIs DEF PermitsBack, CallsTyped
  <2> QED BY <2>1, <2>2, MinuteIs
<1>7. q \in Nat /\ r \in Nat /\ AiConcurrency * q \in Nat
  BY <1>2, MinuteIs, Division
<1>8. ToCome(a)' = soon + AiConcurrency * q + later
  BY <1>4, <1>6 DEF ToCome, Ahead
<1>9. soon + AiConcurrency * q <= now + k
  <2>1. CASE (n + 1) % TokenTicks # 0 /\ q = (n + 1) \div TokenTicks /\ r + 1 = (n + 1) % TokenTicks
    <3>1. ASSUME NEW c \in Soon(a)' PROVE c \in Soon(a - 1)
      <4>1. c \in AiCaller /\ call'[c].at = "sleep" /\ call'[c].left <= r
        BY DEF Soon, Ahead
      <4>2. call[c].at = "sleep" /\ call[c].left \in Nat /\ call[c].left # 0 /\ call'[c].left = call[c].left - 1
        BY <1>0, <1>1, <4>1 DEF CallsTyped, CallStates
      <4>3. call[c].left <= r + 1
        BY <1>7, <4>1, <4>2
      <4> QED BY <1>2, <2>1, <4>1, <4>2, <4>3 DEF Soon
    <3>2. soon <= now
      <4>1. Soon(a)' \subseteq Soon(a - 1)
        BY <3>1
      <4> QED BY <1>3, <1>5, <1>6, <4>1, FS_Subset
    <3> HIDE DEF q, r, n
    <3> QED BY <1>3, <1>7, <2>1, <3>2
  <2>2. CASE q + 1 = (n + 1) \div TokenTicks
    <3>1. k = AiConcurrency * (q + 1)
      BY <1>3, <2>2
    <3> HIDE DEF q, r, n
    <3>2. k = AiConcurrency * q + AiConcurrency
      BY <1>7, <3>1, MinuteIs
    <3>3. AiConcurrency \in Nat
      BY MinuteIs
    <3> QED BY <1>6, <1>7, <3>2, <3>3
  <2> QED BY <1>2, <2>1, <2>2, MinuteIs, TickOfWindow
<1> HIDE DEF q, r, n
<1>10. soon + AiConcurrency * q + later <= now + k + m
  BY <1>4, <1>7, <1>9
<1> QED BY <1>2, <1>3, <1>4, <1>7, <1>8, <1>10

\* The clock: a minute begins or goes on, and the bound stays.
LEMMA TickKeeps ==
  ASSUME CallsInv, Tick
  PROVE  CallsInv'
<1>1. CallsTyped' /\ SleepersWait' /\ PermitsBack' /\ PermitHolders' = PermitHolders
  BY TickMoves
<1>2. IsFiniteSet(PermitHolders)'
  BY <1>1 DEF CallsInv
<1> DEFINE Limit == (AiConcurrency + 2) * Capacity
<1>3. Limit \in Nat
  BY MinuteIs
<1>4. PICK g \in [Ages -> Nat] : IsSum(g, sent) /\ \A a \in Ages : g[a] + ToCome(a) < Limit
  BY DEF CallsInv, RateBounded
<1>5. ASSUME NEW a \in Ages, a # 0
      PROVE  a - 1 \in Ages /\ ToCome(a)' <= ToCome(a - 1) /\ ToCome(a)' \in Nat /\ ToCome(a - 1) \in Nat
  <2>1. a - 1 \in Ages /\ ToCome(a)' <= ToCome(a - 1) /\ ToCome(a)' \in Nat
    BY <1>5, MinuteGoesOn
  <2> QED BY <2>1, ToComeIs DEF CallsInv
<1> DEFINE h == [a \in Ages |-> IF a = 0 THEN 0 ELSE g[a - 1]]
<1>6. /\ h \in [Ages -> Nat] /\ (0 \in Ages => h[0] = 0)
      /\ \A a \in Ages : a # 0 => h[a] = g[a - 1]
  BY <1>5
<1>7. ASSUME NEW a \in Ages PROVE sent'[a] = IF a = 0 THEN 0 ELSE sent[a - 1]
  BY DEF Tick, Ages
<1> HIDE DEF h
<1>8. IsSum(h, sent')
  <2> SUFFICES ASSUME NEW a \in Ages PROVE h[a] = sent'[a] + IF a = 0 THEN 0 ELSE h[a - 1]
    BY DEF IsSum
  <2>1. CASE a = 0
    BY <1>6, <1>7, <2>1
  <2>2. CASE a # 0
    <3>1. a - 1 \in Ages /\ sent'[a] = sent[a - 1] /\ h[a] = g[a - 1]
      BY <1>5, <1>6, <1>7, <2>2
    <3>2. g[a - 1] = sent[a - 1] + IF a - 1 = 0 THEN 0 ELSE g[a - 1 - 1]
      BY <1>4, <3>1 DEF IsSum
    <3>3. h[a - 1] = IF a - 1 = 0 THEN 0 ELSE g[a - 1 - 1]
      BY <1>6, <3>1
    <3> QED BY <2>2, <3>1, <3>2, <3>3
  <2> QED BY <2>1, <2>2
<1>9. ASSUME NEW a \in Ages PROVE h[a] + ToCome(a)' < Limit
  <2>1. CASE a = 0
    <3>1. h[a] = 0 /\ ToCome(a)' < Limit
      BY <1>6, <2>1, NewMinute
    <3>2. ToCome(a)' \in Nat
      <4>1. Soon(a)' \subseteq PermitHolders' /\ IsFiniteSet(PermitHolders')
        BY <1>2 DEF Soon, PermitHolders
      <4>2. Cardinality(Soon(a)') \in Nat
        BY <4>1, FS_Subset, FS_CardinalityType
      <4>3. PICK i \in Nat : i = tokens'
        BY <1>1 DEF CallsTyped
      <4>4. Ahead(a) \in Nat /\ i + Ahead(a) \in Nat
        BY MinuteIs
      <4>5. Ahead(a) \div TokenTicks \in Nat /\ (i + Ahead(a)) \div TokenTicks \in Nat
        BY <4>4, MinuteIs, Division
      <4>6. AiConcurrency * (Ahead(a) \div TokenTicks) \in Nat
        BY <4>5, MinuteIs
      <4> QED BY <4>2, <4>3, <4>5, <4>6 DEF ToCome, Ahead
    <3> QED BY <3>1, <3>2
  <2>2. CASE a # 0
    <3>1. PICK x \in Nat, y \in Nat, z \in Nat : x = ToCome(a)' /\ y = ToCome(a - 1) /\ z = g[a - 1]
      BY <1>5, <2>2
    <3>2. x <= y /\ z + y < Limit /\ h[a] = z
      BY <1>4, <1>5, <1>6, <2>2, <3>1
    <3> HIDE DEF Limit
    <3> QED BY <1>3, <3>1, <3>2
  <2> QED BY <2>1, <2>2
<1>10. RateBounded'
  BY <1>6, <1>8, <1>9 DEF RateBounded
<1> QED BY <1>1, <1>2, <1>10 DEF CallsInv

\* At first nothing was sent, and the bucket is full.
LEMMA CallsStart == CallsInit => CallsInv
<1> SUFFICES ASSUME CallsInit PROVE CallsInv
  OBVIOUS
<1> USE MinuteIs
<1>1. /\ tokens = Minute /\ sem = AiConcurrency /\ lostPermits = 0
      /\ call = [c \in AiCaller |-> NoCall] /\ sent = [a \in Ages |-> 0]
      /\ NoCall \in CallStates /\ NoCall.at = "free"
  BY DEF CallsInit, Ages, NoCall, CallStates
<1>2. CallsTyped
  BY <1>1 DEF CallsTyped
<1>3. PermitHolders = {} /\ IsFiniteSet(PermitHolders) /\ Cardinality(PermitHolders) = 0
  BY <1>1, FS_EmptySet DEF PermitHolders
<1>4. PermitsBack
  BY <1>1, <1>3 DEF PermitsBack
<1>5. SleepersWait
  BY <1>1 DEF SleepersWait
<1>6. ASSUME NEW a \in Ages PROVE 0 + ToCome(a) < (AiConcurrency + 2) * Capacity
  <2>1. Cardinality(Soon(a)) = 0
    BY <1>1, FS_EmptySet DEF Soon
  <2> DEFINE q == Ahead(a) \div TokenTicks
             m == (Minute + Ahead(a)) \div TokenTicks
  <2>2. ToCome(a) = 0 + AiConcurrency * q + m
    BY <1>1, <2>1 DEF ToCome
  <2>3. Capacity - 1 \in Nat /\ TokenTicks - 1 \in Nat /\ TokenTicks - 1 < TokenTicks /\ 2 * Capacity - 1 \in Nat
    OBVIOUS
  <2>4. Minute - 1 = TokenTicks * (Capacity - 1) + (TokenTicks - 1) /\ Minute - 1 \in Nat
    <3>1. TokenTicks * (Capacity - 1) = Capacity * TokenTicks - TokenTicks /\ Capacity * TokenTicks \in Nat
      OBVIOUS
    <3> QED BY <3>1
  <2>5. Minute + Minute - 1 = TokenTicks * (2 * Capacity - 1) + (TokenTicks - 1) /\ Minute + Minute - 1 \in Nat
    <3>1. TokenTicks * (2 * Capacity - 1) = 2 * (Capacity * TokenTicks) - TokenTicks /\ Capacity * TokenTicks \in Nat
      OBVIOUS
    <3> QED BY <3>1
  <2>6. q \in Nat /\ q <= Capacity - 1
    <3>1. (Minute - 1) \div TokenTicks = Capacity - 1
      BY <2>3, <2>4, QuotientIs
    <3> QED BY <2>4, <3>1, Division, QuotientGrows
  <2>7. m \in Nat /\ m <= 2 * Capacity - 1
    <3>1. (Minute + Minute - 1) \div TokenTicks = 2 * Capacity - 1
      BY <2>3, <2>5, QuotientIs
    <3>2. Minute + Ahead(a) \in Nat /\ Minute + Ahead(a) <= Minute + Minute - 1
      <4>1. Ahead(a) \in Nat /\ Ahead(a) <= Minute - 1 /\ Minute \in Nat
        OBVIOUS
      <4> QED BY <4>1
    <3>3. Minute + Ahead(a) \in Nat /\ Minute + Minute - 1 \in Nat /\ TokenTicks \in Nat \ {0}
      BY <2>5, <3>2
    <3>4. m <= (Minute + Minute - 1) \div TokenTicks
      BY <3>2, <3>3, QuotientGrows
    <3>5. m \in Nat
      BY <3>3, Division
    <3> HIDE DEF m
    <3> QED BY <3>1, <3>4, <3>5
  <2> HIDE DEF q, m
  <2>8. AiConcurrency * q <= AiConcurrency * (Capacity - 1) /\ AiConcurrency * q \in Nat
    BY <2>3, <2>6
  <2>9. /\ AiConcurrency * (Capacity - 1) = AiConcurrency * Capacity - AiConcurrency
        /\ (AiConcurrency + 2) * Capacity = AiConcurrency * Capacity + 2 * Capacity
        /\ AiConcurrency * Capacity \in Nat
    OBVIOUS
  <2> QED BY <2>2, <2>7, <2>8, <2>9
<1> DEFINE g == [a \in Ages |-> 0]
<1>7. g \in [Ages -> Nat] /\ IsSum(g, sent) /\ \A a \in Ages : g[a] = 0
  <2>1. \A a \in Ages : a # 0 => a - 1 \in Ages
    BY DEF Ages
  <2> QED BY <1>1, <2>1 DEF IsSum
<1> HIDE DEF g
<1>8. RateBounded
  BY <1>6, <1>7 DEF RateBounded
<1> QED BY <1>2, <1>3, <1>4, <1>5, <1>8 DEF CallsInv

\* Nothing moves.
LEMMA CallsIdle == CallsInv /\ UNCHANGED aiCalls => CallsInv'
BY DEF CallsInv, aiCalls, CallsTyped, PermitsBack, PermitHolders, SleepersWait, RateBounded, IsSum, ToCome, Soon, Ahead, Ages

\* Every step of a call and of the clock keeps the bound.
LEMMA CallsStep == CallsInv /\ [CallsNext]_aiCalls => CallsInv'
<1> SUFFICES ASSUME CallsInv, [CallsNext]_aiCalls PROVE CallsInv'
  OBVIOUS
<1>1. CASE Tick
  BY <1>1, TickKeeps
<1>2. ASSUME NEW c \in AiCaller, NEW b \in BOOLEAN,
             Call(c, b) \/ Permit(c) \/ NoPermit(c) \/ RequestEnds(c, b) \/ CancelWait(c) \/ Cancel(c)
      PROVE  CallsInv'
  BY <1>2, PermitsMove
<1>3. ASSUME NEW c \in AiCaller, Token(c) PROVE CallsInv'
  <2>1. call[c].at = "token" /\ tokens \in Nat /\ TokenTicks \in Nat
    BY <1>3, MinuteIs DEF Token, CallsInv, CallsTyped
  <2>2. CASE tokens >= TokenTicks
    BY <1>3, <2>1, <2>2, TokenPaid
  <2>3. CASE tokens < TokenTicks
    BY <1>3, <2>3, TokenLacks
  <2> QED BY <2>1, <2>2, <2>3
<1>4. ASSUME NEW c \in AiCaller, WakeUp(c) PROVE CallsInv'
  BY <1>4, WakesUp
<1>5. ASSUME NEW c \in AiCaller, StrayEnds(c) PROVE CallsInv'
  BY <1>5, StrayTakes
<1>6. CASE UNCHANGED aiCalls
  BY <1>6, CallsIdle
<1> QED BY <1>1, <1>2, <1>3, <1>4, <1>5, <1>6 DEF CallsNext

\* A window's sum is what the property adds up.
LEMMA SumIs ==
  ASSUME sent \in [Ages -> Nat], NEW g \in [Ages -> Nat], IsSum(g, sent)
  PROVE  SentWithin[Minute - 1] = g[Minute - 1]
<1>1. g = [a \in Ages |-> sent[a] + IF a = 0 THEN 0 ELSE g[a - 1]]
  BY DEF IsSum
<1>2. SentWithin = CHOOSE h : h = [a \in Ages |-> sent[a] + IF a = 0 THEN 0 ELSE h[a - 1]]
  BY DEF Ages, SentWithin
<1>3. SentWithin = [a \in Ages |-> sent[a] + IF a = 0 THEN 0 ELSE SentWithin[a - 1]]
  BY <1>1, <1>2
<1> DEFINE T == {a \in Ages : SentWithin[a] = g[a]}
<1>4. 0 \in T
  BY <1>1, <1>3, MinuteIs
<1>5. ASSUME NEW a \in 0 .. Minute - 1 - 1, a \in T PROVE a + 1 \in T
  <2>1. a + 1 \in Ages /\ a + 1 # 0 /\ a + 1 - 1 = a /\ SentWithin[a] = g[a]
    BY <1>5, MinuteIs DEF Ages
  <2> QED BY <1>1, <1>3, <2>1
<1>6. \A a \in 0 .. Minute - 1 : a \in T
  <2>1. Minute - 1 \in Nat
    BY MinuteIs
  <2> HIDE DEF T
  <2> QED BY <1>4, <1>5, <2>1, UpTo
<1>7. Minute - 1 \in 0 .. Minute - 1
  BY MinuteIs
<1> QED BY <1>6, <1>7

\* The permits are all accounted for, and in a minute fewer requests go than the bucket and
\* the sleepers can pay for, for any limits, callers, waits and cancellations.
THEOREM CallsStayBounded == CallsSpec => []CallsBounded
<1>1. CallsInv => CallsBounded
  <2> SUFFICES ASSUME CallsInv PROVE CallsBounded
    OBVIOUS
  <2>1. PICK g \in [Ages -> Nat] : IsSum(g, sent) /\ \A a \in Ages : g[a] + ToCome(a) < (AiConcurrency + 2) * Capacity
    BY DEF CallsInv, RateBounded
  <2>2. Minute - 1 \in Ages
    BY MinuteIs DEF Ages
  <2>3. PICK x \in Nat, y \in Nat : x = g[Minute - 1] /\ y = ToCome(Minute - 1) /\ x + y < (AiConcurrency + 2) * Capacity
    BY <2>1, <2>2, ToComeIs DEF CallsInv
  <2>4. (AiConcurrency + 2) * Capacity \in Nat
    BY MinuteIs
  <2>5. g[Minute - 1] < (AiConcurrency + 2) * Capacity
    BY <2>3, <2>4
  <2>6. RateNearlyKept
    <3>1. sent \in [Ages -> Nat]
      BY DEF CallsInv, CallsTyped
    <3> QED BY <2>1, <2>5, <3>1, SumIs DEF RateNearlyKept
  <2> QED BY <2>6 DEF CallsBounded, CallsInv
<1> QED BY <1>1, CallsStart, CallsStep, PTL DEF CallsSpec

-----------------------------------------------------------------------------
(* Streams of a model's calls                                                *)

\* What the table and the streams are made of
ToolEntry == [index : Nat, id : CallId \cup {""}, got : Seq(CallId \X Nat)]
Told == [id : CallId \cup {""} \cup Nat, args : CallId \cup {"nothing", "text"}]
StreamState == [at : {"none", "open", "ended", "broken"}, call : Nat, nth : Nat, told : Seq(Told), seen : Nat, usage : BOOLEAN]

\* A stream is at a chunk that its service sends.
Placed(s) ==
  /\ stream[s].call \in 1 .. Len(uttered[s]) + 3
  /\ stream[s].nth # 0 => kind # "google" /\ stream[s].call <= Len(uttered[s]) /\ stream[s].nth <= LastOfCall(s)

StreamsTyped ==
  /\ kind \in {"openai", "anthropic", "google"} /\ leftOver \in BOOLEAN /\ mixed \subseteq Stream
  /\ toolTable \in Seq(ToolEntry) /\ stream \in [Stream -> StreamState] /\ uttered \in [Stream -> Seq(ToolUse)]
  /\ \A s \in Stream : Placed(s)

\* The calls that a stream has told, when it told the first n of them and no other
Pieces(id, n) == [m \in 1 .. n |-> <<id, m>>]
TellsFirst(s, n) ==
  /\ Len(stream[s].told) = n
  /\ \A i \in 1 .. n : stream[s].told[i] = IF kind = "google" THEN [id |-> i, args |-> "text"]
                                          ELSE [id |-> uttered[s][i].id, args |-> uttered[s][i].id]
\* The calls that came whole
Sent(s) == IF stream[s].call <= Len(uttered[s]) THEN stream[s].call - 1 ELSE Len(uttered[s])
\* The entry of a call, of which so many pieces came
EntryOf(s, i) ==
  [index |-> i, id |-> uttered[s][i].id,
   got |-> Pieces(uttered[s][i].id, IF i < stream[s].call THEN uttered[s][i].pieces ELSE stream[s].nth - 1)]

\* The table of a stream that has OpenAI's client to itself: the calls begun, until they
\* are told all at once,
Begun(s) == IF stream[s].call > Len(uttered[s]) + 1 THEN 0
            ELSE IF stream[s].nth = 0 THEN stream[s].call - 1 ELSE stream[s].call
OpenaiAlone(s) ==
  /\ Len(toolTable) = Begun(s) /\ \A i \in 1 .. Begun(s) : toolTable[i] = EntryOf(s, i)
  /\ TellsFirst(s, IF stream[s].call > Len(uttered[s]) + 1 THEN Len(uttered[s]) ELSE 0)
\* and of one that has Anthropic's, at the index of its call.
AnthropicAlone(s) ==
  /\ stream[s].nth # 0 => HasIndex(stream[s].call)
                          /\ \A p \in DOMAIN toolTable : toolTable[p].index = stream[s].call => toolTable[p] = EntryOf(s, stream[s].call)
  /\ TellsFirst(s, Sent(s))

\* A stream that is not mixed with another has the client to itself, and the table is what
\* its calls made it.
OpenAlone ==
  \A s \in Running : s \notin mixed =>
    /\ Running = {s}
    /\ kind = "openai" => OpenaiAlone(s)
    /\ kind = "anthropic" => AnthropicAlone(s)
\* Google's have their text in themselves.
TextsTold ==
  kind = "google" => \A s \in Running : TellsFirst(s, Sent(s)) /\ stream[s].seen = Sent(s)
EndedTold ==
  \A s \in Stream : stream[s].at = "ended" /\ (s \notin mixed \/ kind = "google") => TellsFirst(s, Len(uttered[s]))
\* What is in the table is a broken stream's, or one's that did not come to its end, and
\* none of Google's.
Unfinished(s) == stream[s].at = "open" /\ stream[s].call <= Len(uttered[s]) + (IF kind = "anthropic" THEN 2 ELSE 1)
TableHeld ==
  /\ toolTable # <<>> => leftOver \/ \E s \in Stream : Unfinished(s)
  /\ kind = "google" => toolTable = <<>>

StreamsInv == StreamsTyped /\ OpenAlone /\ TextsTold /\ EndedTold /\ TableHeld

\* The entry of an index is one of the table's, or a new one.
LEMMA StateIs ==
  ASSUME StreamsTyped, NEW index \in Nat
  PROVE  /\ StateOf(index) \in ToolEntry /\ StateOf(index).index = index
         /\ HasIndex(index) => \E p \in DOMAIN toolTable : toolTable[p].index = index /\ StateOf(index) = toolTable[p]
         /\ ~HasIndex(index) => StateOf(index).id = "" /\ StateOf(index).got = <<>>
<1>1. CASE HasIndex(index)
  <2>1. PICK p \in DOMAIN toolTable : p = CHOOSE q \in DOMAIN toolTable : toolTable[q].index = index
    BY <1>1 DEF HasIndex
  <2>2. toolTable[p].index = index
    BY <1>1, <2>1 DEF HasIndex
  <2>3. StateOf(index) = toolTable[p]
    BY <1>1, <2>1 DEF StateOf
  <2>4. toolTable[p] \in ToolEntry
    BY <2>1, ElementOfSeq, LenProperties DEF StreamsTyped
  <2> QED BY <1>1, <2>2, <2>3, <2>4
<1>2. CASE ~HasIndex(index)
  <2> DEFINE e == [index |-> index, id |-> "", got |-> <<>>]
  <2>1. StateOf(index) = e
    BY <1>2 DEF StateOf
  <2>2. <<>> \in Seq(CallId \X Nat)
    OBVIOUS
  <2>3. e \in ToolEntry
    BY <2>2 DEF ToolEntry
  <2>4. e.index = index /\ e.id = ""
    OBVIOUS
  <2>5. e.got = <<>>
    OBVIOUS
  <2> HIDE DEF e
  <2> QED BY <1>2, <2>1, <2>3, <2>4, <2>5
<1> QED BY <1>1, <1>2

\* A table that takes an entry in has it at its index, and is as it was at others.
LEMMA WithIs ==
  ASSUME StreamsTyped, NEW e \in ToolEntry
  PROVE  /\ With(e) \in Seq(ToolEntry)
         /\ \E p \in DOMAIN With(e) : With(e)[p].index = e.index
         /\ \A p \in DOMAIN With(e) : With(e)[p].index = e.index => With(e)[p] = e
         /\ With(e) # <<>>
         /\ HasIndex(e.index) => /\ Len(With(e)) = Len(toolTable)
                                 /\ \A p \in 1 .. Len(toolTable) : With(e)[p] = IF toolTable[p].index = e.index THEN e ELSE toolTable[p]
         /\ ~HasIndex(e.index) => /\ Len(With(e)) = Len(toolTable) + 1 /\ With(e)[Len(toolTable) + 1] = e
                                  /\ \A p \in 1 .. Len(toolTable) : With(e)[p] = toolTable[p]
<1>1. toolTable \in Seq(ToolEntry) /\ DOMAIN toolTable = 1 .. Len(toolTable) /\ Len(toolTable) \in Nat
      /\ \A p \in 1 .. Len(toolTable) : toolTable[p] \in ToolEntry
  BY LenProperties DEF StreamsTyped
<1>2. CASE HasIndex(e.index)
  <2> DEFINE w == [p \in DOMAIN toolTable |-> IF toolTable[p].index = e.index THEN e ELSE toolTable[p]]
  <2>1. With(e) = w
    BY <1>2 DEF With
  <2>2. w \in [1 .. Len(toolTable) -> ToolEntry]
    BY <1>1
  <2>3. w \in Seq(ToolEntry) /\ Len(w) = Len(toolTable) /\ DOMAIN w = 1 .. Len(toolTable)
    BY <1>1, <2>2, IsASeq, LenProperties
  <2>4. PICK q \in 1 .. Len(toolTable) : toolTable[q].index = e.index
    BY <1>1, <1>2 DEF HasIndex
  <2>5. \A p \in 1 .. Len(toolTable) : w[p] = IF toolTable[p].index = e.index THEN e ELSE toolTable[p]
    BY <1>1
  <2> HIDE DEF w
  <2>6. w[q] = e /\ \A p \in DOMAIN w : w[p].index = e.index => w[p] = e
    BY <2>3, <2>4, <2>5
  <2>7. w # <<>>
    BY <2>3, <2>4
  <2> QED BY <1>2, <2>1, <2>3, <2>4, <2>5, <2>6, <2>7
<1>3. CASE ~HasIndex(e.index)
  <2> DEFINE w == Append(toolTable, e)
  <2>1. With(e) = w
    BY <1>3 DEF With
  <2>2. w \in Seq(ToolEntry) /\ Len(w) = Len(toolTable) + 1 /\ w[Len(toolTable) + 1] = e
        /\ \A p \in 1 .. Len(toolTable) : w[p] = toolTable[p]
    BY <1>1, AppendProperties
  <2> HIDE DEF w
  <2>3. DOMAIN w = 1 .. Len(toolTable) + 1 /\ w # <<>> /\ \A p \in DOMAIN w : p = Len(toolTable) + 1 \/ p \in 1 .. Len(toolTable)
    BY <1>1, <2>2, LenProperties
  <2>4. \A p \in 1 .. Len(toolTable) : toolTable[p].index # e.index
    BY <1>1, <1>3 DEF HasIndex
  <2>5. \A p \in DOMAIN w : w[p].index = e.index => w[p] = e
    BY <2>2, <2>3, <2>4
  <2>6. Len(toolTable) + 1 \in DOMAIN w
    BY <1>1, <2>3
  <2> QED BY <1>3, <2>1, <2>2, <2>3, <2>5, <2>6
<1> QED BY <1>2, <1>3

\* What is due, by where the stream is
LEMMA DueIs ==
  ASSUME StreamsTyped, NEW s \in Stream
  PROVE  /\ uttered[s] \in Seq(ToolUse) /\ Len(uttered[s]) \in Nat /\ stream[s].call \in 1 .. Len(uttered[s]) + 3 /\ stream[s].nth \in Nat
         /\ stream[s].call <= Len(uttered[s]) => stream[s].call \in 1 .. Len(uttered[s]) /\ Coming(s) \in ToolUse
         /\ Due(s) = "start" => kind # "google" /\ stream[s].call <= Len(uttered[s]) /\ stream[s].nth = 0
         /\ Due(s) = "piece" => kind # "google" /\ stream[s].call <= Len(uttered[s]) /\ stream[s].nth \in 1 .. Coming(s).pieces
         /\ Due(s) = "stop" => kind = "anthropic" /\ stream[s].call <= Len(uttered[s]) /\ stream[s].nth = Coming(s).pieces + 1
         /\ Due(s) = "text" => kind = "google" /\ stream[s].call <= Len(uttered[s]) /\ stream[s].nth = 0
         /\ Due(s) = "finish" => stream[s].call = Len(uttered[s]) + 1 /\ stream[s].nth = 0
         /\ Due(s) = "usage" => kind = "openai" /\ stream[s].call = Len(uttered[s]) + 2 /\ stream[s].nth = 0
         /\ Due(s) = "end" => kind = "anthropic" /\ stream[s].call = Len(uttered[s]) + 2 /\ stream[s].nth = 0
         /\ Due(s) = "nothing" => stream[s].nth = 0 /\ (stream[s].call > Len(uttered[s]) + 2 \/ (kind = "google" /\ stream[s].call > Len(uttered[s]) + 1))
<1>1. uttered[s] \in Seq(ToolUse) /\ Len(uttered[s]) \in Nat /\ stream[s] \in StreamState /\ Placed(s)
      /\ kind \in {"openai", "anthropic", "google"}
  BY LenProperties DEF StreamsTyped
<1>2. /\ stream[s].call \in 1 .. Len(uttered[s]) + 3 /\ stream[s].nth \in Nat
      /\ stream[s].nth # 0 => kind # "google" /\ stream[s].call <= Len(uttered[s]) /\ stream[s].nth <= LastOfCall(s)
  BY <1>1 DEF Placed, StreamState
<1>3. ASSUME stream[s].call <= Len(uttered[s]) PROVE stream[s].call \in 1 .. Len(uttered[s]) /\ Coming(s) \in ToolUse
  <2>1. stream[s].call \in 1 .. Len(uttered[s])
    BY <1>1, <1>2, <1>3
  <2> QED BY <1>1, <2>1, ElementOfSeq DEF Coming
<1>4. CASE stream[s].call <= Len(uttered[s])
  <2>1. Coming(s).pieces \in Nat \ {0}
    BY <1>3, <1>4 DEF ToolUse
  <2>2. Due(s) = CASE kind = "google" -> "text"
                   [] kind # "google" /\ stream[s].nth = 0 -> "start"
                   [] kind # "google" /\ stream[s].nth \in 1 .. Coming(s).pieces -> "piece"
                   [] OTHER -> "stop"
    BY <1>1, <1>2, <1>4 DEF Due
  <2>3. CASE kind = "google"
    BY <1>1, <1>2, <1>3, <1>4, <2>2, <2>3
  <2>4. CASE kind # "google" /\ stream[s].nth = 0
    <3>1. Due(s) = "start"
      BY <2>2, <2>4
    <3> QED BY <1>1, <1>2, <1>3, <1>4, <2>4, <3>1
  <2>5. CASE kind # "google" /\ stream[s].nth \in 1 .. Coming(s).pieces
    <3>1. Due(s) = "piece"
      BY <2>1, <2>2, <2>5
    <3> QED BY <1>1, <1>2, <1>3, <1>4, <2>5, <3>1
  <2>6. CASE kind # "google" /\ stream[s].nth # 0 /\ stream[s].nth \notin 1 .. Coming(s).pieces
    <3>1. Due(s) = "stop"
      BY <2>2, <2>6
    <3>2. kind = "anthropic" /\ stream[s].nth = Coming(s).pieces + 1
      BY <1>1, <1>2, <2>1, <2>6 DEF LastOfCall
    <3> QED BY <1>1, <1>2, <1>3, <1>4, <3>1, <3>2
  <2> QED BY <2>3, <2>4, <2>5, <2>6
<1>5. CASE stream[s].call > Len(uttered[s])
  <2>1. stream[s].nth = 0 /\ ~(stream[s].call <= Len(uttered[s]))
    BY <1>1, <1>2, <1>5
  <2>2. Due(s) = CASE stream[s].call = Len(uttered[s]) + 1 -> "finish"
                   [] stream[s].call = Len(uttered[s]) + 2 /\ kind = "openai" -> "usage"
                   [] stream[s].call = Len(uttered[s]) + 2 /\ kind = "anthropic" -> "end"
                   [] OTHER -> "nothing"
    BY <2>1 DEF Due
  <2>3. CASE stream[s].call = Len(uttered[s]) + 1
    <3>1. Due(s) = "finish"
      BY <1>1, <2>2, <2>3
    <3> QED BY <1>1, <1>2, <1>5, <2>1, <2>3, <3>1
  <2>4. CASE stream[s].call = Len(uttered[s]) + 2 /\ kind = "openai"
    <3>1. Due(s) = "usage"
      BY <1>1, <2>2, <2>4
    <3> QED BY <1>1, <1>2, <1>5, <2>1, <2>4, <3>1
  <2>5. CASE stream[s].call = Len(uttered[s]) + 2 /\ kind = "anthropic"
    <3>1. Due(s) = "end"
      BY <1>1, <2>2, <2>5
    <3> QED BY <1>1, <1>2, <1>5, <2>1, <2>5, <3>1
  <2>6. CASE stream[s].call # Len(uttered[s]) + 1 /\ ~(stream[s].call = Len(uttered[s]) + 2 /\ kind \in {"openai", "anthropic"})
    <3>1. Due(s) = "nothing"
      BY <2>2, <2>6
    <3>2. stream[s].call > Len(uttered[s]) + 2 \/ (kind = "google" /\ stream[s].call > Len(uttered[s]) + 1)
      BY <1>1, <1>2, <1>5, <2>6
    <3> QED BY <1>1, <1>2, <1>5, <2>1, <3>1, <3>2
  <2> QED BY <1>1, <2>3, <2>4, <2>5, <2>6
<1> QED BY <1>1, <1>2, <1>4, <1>5

\* What is left of a stream after a chunk
LEMMA RestIs ==
  ASSUME StreamsTyped, NEW s \in Stream, Due(s) # "nothing"
  PROVE  /\ Rest(s) \in StreamState /\ Rest(s).at = stream[s].at /\ Rest(s).told = stream[s].told
         /\ Rest(s).seen = stream[s].seen /\ Rest(s).usage = stream[s].usage
         /\ Due(s) = "start" => Rest(s).call = stream[s].call /\ Rest(s).nth = 1
         /\ Due(s) = "piece" => \/ Rest(s).call = stream[s].call /\ Rest(s).nth = stream[s].nth + 1 /\ stream[s].nth < LastOfCall(s)
                                \/ Rest(s).call = stream[s].call + 1 /\ Rest(s).nth = 0 /\ kind = "openai" /\ stream[s].nth = Coming(s).pieces
         /\ Due(s) = "stop" => Rest(s).call = stream[s].call + 1 /\ Rest(s).nth = 0
         /\ Due(s) \notin {"start", "piece", "stop"} => Rest(s).call = stream[s].call + 1 /\ Rest(s).nth = 0
<1>1. PICK r \in StreamState : r = stream[s]
  BY DEF StreamsTyped
<1> DEFINE on == [r EXCEPT !.nth = r.nth + 1]
           half == [r EXCEPT !.call = r.call + 1]
           next == [half EXCEPT !.nth = 0]
<1>2. /\ on \in StreamState /\ on.at = r.at /\ on.told = r.told /\ on.seen = r.seen /\ on.usage = r.usage
      /\ on.call = r.call /\ on.nth = r.nth + 1
  BY DEF StreamState
<1>3. /\ next \in StreamState /\ next.at = r.at /\ next.told = r.told /\ next.seen = r.seen /\ next.usage = r.usage
      /\ next.call = r.call + 1 /\ next.nth = 0
  <2>1. /\ half \in StreamState /\ half.at = r.at /\ half.told = r.told /\ half.seen = r.seen /\ half.usage = r.usage
        /\ half.call = r.call + 1
    BY DEF StreamState
  <2> HIDE DEF half
  <2> QED BY <2>1 DEF StreamState
<1>4. Rest(s) = IF Due(s) \in {"start", "piece", "stop"} /\ r.nth < LastOfCall(s) THEN on ELSE next
  BY <1>1 DEF Rest
<1> HIDE DEF on, half, next
<1>10. kind \in {"openai", "anthropic", "google"}
  BY DEF StreamsTyped
<1>5. stream[s].call <= Len(uttered[s]) => Coming(s).pieces \in Nat \ {0}
  BY DueIs DEF ToolUse
<1>6. CASE Due(s) = "start"
  <2>1. r.nth = 0 /\ r.nth < LastOfCall(s) /\ r.nth + 1 = 1
    BY <1>1, <1>5, <1>6, DueIs DEF LastOfCall
  <2>2. Rest(s) = on
    BY <1>4, <1>6, <2>1
  <2> QED BY <1>1, <1>2, <1>6, <2>1, <2>2
<1>7. CASE Due(s) = "piece"
  <2>1. stream[s].nth \in 1 .. Coming(s).pieces /\ kind # "google" /\ Coming(s).pieces \in Nat
    BY <1>1, <1>5, <1>7, DueIs
  <2>2. CASE r.nth < LastOfCall(s)
    <3>1. Rest(s) = on
      BY <1>4, <1>7, <2>2
    <3> QED BY <1>1, <1>2, <1>7, <2>2, <3>1
  <2>3. CASE ~(r.nth < LastOfCall(s))
    <3>1. Rest(s) = next
      BY <1>4, <2>3
    <3>2. kind = "openai" /\ r.nth = Coming(s).pieces
      BY <1>1, <1>10, <2>1, <2>3 DEF LastOfCall
    <3> QED BY <1>1, <1>3, <1>7, <3>1, <3>2
  <2> QED BY <2>2, <2>3
<1>8. CASE Due(s) = "stop"
  <2>1. ~(r.nth < LastOfCall(s))
    BY <1>1, <1>5, <1>8, DueIs DEF LastOfCall
  <2>2. Rest(s) = next
    BY <1>4, <2>1
  <2> QED BY <1>1, <1>3, <1>8, <2>2
<1>9. CASE Due(s) \notin {"start", "piece", "stop"}
  <2>1. Rest(s) = next
    BY <1>4, <1>9
  <2> QED BY <1>1, <1>3, <1>9, <2>1
<1> QED BY <1>6, <1>7, <1>8, <1>9

\* A chunk leaves a stream at the next, and the others where they are.
LEMMA ChunkTyped ==
  ASSUME StreamsTyped, NEW s \in Stream, stream[s].at = "open", Due(s) # "nothing",
         NEW r \in StreamState, r.at = "open", r.call = Rest(s).call, r.nth = Rest(s).nth,
         stream' = [stream EXCEPT ![s] = r], toolTable' \in Seq(ToolEntry), leftOver' \in BOOLEAN,
         UNCHANGED <<kind, uttered, mixed>>
  PROVE  /\ StreamsTyped' /\ stream'[s] = r /\ \A t \in Stream : t # s => stream'[t] = stream[t]
         /\ Running' = Running
<1>1. stream \in [Stream -> StreamState]
  BY DEF StreamsTyped
<1>2. stream' \in [Stream -> StreamState] /\ stream'[s] = r /\ \A t \in Stream : t # s => stream'[t] = stream[t]
  BY <1>1
<1>3. Running' = Running
  BY <1>2 DEF Running
<1>4. ASSUME NEW t \in Stream PROVE Placed(t)'
  <2>1. CASE t # s
    <3>1. Placed(t) /\ stream'[t] = stream[t] /\ uttered' = uttered /\ kind' = kind
      BY <1>2, <2>1 DEF StreamsTyped
    <3> QED BY <3>1 DEF Placed, LastOfCall, Coming
  <2>2. CASE t = s
    <3>1. /\ Len(uttered[s]) \in Nat /\ stream[s].call \in 1 .. Len(uttered[s]) + 3 /\ stream[s].nth \in Nat
          /\ stream[s].call <= Len(uttered[s]) => Coming(s).pieces \in Nat \ {0}
      BY DueIs DEF ToolUse
    <3>2. stream'[s].call = Rest(s).call /\ stream'[s].nth = Rest(s).nth /\ uttered' = uttered /\ kind' = kind
      BY <1>2
    <3>3. CASE Due(s) = "start"
      <4>1. Rest(s).call = stream[s].call /\ Rest(s).nth = 1 /\ kind # "google" /\ stream[s].call <= Len(uttered[s])
        BY <3>3, RestIs, DueIs
      <4>2. LastOfCall(s)' >= 1
        BY <3>1, <3>2, <4>1 DEF LastOfCall, Coming
      <4> QED BY <2>2, <3>1, <3>2, <4>1, <4>2 DEF Placed
    <3>4. CASE Due(s) = "piece"
      <4>1. kind # "google" /\ stream[s].call <= Len(uttered[s]) /\ stream[s].nth \in 1 .. Coming(s).pieces
        BY <3>4, DueIs
      <4>2. CASE Rest(s).call = stream[s].call /\ Rest(s).nth = stream[s].nth + 1 /\ stream[s].nth < LastOfCall(s)
        <5>1. LastOfCall(s)' = LastOfCall(s) /\ LastOfCall(s) \in Nat
          BY <3>1, <3>2, <4>1, <4>2 DEF LastOfCall, Coming
        <5> QED BY <2>2, <3>1, <3>2, <4>1, <4>2, <5>1 DEF Placed
      <4>3. CASE Rest(s).call = stream[s].call + 1 /\ Rest(s).nth = 0
        BY <2>2, <3>1, <3>2, <4>1, <4>3 DEF Placed
      <4> QED BY <3>4, <4>2, <4>3, RestIs
    <3>5. CASE Due(s) \notin {"start", "piece"}
      <4>1. Rest(s).call = stream[s].call + 1 /\ Rest(s).nth = 0
        BY <3>5, RestIs
      <4>2. stream[s].call <= Len(uttered[s]) + 2
        BY <3>1 DEF Due
      <4> QED BY <2>2, <3>1, <3>2, <4>1, <4>2 DEF Placed
    <3> QED BY <3>3, <3>4, <3>5
  <2> QED BY <2>1, <2>2
<1> QED BY <1>2, <1>3, <1>4 DEF StreamsTyped

\* What a chunk does to one stream is nothing to those that ended, and only what is true
\* of a stream alone has to be made good.
LEMMA ChunkKeeps ==
  ASSUME StreamsInv, NEW s \in Stream, stream[s].at = "open", Due(s) # "nothing",
         NEW r \in StreamState, r.at = "open", r.call = Rest(s).call, r.nth = Rest(s).nth,
         stream' = [stream EXCEPT ![s] = r], toolTable' \in Seq(ToolEntry), leftOver' \in BOOLEAN,
         UNCHANGED <<kind, uttered, mixed>>,
         s \notin mixed /\ kind = "openai" => OpenaiAlone(s)',
         s \notin mixed /\ kind = "anthropic" => AnthropicAlone(s)',
         kind = "google" => TellsFirst(s, Sent(s))' /\ (stream[s].seen = Sent(s))',
         TableHeld'
  PROVE  StreamsInv'
<1>1. StreamsTyped /\ OpenAlone /\ TextsTold /\ EndedTold
  BY DEF StreamsInv
<1>2. /\ StreamsTyped' /\ stream'[s] = r /\ \A t \in Stream : t # s => stream'[t] = stream[t]
      /\ Running' = Running /\ s \in Running
  BY <1>1, ChunkTyped DEF Running
<1>3. OpenAlone'
  <2> SUFFICES ASSUME NEW t \in Running, t \notin mixed
               PROVE /\ Running = {t}
                     /\ kind = "openai" => OpenaiAlone(t)'
                     /\ kind = "anthropic" => AnthropicAlone(t)'
    BY <1>2 DEF OpenAlone
  <2>1. Running = {t} /\ t = s
    BY <1>1, <1>2 DEF OpenAlone
  <2> QED BY <2>1
<1>4. ASSUME NEW t \in Stream, t # s, NEW n, TellsFirst(t, n) PROVE TellsFirst(t, n)'
  BY <1>2, <1>4 DEF TellsFirst
<1>5. TextsTold'
  <2> SUFFICES ASSUME kind = "google", NEW t \in Running
               PROVE TellsFirst(t, Sent(t))' /\ (stream[t].seen = Sent(t))'
    BY <1>2 DEF TextsTold
  <2>1. CASE t # s
    <3>1. TellsFirst(t, Sent(t)) /\ stream[t].seen = Sent(t) /\ t \in Stream
      BY <1>1 DEF TextsTold, Running
    <3>2. Sent(t)' = Sent(t) /\ stream'[t] = stream[t]
      BY <1>2, <2>1, <3>1 DEF Sent
    <3> QED BY <2>1, <3>1, <3>2 DEF TellsFirst
  <2>2. CASE t = s
    BY <2>2
  <2> QED BY <2>1, <2>2
<1>6. EndedTold'
  <2> SUFFICES ASSUME NEW t \in Stream, stream'[t].at = "ended", t \notin mixed \/ kind = "google"
               PROVE TellsFirst(t, Len(uttered[t]))'
    BY DEF EndedTold
  <2>1. t # s /\ stream'[t] = stream[t]
    BY <1>2
  <2>2. TellsFirst(t, Len(uttered[t]))
    BY <1>1, <2>1 DEF EndedTold
  <2> QED BY <2>1, <2>2 DEF TellsFirst
<1> QED BY <1>2, <1>3, <1>5, <1>6 DEF StreamsInv

\* A stream that tells something is what is left of it, with that.
LEMMA TellsIs ==
  ASSUME StreamsTyped, NEW s \in Stream, stream[s].at = "open", Due(s) # "nothing", NEW words \in Seq(Told), Tells(s, words)
  PROVE  \E r \in StreamState :
           /\ r.at = "open" /\ r.call = Rest(s).call /\ r.nth = Rest(s).nth /\ r.seen = stream[s].seen /\ r.usage = stream[s].usage
           /\ r.told = stream[s].told \o words
           /\ stream' = [stream EXCEPT ![s] = r] /\ stream'[s] = r
<1> DEFINE r == [Rest(s) EXCEPT !.told = @ \o words]
<1>1. Rest(s) \in StreamState /\ Rest(s).at = "open" /\ Rest(s).told = stream[s].told
      /\ Rest(s).seen = stream[s].seen /\ Rest(s).usage = stream[s].usage
  BY RestIs
<1>2. stream[s].told \o words \in Seq(Told)
  BY <1>1, ConcatProperties DEF StreamState
<1>3. /\ r \in StreamState /\ r.at = "open" /\ r.call = Rest(s).call /\ r.nth = Rest(s).nth /\ r.seen = stream[s].seen
      /\ r.usage = stream[s].usage /\ r.told = stream[s].told \o words
  BY <1>1, <1>2 DEF StreamState
<1>4. stream' = [stream EXCEPT ![s] = r] /\ stream \in [Stream -> StreamState]
  BY DEF Tells, StreamsTyped
<1> HIDE DEF r
<1>5. stream'[s] = r
  BY <1>4
<1> QED BY <1>3, <1>4, <1>5

\* One that tells nothing has told what it had.
LEMMA TellsNothing ==
  ASSUME StreamsTyped, NEW s \in Stream, stream[s].at = "open", Due(s) # "nothing", Tells(s, <<>>)
  PROVE  \E r \in StreamState :
           /\ r.at = "open" /\ r.call = Rest(s).call /\ r.nth = Rest(s).nth /\ r.seen = stream[s].seen /\ r.usage = stream[s].usage
           /\ r.told = stream[s].told
           /\ stream' = [stream EXCEPT ![s] = r] /\ stream'[s] = r
<1>1. stream[s].told \in Seq(Told)
  BY DEF StreamsTyped, StreamState
<1>2. stream[s].told \o <<>> = stream[s].told
  BY <1>1, ConcatEmptySeq
<1>3. <<>> \in Seq(Told)
  OBVIOUS
<1>4. PICK r \in StreamState :
           /\ r.at = "open" /\ r.call = Rest(s).call /\ r.nth = Rest(s).nth /\ r.seen = stream[s].seen /\ r.usage = stream[s].usage
           /\ r.told = stream[s].told \o <<>>
           /\ stream' = [stream EXCEPT ![s] = r] /\ stream'[s] = r
  <2> DEFINE x == <<>>
  <2>1. x \in Seq(Told) /\ Tells(s, x)
    BY <1>3
  <2>2. \E r \in StreamState :
           /\ r.at = "open" /\ r.call = Rest(s).call /\ r.nth = Rest(s).nth /\ r.seen = stream[s].seen /\ r.usage = stream[s].usage
           /\ r.told = stream[s].told \o x
           /\ stream' = [stream EXCEPT ![s] = r] /\ stream'[s] = r
    <3> HIDE DEF x
    <3> QED BY <2>1, TellsIs
  <2> QED BY <2>2
<1> QED BY <1>2, <1>4

\* What the model's call is put together to
Made(c) == [id |-> c.id, args |-> c.id]
\* An entry with all the pieces of a call becomes that call.
LEMMA MadeWhole ==
  ASSUME StreamsTyped, NEW s \in Stream, NEW i \in 1 .. Len(uttered[s]), NEW e \in ToolEntry,
         e.id = uttered[s][i].id, e.got = Pieces(uttered[s][i].id, uttered[s][i].pieces)
  PROVE  ToolCall(e) = Made(uttered[s][i])
<1> DEFINE c == uttered[s][i]
<1>1. c \in ToolUse /\ i \in DOMAIN uttered[s]
  BY ElementOfSeq, LenProperties DEF StreamsTyped
<1>2. e.got = [n \in 1 .. uttered[s][i].pieces |-> <<uttered[s][i].id, n>>]
  BY DEF Pieces
<1>3. 1 \in 1 .. c.pieces
  BY <1>1 DEF ToolUse
<1>4. e.got[1] = <<c.id, 1>>
  BY <1>2, <1>3
<1>5. Arguments(e.got) = e.got[1][1]
  BY <1>1, <1>2 DEF Arguments
<1>6. Arguments(e.got) = c.id
  BY <1>4, <1>5
<1> QED BY <1>6 DEF ToolCall, Made

\* And what any entry is put together to is something that can be told.
LEMMA MadeTyped ==
  ASSUME StreamsTyped, NEW e \in ToolEntry
  PROVE  ToolCall(e) \in Told
<1>1. Arguments(e.got) \in CallId \cup {"nothing", "text"}
  <2>1. CASE \E s \in Stream : \E i \in DOMAIN uttered[s] : e.got = [n \in 1 .. uttered[s][i].pieces |-> <<uttered[s][i].id, n>>]
    <3>0. PICK s \in Stream : \E i \in DOMAIN uttered[s] : e.got = [n \in 1 .. uttered[s][i].pieces |-> <<uttered[s][i].id, n>>]
      BY <2>1
    <3>1. PICK i \in DOMAIN uttered[s] : e.got = [n \in 1 .. uttered[s][i].pieces |-> <<uttered[s][i].id, n>>]
      BY <3>0
    <3>2. uttered[s][i] \in ToolUse
      BY ElementOfSeq, LenProperties DEF StreamsTyped
    <3>3. 1 \in 1 .. uttered[s][i].pieces /\ uttered[s][i].id \in CallId
      BY <3>2 DEF ToolUse
    <3>4. e.got[1] = <<uttered[s][i].id, 1>>
      BY <3>1, <3>3
    <3>5. Arguments(e.got) = e.got[1][1]
      BY <2>1 DEF Arguments
    <3> QED BY <3>3, <3>4, <3>5
  <2>2. CASE ~ \E s \in Stream : \E i \in DOMAIN uttered[s] : e.got = [n \in 1 .. uttered[s][i].pieces |-> <<uttered[s][i].id, n>>]
    BY <2>2 DEF Arguments
  <2> QED BY <2>1, <2>2
<1> QED BY <1>1 DEF ToolCall, Told, ToolEntry

\* A stream that goes on leaves the table held, if it is not Google's.
LEMMA HeldBy ==
  ASSUME NEW s \in Stream, kind' # "google", Unfinished(s)'
  PROVE  TableHeld'
BY DEF TableHeld

\* A table that is as it was is held by whom it was, if it was not this one that did.
LEMMA HeldStill ==
  ASSUME StreamsInv, NEW s \in Stream, ~Unfinished(s), UNCHANGED <<kind, toolTable, uttered>>, leftOver => leftOver',
         \A t \in Stream : t # s => stream'[t] = stream[t]
  PROVE  TableHeld'
<1>1. TableHeld
  BY DEF StreamsInv
<1>2. ASSUME NEW t \in Stream, Unfinished(t) PROVE Unfinished(t)'
  <2>1. t # s /\ stream'[t] = stream[t]
    BY <1>2
  <2> QED BY <1>2, <2>1 DEF Unfinished
<1> QED BY <1>1, <1>2 DEF TableHeld

\* OpenAI's first chunk of a call begins its entry,
LEMMA OpenaiStarts ==
  ASSUME StreamsInv, NEW s \in Stream, OpenaiDelta(s), Due(s) = "start"
  PROVE  StreamsInv'
<1>1. StreamsTyped /\ OpenAlone
  BY DEF StreamsInv
<1>2. /\ kind = "openai" /\ stream[s].at = "open"
      /\ toolTable' = With(WithId(s))
      /\ Tells(s, <<>>) /\ UNCHANGED <<kind, uttered, mixed, leftOver>>
  BY DEF OpenaiDelta, Arrives, ToClient
<1>3. PICK r \in StreamState :
           /\ r.at = "open" /\ r.call = Rest(s).call /\ r.nth = Rest(s).nth
           /\ r.told = stream[s].told
           /\ stream' = [stream EXCEPT ![s] = r] /\ stream'[s] = r
  BY <1>1, <1>2, TellsNothing
<1>4. PICK c \in Nat : c = stream[s].call /\ c \in 1 .. Len(uttered[s])
  BY <1>1, DueIs
<1>5. /\ Len(uttered[s]) \in Nat /\ stream[s].nth = 0
      /\ r.call = c /\ r.nth = 1 /\ Coming(s) \in ToolUse /\ Coming(s) = uttered[s][c]
  BY <1>1, <1>3, <1>4, DueIs, RestIs DEF Coming
<1>6. StateOf(c) \in ToolEntry /\ StateOf(c).index = c
  BY <1>1, <1>4, StateIs
<1>7. PICK e \in ToolEntry :
        /\ e.index = c /\ toolTable' = With(e)
        /\ ~HasIndex(c) => e = [index |-> c, id |-> Coming(s).id, got |-> <<>>]
  <2> DEFINE name == IF StateOf(c).id = "" THEN Coming(s).id ELSE StateOf(c).id
             e == [index |-> c, id |-> name, got |-> StateOf(c).got]
  <2>1. name \in CallId \cup {""} /\ StateOf(c).got \in Seq(CallId \X Nat)
    BY <1>5, <1>6 DEF ToolEntry, ToolUse
  <2>2. toolTable' = With(e)
    BY <1>2, <1>4 DEF WithId
  <2>3. ASSUME ~HasIndex(c) PROVE e = [index |-> c, id |-> Coming(s).id, got |-> <<>>]
    BY <1>1, <1>4, <2>3, StateIs
  <2> HIDE DEF name
  <2>4. e \in ToolEntry /\ e.index = c
    BY <1>4, <2>1 DEF ToolEntry
  <2> HIDE DEF e
  <2> QED BY <2>2, <2>3, <2>4
<1>8. toolTable' \in Seq(ToolEntry)
  BY <1>1, <1>7, WithIs
<1>9. /\ stream'[s].at = "open" /\ stream'[s].call = c /\ stream'[s].nth = 1 /\ stream'[s].told = stream[s].told
      /\ uttered' = uttered /\ kind' = kind
  BY <1>2, <1>3, <1>5
<1>10. Unfinished(s)'
  <2>1. c <= Len(uttered[s]) + 1
    BY <1>4, <1>5
  <2> QED BY <1>2, <1>9, <2>1 DEF Unfinished
<1>11. ASSUME s \notin mixed PROVE OpenaiAlone(s)'
  <2>1. OpenaiAlone(s)
    BY <1>1, <1>2, <1>11 DEF OpenAlone, Running
  <2>2. Begun(s) = c - 1 /\ Begun(s)' = c
    BY <1>4, <1>5, <1>9 DEF Begun
  <2>3. Len(toolTable) = c - 1 /\ \A i \in 1 .. c - 1 : toolTable[i] = EntryOf(s, i)
    BY <2>1, <2>2 DEF OpenaiAlone
  <2>4. ~HasIndex(c)
    <3>1. \A i \in 1 .. c - 1 : EntryOf(s, i).index = i
      BY DEF EntryOf
    <3>2. \A i \in 1 .. c - 1 : toolTable[i].index = i
      BY <2>3, <3>1
    <3>3. DOMAIN toolTable = 1 .. c - 1
      BY <1>1, <2>3, LenProperties DEF StreamsTyped
    <3> QED BY <1>4, <3>2, <3>3 DEF HasIndex
  <2>5. e = [index |-> c, id |-> Coming(s).id, got |-> <<>>]
    BY <1>7, <2>4
  <2>6. /\ Len(toolTable') = c /\ toolTable'[c] = e
        /\ \A i \in 1 .. c - 1 : toolTable'[i] = toolTable[i]
    <3>1. /\ Len(With(e)) = Len(toolTable) + 1 /\ With(e)[Len(toolTable) + 1] = e
          /\ \A p \in 1 .. Len(toolTable) : With(e)[p] = toolTable[p]
      BY <1>1, <1>7, <2>4, WithIs
    <3>2. Len(toolTable) + 1 = c
      BY <1>4, <2>3
    <3> QED BY <1>7, <2>3, <3>1, <3>2
  <2>7. ASSUME NEW i \in 1 .. c PROVE toolTable'[i] = EntryOf(s, i)'
    <3>1. CASE i < c
      <4>1. EntryOf(s, i)' = EntryOf(s, i)
        BY <1>4, <1>9, <3>1 DEF EntryOf
      <4>2. i \in 1 .. c - 1
        BY <1>4, <3>1
      <4> QED BY <2>3, <2>6, <4>1, <4>2
    <3>2. CASE i = c
      <4>1. EntryOf(s, i)' = [index |-> c, id |-> uttered[s][c].id, got |-> Pieces(uttered[s][c].id, 0)]
        BY <1>4, <1>9, <3>2 DEF EntryOf
      <4>2. Pieces(uttered[s][c].id, 0) = <<>>
        BY DEF Pieces
      <4>3. e = [index |-> c, id |-> uttered[s][c].id, got |-> <<>>]
        BY <1>5, <2>5
      <4> QED BY <2>6, <3>2, <4>1, <4>2, <4>3
    <3> QED BY <1>4, <3>1, <3>2
  <2>8. TellsFirst(s, 0)
    BY <1>4, <1>5, <2>1 DEF OpenaiAlone
  <2>9. TellsFirst(s, 0)'
    BY <1>9, <2>8 DEF TellsFirst
  <2>10. ~(stream'[s].call > Len(uttered'[s]) + 1)
    BY <1>4, <1>5, <1>9
  <2> QED BY <2>2, <2>6, <2>7, <2>9, <2>10 DEF OpenaiAlone
<1>12. kind' # "google" /\ leftOver' \in BOOLEAN
  BY <1>1, <1>2 DEF StreamsTyped
<1>13. TableHeld'
  BY <1>10, <1>12, HeldBy
<1> QED BY <1>2, <1>3, <1>8, <1>11, <1>12, <1>13, ChunkKeeps

\* A piece of a call is put at its entry.
LEMMA LongerIs ==
  ASSUME StreamsTyped, NEW s \in Stream, Due(s) = "piece"
  PROVE  \E e \in ToolEntry :
           /\ e = Longer(s) /\ e.index = stream[s].call /\ e.id = StateOf(stream[s].call).id
           /\ e.got = Append(StateOf(stream[s].call).got, <<Coming(s).id, stream[s].nth>>)
<1>1. PICK c \in Nat : c = stream[s].call
  BY DueIs
<1>2. StateOf(c).id \in CallId \cup {""} /\ StateOf(c).got \in Seq(CallId \X Nat)
  BY <1>1, StateIs DEF ToolEntry
<1>3. <<Coming(s).id, stream[s].nth>> \in CallId \X Nat
  BY DueIs DEF ToolUse
<1> DEFINE got == Append(StateOf(c).got, <<Coming(s).id, stream[s].nth>>)
           e == [index |-> c, id |-> StateOf(c).id, got |-> got]
<1>4. got \in Seq(CallId \X Nat)
  BY <1>2, <1>3, AppendProperties
<1>5. e = Longer(s)
  BY <1>1 DEF Longer
<1> HIDE DEF got
<1>6. e \in ToolEntry /\ e.index = c /\ e.id = StateOf(c).id /\ e.got = got
  BY <1>1, <1>2, <1>4 DEF ToolEntry
<1> HIDE DEF e
<1> QED BY <1>1, <1>5, <1>6 DEF got

\* Of the pieces put together one more makes one more.
LEMMA PieceMore ==
  ASSUME NEW id \in CallId, NEW n \in Nat \ {0}
  PROVE  Append(Pieces(id, n - 1), <<id, n>>) = Pieces(id, n)
<1> DEFINE old == Pieces(id, n - 1)
           new == Pieces(id, n)
           T == CallId \X Nat
<1>1. \A m \in 1 .. n : <<id, m>> \in T
  OBVIOUS
<1>2. old \in [1 .. n - 1 -> T] /\ \A m \in 1 .. n - 1 : old[m] = <<id, m>>
  BY <1>1 DEF Pieces
<1>3. new \in [1 .. n -> T] /\ \A m \in 1 .. n : new[m] = <<id, m>>
  BY <1>1 DEF Pieces
<1> HIDE DEF old, new, T
<1>4. old \in Seq(T) /\ Len(old) = n - 1
  BY <1>2, IsASeq, LenProperties
<1>5. new \in Seq(T) /\ Len(new) = n
  BY <1>3, IsASeq, LenProperties
<1>6. <<id, n>> \in T
  BY <1>1
<1> DEFINE w == Append(old, <<id, n>>)
<1>7. w \in Seq(T) /\ Len(w) = n - 1 + 1 /\ w[n - 1 + 1] = <<id, n>> /\ \A m \in 1 .. n - 1 : w[m] = old[m]
  <2> DEFINE x == <<id, n>>
  <2>1. x \in T
    BY <1>6
  <2> HIDE DEF x
  <2>2. LET v == Append(old, x) IN v \in Seq(T) /\ Len(v) = n - 1 + 1 /\ v[n - 1 + 1] = x /\ \A m \in 1 .. n - 1 : v[m] = old[m]
    BY <1>4, <2>1, AppendProperties
  <2> QED BY <2>2 DEF x
<1>8. n - 1 + 1 = n
  OBVIOUS
<1> HIDE DEF w
<1>9. \A m \in 1 .. n : w[m] = new[m]
  <2>1. \A m \in 1 .. n : m = n \/ m \in 1 .. n - 1
    OBVIOUS
  <2> QED BY <1>2, <1>3, <1>7, <1>8, <2>1
<1>10. w = new
  BY <1>5, <1>7, <1>8, <1>9, SeqEqual
<1> QED BY <1>10 DEF w, old, new

\* And the next piece goes to it.
LEMMA OpenaiGrows ==
  ASSUME StreamsInv, NEW s \in Stream, OpenaiDelta(s), Due(s) = "piece"
  PROVE  StreamsInv'
<1>1. StreamsTyped /\ OpenAlone
  BY DEF StreamsInv
<1>2. /\ kind = "openai" /\ stream[s].at = "open" /\ toolTable' = With(Longer(s))
      /\ Tells(s, <<>>) /\ UNCHANGED <<kind, uttered, mixed, leftOver>>
  BY DEF OpenaiDelta, Arrives, ToClient
<1>3. PICK r \in StreamState :
           /\ r.at = "open" /\ r.call = Rest(s).call /\ r.nth = Rest(s).nth
           /\ r.told = stream[s].told
           /\ stream' = [stream EXCEPT ![s] = r] /\ stream'[s] = r
  BY <1>1, <1>2, TellsNothing
<1>4. PICK c \in Nat : c = stream[s].call /\ c \in 1 .. Len(uttered[s])
  BY <1>1, DueIs
<1>5. PICK n \in Nat \ {0} : n = stream[s].nth /\ n <= uttered[s][c].pieces
  BY <1>1, <1>4, DueIs DEF Coming, ToolUse
<1>6. /\ Len(uttered[s]) \in Nat /\ Coming(s) = uttered[s][c] /\ uttered[s][c].id \in CallId /\ uttered[s][c].pieces \in Nat
      /\ \/ r.call = c /\ r.nth = n + 1 /\ n < uttered[s][c].pieces
         \/ r.call = c + 1 /\ r.nth = 0 /\ n = uttered[s][c].pieces
  BY <1>1, <1>2, <1>3, <1>4, <1>5, DueIs, RestIs DEF Coming, LastOfCall, ToolUse
<1>7. PICK e \in ToolEntry : e = Longer(s) /\ e.index = c /\ e.id = StateOf(c).id /\ e.got = Append(StateOf(c).got, <<uttered[s][c].id, n>>)
  BY <1>1, <1>4, <1>5, <1>6, LongerIs
<1>8. toolTable' = With(e) /\ toolTable' \in Seq(ToolEntry)
  BY <1>1, <1>2, <1>7, WithIs
<1>9. /\ stream'[s].at = "open" /\ stream'[s].told = stream[s].told /\ uttered' = uttered /\ kind' = kind
      /\ \/ stream'[s].call = c /\ stream'[s].nth = n + 1
         \/ stream'[s].call = c + 1 /\ stream'[s].nth = 0 /\ n = uttered[s][c].pieces
  BY <1>2, <1>3, <1>6
<1>10. Unfinished(s)'
  <2>1. stream'[s].call <= Len(uttered[s]) + 1
    BY <1>4, <1>6, <1>9
  <2> QED BY <1>2, <1>9, <2>1 DEF Unfinished
<1>11. ASSUME s \notin mixed PROVE OpenaiAlone(s)'
  <2>1. OpenaiAlone(s)
    BY <1>1, <1>2, <1>11 DEF OpenAlone, Running
  <2>2. Begun(s) = c /\ Begun(s)' = c
    <3>1. c <= Len(uttered[s]) /\ ~(c > Len(uttered[s]) + 1) /\ ~(c + 1 > Len(uttered[s]) + 1)
      BY <1>4, <1>6
    <3>2. Begun(s) = c
      BY <1>4, <1>5, <3>1 DEF Begun
    <3>3. CASE stream'[s].call = c /\ stream'[s].nth = n + 1
      <4>1. Begun(s)' = c
        BY <1>5, <1>9, <3>1, <3>3 DEF Begun
      <4> QED BY <3>2, <4>1
    <3>4. CASE stream'[s].call = c + 1 /\ stream'[s].nth = 0
      <4>1. Begun(s)' = c
        BY <1>4, <1>9, <3>1, <3>4 DEF Begun
      <4> QED BY <3>2, <4>1
    <3> QED BY <1>9, <3>3, <3>4
  <2>3. Len(toolTable) = c /\ \A i \in 1 .. c : toolTable[i] = EntryOf(s, i)
    BY <2>1, <2>2 DEF OpenaiAlone
  <2>4. \A i \in 1 .. c : EntryOf(s, i).index = i /\ toolTable[i].index = i
    <3>1. \A i \in 1 .. c : EntryOf(s, i).index = i
      BY DEF EntryOf
    <3> QED BY <2>3, <3>1
  <2>5. DOMAIN toolTable = 1 .. c
    BY <1>1, <2>3, LenProperties DEF StreamsTyped
  <2>6. HasIndex(c) /\ StateOf(c) = EntryOf(s, c)
    <3>1. HasIndex(c)
      BY <1>4, <2>4, <2>5 DEF HasIndex
    <3>2. PICK p \in DOMAIN toolTable : toolTable[p].index = c /\ StateOf(c) = toolTable[p]
      BY <1>1, <1>4, <3>1, StateIs
    <3>3. p = c
      BY <2>4, <2>5, <3>2
    <3> QED BY <1>4, <2>3, <3>1, <3>2, <3>3
  <2>7. EntryOf(s, c).id = uttered[s][c].id /\ EntryOf(s, c).got = Pieces(uttered[s][c].id, n - 1)
    BY <1>4, <1>5 DEF EntryOf
  <2>8. e.id = uttered[s][c].id /\ e.got = Pieces(uttered[s][c].id, n)
    <3>1. StateOf(c).got = Pieces(uttered[s][c].id, n - 1) /\ StateOf(c).id = uttered[s][c].id
      BY <2>6, <2>7
    <3>2. Append(Pieces(uttered[s][c].id, n - 1), <<uttered[s][c].id, n>>) = Pieces(uttered[s][c].id, n)
      BY <1>5, <1>6, PieceMore
    <3> QED BY <1>7, <3>1, <3>2
  <2>9. Len(toolTable') = c /\ toolTable'[c] = e /\ \A i \in 1 .. c - 1 : toolTable'[i] = toolTable[i]
    <3>1. /\ Len(With(e)) = Len(toolTable)
          /\ \A p \in 1 .. Len(toolTable) : With(e)[p] = IF toolTable[p].index = e.index THEN e ELSE toolTable[p]
      BY <1>1, <1>7, <2>6, WithIs
    <3>2. c \in 1 .. c /\ \A i \in 1 .. c - 1 : i \in 1 .. c /\ i # c
      BY <1>4
    <3> QED BY <1>7, <1>8, <2>3, <2>4, <3>1, <3>2
  <2>10. ASSUME NEW i \in 1 .. c PROVE toolTable'[i] = EntryOf(s, i)'
    <3>1. CASE i < c
      <4>1. EntryOf(s, i)' = EntryOf(s, i)
        BY <1>4, <1>9, <3>1 DEF EntryOf
      <4>2. i \in 1 .. c - 1
        BY <1>4, <3>1
      <4> QED BY <2>3, <2>9, <4>1, <4>2
    <3>2. CASE i = c
      <4>1. EntryOf(s, i)' = [index |-> c, id |-> uttered[s][c].id, got |-> Pieces(uttered[s][c].id, n)]
        <5>1. (IF c < stream'[s].call THEN uttered[s][c].pieces ELSE stream'[s].nth - 1) = n
          BY <1>4, <1>5, <1>9
        <5> QED BY <1>9, <3>2, <5>1 DEF EntryOf
      <4>2. e = [index |-> c, id |-> uttered[s][c].id, got |-> Pieces(uttered[s][c].id, n)]
        <5> DEFINE got == Pieces(uttered[s][c].id, n)
        <5> HIDE DEF got
        <5>1. e.index = c /\ e.id = uttered[s][c].id /\ e.got = got
          BY <1>7, <2>8 DEF got
        <5>2. e = [index |-> e.index, id |-> e.id, got |-> e.got]
          BY DEF ToolEntry
        <5>3. e = [index |-> c, id |-> uttered[s][c].id, got |-> got]
          BY <5>1, <5>2
        <5> QED BY <5>3 DEF got
      <4> QED BY <2>9, <3>2, <4>1, <4>2
    <3> QED BY <1>4, <3>1, <3>2
  <2>11. TellsFirst(s, 0)
    BY <1>4, <1>6, <2>1 DEF OpenaiAlone
  <2>12. TellsFirst(s, 0)'
    BY <1>9, <2>11 DEF TellsFirst
  <2>13. ~(stream'[s].call > Len(uttered'[s]) + 1)
    BY <1>4, <1>6, <1>9
  <2> QED BY <2>2, <2>9, <2>10, <2>12, <2>13 DEF OpenaiAlone
<1>12. kind' # "google" /\ leftOver' \in BOOLEAN
  BY <1>1, <1>2 DEF StreamsTyped
<1>13. TableHeld'
  BY <1>10, <1>12, HeldBy
<1> QED BY <1>2, <1>3, <1>8, <1>11, <1>12, <1>13, ChunkKeeps

\* At the end of the speech all calls are told, and the table is empty again.
LEMMA OpenaiEnds ==
  ASSUME StreamsInv, NEW s \in Stream, OpenaiFinish(s)
  PROVE  StreamsInv'
<1>1. StreamsTyped /\ OpenAlone
  BY DEF StreamsInv
<1> DEFINE words == [i \in DOMAIN Whole |-> ToolCall(Whole[i])]
<1>2. /\ kind = "openai" /\ stream[s].at = "open" /\ Due(s) = "finish" /\ toolTable' = <<>> /\ leftOver' = FALSE
      /\ Tells(s, words) /\ UNCHANGED <<kind, uttered, mixed>>
  BY DEF OpenaiFinish, Arrives, ToClient, Flushed
<1>3. Whole \in Seq(ToolEntry)
  BY <1>1, KeptSeq DEF Whole, StreamsTyped
<1>4. words \in Seq(Told) /\ Len(words) = Len(Whole) /\ \A i \in 1 .. Len(Whole) : words[i] = ToolCall(Whole[i])
  <2>1. DOMAIN Whole = 1 .. Len(Whole) /\ Len(Whole) \in Nat /\ \A i \in 1 .. Len(Whole) : Whole[i] \in ToolEntry
    BY <1>3, LenProperties
  <2>2. \A i \in 1 .. Len(Whole) : ToolCall(Whole[i]) \in Told
    BY <1>1, <2>1, MadeTyped
  <2>3. words \in [1 .. Len(Whole) -> Told] /\ \A i \in 1 .. Len(Whole) : words[i] = ToolCall(Whole[i])
    BY <2>1, <2>2
  <2> HIDE DEF words
  <2> QED BY <2>1, <2>3, IsASeq, LenProperties
<1>5. PICK r \in StreamState :
           /\ r.at = "open" /\ r.call = Rest(s).call /\ r.nth = Rest(s).nth
           /\ r.told = stream[s].told \o words
           /\ stream' = [stream EXCEPT ![s] = r] /\ stream'[s] = r
  <2> HIDE DEF words
  <2> QED BY <1>1, <1>2, <1>4, TellsIs
<1>6. PICK m \in Nat : m = Len(uttered[s])
  BY <1>1, DueIs
<1>7. /\ stream[s].call = m + 1 /\ stream[s].nth = 0 /\ stream'[s].call = m + 2 /\ stream'[s].nth = 0
      /\ stream'[s].at = "open" /\ uttered' = uttered /\ kind' = kind
  BY <1>1, <1>2, <1>5, <1>6, DueIs, RestIs
<1> HIDE DEF words
<1>8. ASSUME s \notin mixed PROVE OpenaiAlone(s)'
  <2>1. OpenaiAlone(s)
    BY <1>1, <1>2, <1>8 DEF OpenAlone, Running
  <2>2. Begun(s) = m /\ Begun(s)' = 0 /\ ~(stream[s].call > Len(uttered[s]) + 1)
    BY <1>6, <1>7 DEF Begun
  <2>3. Len(toolTable) = m /\ TellsFirst(s, 0) /\ \A i \in 1 .. m : toolTable[i] = EntryOf(s, i)
    BY <2>1, <2>2 DEF OpenaiAlone
  <2>4. ASSUME NEW i \in 1 .. m
        PROVE /\ toolTable[i] \in ToolEntry /\ toolTable[i].id = uttered[s][i].id /\ toolTable[i].id # ""
              /\ toolTable[i].got = Pieces(uttered[s][i].id, uttered[s][i].pieces) /\ toolTable[i].got # <<>>
    <3>1. uttered[s][i] \in ToolUse /\ toolTable[i] \in ToolEntry
      BY <1>1, <1>6, <2>3, ElementOfSeq DEF StreamsTyped
    <3>2. EntryOf(s, i).id = uttered[s][i].id /\ EntryOf(s, i).got = Pieces(uttered[s][i].id, uttered[s][i].pieces)
      BY <1>6, <1>7 DEF EntryOf
    <3>3. uttered[s][i].id # ""
      BY <3>1, StreamsAssumption DEF ToolUse
    <3>4. 1 \in DOMAIN Pieces(uttered[s][i].id, uttered[s][i].pieces)
      BY <3>1 DEF ToolUse, Pieces
    <3>5. Pieces(uttered[s][i].id, uttered[s][i].pieces) # <<>>
      BY <3>4, EmptySeq
    <3> QED BY <2>3, <3>1, <3>2, <3>3, <3>5
  <2>5. Whole = toolTable
    <3>1. toolTable \in Seq(ToolEntry) /\ DOMAIN toolTable = 1 .. m
      BY <1>1, <2>3, LenProperties DEF StreamsTyped
    <3>2. \A p \in DOMAIN toolTable : p \in {q \in DOMAIN toolTable : toolTable[q].id # "" /\ toolTable[q].got # <<>>}
      BY <2>4, <3>1
    <3> QED BY <3>1, <3>2, KeptAll DEF Whole
  <2>6. \A i \in 1 .. m : ToolCall(toolTable[i]) = Made(uttered[s][i])
    BY <1>1, <1>6, <2>4, MadeWhole
  <2>7. Len(words) = m /\ \A i \in 1 .. m : words[i] = Made(uttered[s][i])
    BY <1>4, <2>3, <2>5, <2>6
  <2>8. stream[s].told = <<>> /\ stream[s].told \o words = words
    <3>1. stream[s].told \in Seq(Told) /\ Len(stream[s].told) = 0
      BY <1>1, <2>3 DEF StreamsTyped, StreamState, TellsFirst
    <3>2. stream[s].told = <<>>
      BY <3>1, EmptySeq
    <3> QED BY <1>4, <3>2, ConcatEmptySeq
  <2>9. stream'[s].told = words
    BY <1>5, <2>8
  <2>10. TellsFirst(s, m)'
    BY <1>2, <1>7, <2>7, <2>9 DEF TellsFirst, Made
  <2>11. Len(toolTable') = 0
    BY <1>2, EmptySeq
  <2>12. stream'[s].call > Len(uttered'[s]) + 1
    BY <1>6, <1>7
  <2>13. \A i \in 1 .. 0 : toolTable'[i] = EntryOf(s, i)'
    OBVIOUS
  <2> QED BY <1>6, <1>7, <2>2, <2>10, <2>11, <2>12, <2>13 DEF OpenaiAlone
<1>9. toolTable' \in Seq(ToolEntry) /\ leftOver' \in BOOLEAN /\ TableHeld'
  <2>1. <<>> \in Seq(ToolEntry)
    OBVIOUS
  <2> QED BY <1>2, <2>1 DEF TableHeld
<1>10. kind # "google"
  BY <1>2
<1> QED BY <1>2, <1>5, <1>8, <1>9, <1>10, ChunkKeeps

\* The chunk of the usage changes nothing else.
LEMMA OpenaiUsed ==
  ASSUME StreamsInv, NEW s \in Stream, OpenaiUsage(s)
  PROVE  StreamsInv'
<1>1. StreamsTyped /\ OpenAlone
  BY DEF StreamsInv
<1>2. /\ kind = "openai" /\ stream[s].at = "open" /\ Due(s) = "usage"
      /\ Tells(s, <<>>) /\ UNCHANGED <<kind, uttered, mixed, leftOver, toolTable>>
  BY DEF OpenaiUsage, Arrives, ToClient
<1>3. PICK r \in StreamState :
           /\ r.at = "open" /\ r.call = Rest(s).call /\ r.nth = Rest(s).nth
           /\ r.told = stream[s].told
           /\ stream' = [stream EXCEPT ![s] = r] /\ stream'[s] = r
  BY <1>1, <1>2, TellsNothing
<1>4. PICK m \in Nat : m = Len(uttered[s])
  BY <1>1, DueIs
<1>5. /\ stream[s].call = m + 2 /\ stream[s].nth = 0 /\ stream'[s].call = m + 3 /\ stream'[s].nth = 0
      /\ stream'[s].told = stream[s].told /\ uttered' = uttered /\ kind' = kind
  BY <1>1, <1>2, <1>3, <1>4, DueIs, RestIs
<1>6. ASSUME s \notin mixed PROVE OpenaiAlone(s)'
  <2>1. OpenaiAlone(s)
    BY <1>1, <1>2, <1>6 DEF OpenAlone, Running
  <2>2. Begun(s) = 0 /\ Begun(s)' = 0 /\ stream[s].call > Len(uttered[s]) + 1 /\ stream'[s].call > Len(uttered'[s]) + 1
    BY <1>4, <1>5 DEF Begun
  <2>3. Len(toolTable) = 0 /\ TellsFirst(s, m)
    BY <1>4, <2>1, <2>2 DEF OpenaiAlone
  <2>4. TellsFirst(s, m)'
    BY <1>5, <2>3 DEF TellsFirst
  <2> QED BY <1>2, <1>4, <1>5, <2>2, <2>3, <2>4 DEF OpenaiAlone
<1>7. toolTable' \in Seq(ToolEntry) /\ leftOver' \in BOOLEAN
  BY <1>1, <1>2 DEF StreamsTyped
<1>8. ~Unfinished(s)
  BY <1>2, <1>4, <1>5 DEF Unfinished
<1>9. \A t \in Stream : t # s => stream'[t] = stream[t]
  BY <1>1, <1>3 DEF StreamsTyped
<1>10. TableHeld'
  BY <1>2, <1>8, <1>9, HeldStill
<1> QED BY <1>2, <1>3, <1>6, <1>7, <1>10, ChunkKeeps

\* What a stream alone with Anthropic's client has is had still when it goes on at its
\* call, if its entry is the one that the call has come to.
LEMMA BlockGoesOn ==
  ASSUME StreamsTyped, NEW s \in Stream, NEW c \in 1 .. Len(uttered[s]), stream[s].call = c, TellsFirst(s, c - 1),
         stream'[s].call = c, stream'[s].told = stream[s].told, UNCHANGED <<kind, uttered>>,
         \E p \in DOMAIN toolTable' : toolTable'[p].index = c,
         \A p \in DOMAIN toolTable' : toolTable'[p].index = c => toolTable'[p] = EntryOf(s, c)'
  PROVE  AnthropicAlone(s)'
<1>1. Len(uttered[s]) \in Nat /\ c \in Nat /\ c <= Len(uttered[s])
  BY DueIs
<1>2. HasIndex(c)'
  BY DEF HasIndex
<1>3. HasIndex(stream[s].call)'
  BY <1>2 DEF HasIndex
<1>4. Sent(s)' = c - 1
  BY <1>1 DEF Sent
<1>5. TellsFirst(s, c - 1)'
  BY DEF TellsFirst
<1> QED BY <1>3, <1>4, <1>5 DEF AnthropicAlone

\* Anthropic's block begins anew at its index,
LEMMA BlockStarts ==
  ASSUME StreamsInv, NEW s \in Stream, BlockStart(s)
  PROVE  StreamsInv'
<1>1. StreamsTyped /\ OpenAlone
  BY DEF StreamsInv
<1>2. /\ kind = "anthropic" /\ stream[s].at = "open" /\ Due(s) = "start"
      /\ toolTable' = With([index |-> stream[s].call, id |-> Coming(s).id, got |-> <<>>])
      /\ Tells(s, <<>>) /\ UNCHANGED <<kind, uttered, mixed, leftOver>>
  BY DEF BlockStart, Arrives, ToClient
<1>3. PICK r \in StreamState :
           /\ r.at = "open" /\ r.call = Rest(s).call /\ r.nth = Rest(s).nth
           /\ r.told = stream[s].told
           /\ stream' = [stream EXCEPT ![s] = r] /\ stream'[s] = r
  BY <1>1, <1>2, TellsNothing
<1>4. PICK c \in Nat : c = stream[s].call /\ c \in 1 .. Len(uttered[s])
  BY <1>1, <1>2, DueIs
<1>5. /\ Len(uttered[s]) \in Nat /\ stream[s].nth = 0 /\ r.call = c /\ r.nth = 1
      /\ Coming(s) = uttered[s][c] /\ uttered[s][c].id \in CallId
  BY <1>1, <1>2, <1>3, <1>4, DueIs, RestIs DEF Coming, ToolUse
<1>6. PICK e \in ToolEntry : e.index = c /\ toolTable' = With(e) /\ e = [index |-> c, id |-> uttered[s][c].id, got |-> <<>>]
  <2> DEFINE e == [index |-> c, id |-> uttered[s][c].id, got |-> <<>>]
  <2>1. <<>> \in Seq(CallId \X Nat)
    OBVIOUS
  <2>2. e \in ToolEntry
    BY <1>4, <1>5, <2>1 DEF ToolEntry
  <2>3. e.index = c
    OBVIOUS
  <2>4. toolTable' = With(e)
    BY <1>2, <1>4, <1>5
  <2> HIDE DEF e
  <2> QED BY <2>2, <2>3, <2>4 DEF e
<1>7. toolTable' \in Seq(ToolEntry)
  BY <1>1, <1>6, WithIs
<1>8. /\ stream'[s].at = "open" /\ stream'[s].call = c /\ stream'[s].nth = 1 /\ stream'[s].told = stream[s].told
      /\ uttered' = uttered /\ kind' = kind
  BY <1>2, <1>3, <1>5
<1>9. Unfinished(s)'
  <2>1. c <= Len(uttered[s]) + 2
    BY <1>4, <1>5
  <2> QED BY <1>2, <1>8, <2>1 DEF Unfinished
<1>10. ASSUME s \notin mixed PROVE AnthropicAlone(s)'
  <2>1. AnthropicAlone(s) /\ Sent(s) = c - 1
    BY <1>1, <1>2, <1>4, <1>5, <1>10 DEF OpenAlone, Running, Sent
  <2>2. TellsFirst(s, c - 1)
    BY <2>1 DEF AnthropicAlone
  <2>3. EntryOf(s, c)' = e
    <3>1. EntryOf(s, c)' = [index |-> c, id |-> uttered[s][c].id, got |-> Pieces(uttered[s][c].id, 0)]
      BY <1>4, <1>8 DEF EntryOf
    <3>2. Pieces(uttered[s][c].id, 0) = <<>>
      BY DEF Pieces
    <3> QED BY <1>6, <3>1, <3>2
  <2>4. /\ \E p \in DOMAIN toolTable' : toolTable'[p].index = c
        /\ \A p \in DOMAIN toolTable' : toolTable'[p].index = c => toolTable'[p] = EntryOf(s, c)'
    BY <1>1, <1>6, <2>3, WithIs
  <2> QED BY <1>1, <1>4, <1>8, <2>2, <2>4, BlockGoesOn
<1>11. kind' # "google" /\ leftOver' \in BOOLEAN
  BY <1>1, <1>2 DEF StreamsTyped
<1>12. TableHeld'
  BY <1>9, <1>11, HeldBy
<1> QED BY <1>2, <1>3, <1>7, <1>10, <1>11, <1>12, ChunkKeeps

\* grows by its pieces,
LEMMA BlockGrows ==
  ASSUME StreamsInv, NEW s \in Stream, BlockDelta(s)
  PROVE  StreamsInv'
<1>1. StreamsTyped /\ OpenAlone
  BY DEF StreamsInv
<1>2. /\ kind = "anthropic" /\ stream[s].at = "open" /\ Due(s) = "piece"
      /\ toolTable' = IF HasIndex(stream[s].call) THEN With(Longer(s)) ELSE toolTable
      /\ Tells(s, <<>>) /\ UNCHANGED <<kind, uttered, mixed, leftOver>>
  BY DEF BlockDelta, Arrives, ToClient
<1>3. PICK r \in StreamState :
           /\ r.at = "open" /\ r.call = Rest(s).call /\ r.nth = Rest(s).nth
           /\ r.told = stream[s].told
           /\ stream' = [stream EXCEPT ![s] = r] /\ stream'[s] = r
  BY <1>1, <1>2, TellsNothing
<1>4. PICK c \in Nat : c = stream[s].call /\ c \in 1 .. Len(uttered[s])
  BY <1>1, <1>2, DueIs
<1>5. PICK n \in Nat \ {0} : n = stream[s].nth
  BY <1>1, <1>2, DueIs
<1>6. /\ Len(uttered[s]) \in Nat /\ Coming(s) = uttered[s][c] /\ uttered[s][c].id \in CallId
      /\ r.call = c /\ r.nth = n + 1
  BY <1>1, <1>2, <1>3, <1>4, <1>5, DueIs, RestIs DEF Coming, ToolUse
<1>7. PICK e \in ToolEntry : e = Longer(s) /\ e.index = c /\ e.id = StateOf(c).id /\ e.got = Append(StateOf(c).got, <<uttered[s][c].id, n>>)
  BY <1>1, <1>2, <1>4, <1>5, <1>6, LongerIs
<1>8. toolTable' \in Seq(ToolEntry)
  <2>1. With(e) \in Seq(ToolEntry) /\ toolTable \in Seq(ToolEntry)
    BY <1>1, <1>7, WithIs DEF StreamsTyped
  <2> QED BY <1>2, <1>7, <2>1
<1>9. /\ stream'[s].at = "open" /\ stream'[s].call = c /\ stream'[s].nth = n + 1 /\ stream'[s].told = stream[s].told
      /\ uttered' = uttered /\ kind' = kind
  BY <1>2, <1>3, <1>6
<1>10. Unfinished(s)'
  <2>1. c <= Len(uttered[s]) + 2
    BY <1>4, <1>6
  <2> QED BY <1>2, <1>9, <2>1 DEF Unfinished
<1>11. ASSUME s \notin mixed PROVE AnthropicAlone(s)'
  <2>1. AnthropicAlone(s) /\ Sent(s) = c - 1
    BY <1>1, <1>2, <1>4, <1>6, <1>11 DEF OpenAlone, Running, Sent
  <2>2. TellsFirst(s, c - 1)
    BY <2>1 DEF AnthropicAlone
  <2>3. HasIndex(c) /\ \A p \in DOMAIN toolTable : toolTable[p].index = c => toolTable[p] = EntryOf(s, c)
    BY <1>4, <1>5, <2>1 DEF AnthropicAlone
  <2>4. StateOf(c) = EntryOf(s, c)
    <3>1. PICK p \in DOMAIN toolTable : toolTable[p].index = c /\ StateOf(c) = toolTable[p]
      BY <1>1, <1>4, <2>3, StateIs
    <3> QED BY <2>3, <3>1
  <2>5. EntryOf(s, c).id = uttered[s][c].id /\ EntryOf(s, c).got = Pieces(uttered[s][c].id, n - 1)
    BY <1>4, <1>5 DEF EntryOf
  <2>6. e.id = uttered[s][c].id /\ e.got = Pieces(uttered[s][c].id, n)
    <3>1. StateOf(c).got = Pieces(uttered[s][c].id, n - 1) /\ StateOf(c).id = uttered[s][c].id
      BY <2>4, <2>5
    <3>2. Append(Pieces(uttered[s][c].id, n - 1), <<uttered[s][c].id, n>>) = Pieces(uttered[s][c].id, n)
      BY <1>5, <1>6, PieceMore
    <3> QED BY <1>7, <3>1, <3>2
  <2>7. EntryOf(s, c)' = [index |-> c, id |-> uttered[s][c].id, got |-> Pieces(uttered[s][c].id, n)]
    <3>1. (IF c < stream'[s].call THEN uttered[s][c].pieces ELSE stream'[s].nth - 1) = n
      BY <1>4, <1>5, <1>9
    <3> QED BY <1>9, <3>1 DEF EntryOf
  <2>8. e = EntryOf(s, c)'
    <3> DEFINE got == Pieces(uttered[s][c].id, n)
    <3> HIDE DEF got
    <3>1. e.index = c /\ e.id = uttered[s][c].id /\ e.got = got
      BY <1>7, <2>6 DEF got
    <3>2. e = [index |-> e.index, id |-> e.id, got |-> e.got]
      BY DEF ToolEntry
    <3>3. e = [index |-> c, id |-> uttered[s][c].id, got |-> got]
      BY <3>1, <3>2
    <3> QED BY <2>7, <3>3 DEF got
  <2>9. toolTable' = With(e)
    BY <1>2, <1>4, <1>7, <2>3
  <2>10. /\ \E p \in DOMAIN toolTable' : toolTable'[p].index = c
        /\ \A p \in DOMAIN toolTable' : toolTable'[p].index = c => toolTable'[p] = EntryOf(s, c)'
    <3>1. /\ \E p \in DOMAIN With(e) : With(e)[p].index = e.index
          /\ \A p \in DOMAIN With(e) : With(e)[p].index = e.index => With(e)[p] = e
      BY <1>1, <1>7, WithIs
    <3>2. e.index = c
      BY <1>7
    <3> QED BY <2>8, <2>9, <3>1, <3>2
  <2> QED BY <1>1, <1>4, <1>9, <2>2, <2>10, BlockGoesOn
<1>12. kind' # "google" /\ leftOver' \in BOOLEAN
  BY <1>1, <1>2 DEF StreamsTyped
<1>13. TableHeld'
  BY <1>10, <1>12, HeldBy
<1> QED BY <1>2, <1>3, <1>8, <1>11, <1>12, <1>13, ChunkKeeps

\* and its end takes it out of the table and tells it.
LEMMA BlockStops ==
  ASSUME StreamsInv, NEW s \in Stream, BlockStop(s)
  PROVE  StreamsInv'
<1>1. StreamsTyped /\ OpenAlone
  BY DEF StreamsInv
<1> DEFINE words == IF HasIndex(stream[s].call) THEN <<ToolCall(StateOf(stream[s].call))>> ELSE <<>>
<1>2. /\ kind = "anthropic" /\ stream[s].at = "open" /\ Due(s) = "stop"
      /\ toolTable' = Kept(toolTable, {p \in DOMAIN toolTable : toolTable[p].index # stream[s].call})
      /\ Tells(s, words) /\ UNCHANGED <<kind, uttered, mixed, leftOver>>
  BY DEF BlockStop, Arrives, ToClient
<1>3. PICK c \in Nat : c = stream[s].call /\ c \in 1 .. Len(uttered[s])
  BY <1>1, <1>2, DueIs
<1>4. StateOf(c) \in ToolEntry
  BY <1>1, <1>3, StateIs
<1>5. words \in Seq(Told) /\ (HasIndex(c) => Len(words) = 1 /\ words[1] = ToolCall(StateOf(c)))
  <2>1. PICK t \in Told : t = ToolCall(StateOf(c))
    BY <1>1, <1>4, MadeTyped
  <2>2. words = IF HasIndex(c) THEN <<t>> ELSE <<>>
    BY <1>3, <2>1
  <2> HIDE DEF words
  <2>3. CASE HasIndex(c)
    BY <2>1, <2>2, <2>3
  <2>4. CASE ~HasIndex(c)
    BY <2>2, <2>4
  <2> QED BY <2>3, <2>4
<1> HIDE DEF words
<1>6. PICK r \in StreamState :
           /\ r.at = "open" /\ r.call = Rest(s).call /\ r.nth = Rest(s).nth
           /\ r.told = stream[s].told \o words
           /\ stream' = [stream EXCEPT ![s] = r] /\ stream'[s] = r
  BY <1>1, <1>2, <1>5, TellsIs
<1>7. toolTable' \in Seq(ToolEntry)
  BY <1>1, <1>2, KeptSeq DEF StreamsTyped
<1>8. /\ Len(uttered[s]) \in Nat /\ Coming(s) = uttered[s][c] /\ uttered[s][c].pieces \in Nat \ {0} /\ stream[s].nth = uttered[s][c].pieces + 1
      /\ stream'[s].at = "open" /\ stream'[s].call = c + 1 /\ stream'[s].nth = 0 /\ uttered' = uttered /\ kind' = kind
  BY <1>1, <1>2, <1>3, <1>6, DueIs, RestIs DEF Coming, ToolUse
<1>9. Unfinished(s)'
  <2>1. c + 1 <= Len(uttered[s]) + 2
    BY <1>3, <1>8
  <2> QED BY <1>2, <1>8, <2>1 DEF Unfinished
<1>10. ASSUME s \notin mixed PROVE AnthropicAlone(s)'
  <2>1. AnthropicAlone(s) /\ Sent(s) = c - 1
    BY <1>1, <1>2, <1>3, <1>8, <1>10 DEF OpenAlone, Running, Sent
  <2>2. TellsFirst(s, c - 1)
    BY <2>1 DEF AnthropicAlone
  <2>3. HasIndex(c) /\ \A p \in DOMAIN toolTable : toolTable[p].index = c => toolTable[p] = EntryOf(s, c)
    <3>1. stream[s].nth # 0
      BY <1>8
    <3> QED BY <1>3, <2>1, <3>1 DEF AnthropicAlone
  <2>4. StateOf(c) = EntryOf(s, c)
    <3>1. PICK p \in DOMAIN toolTable : toolTable[p].index = c /\ StateOf(c) = toolTable[p]
      BY <1>1, <1>3, <2>3, StateIs
    <3> QED BY <2>3, <3>1
  <2>5. EntryOf(s, c).id = uttered[s][c].id /\ EntryOf(s, c).got = Pieces(uttered[s][c].id, uttered[s][c].pieces)
    <3>1. (IF c < stream[s].call THEN uttered[s][c].pieces ELSE stream[s].nth - 1) = uttered[s][c].pieces
      BY <1>3, <1>8
    <3> QED BY <3>1 DEF EntryOf
  <2>6. ToolCall(StateOf(c)) = Made(uttered[s][c])
    BY <1>1, <1>3, <1>4, <2>4, <2>5, MadeWhole
  <2>7. Len(words) = 1 /\ words[1] = Made(uttered[s][c])
    BY <1>5, <2>3, <2>6
  <2>8. PICK old \in Seq(Told) : old = stream[s].told
    BY <1>1 DEF StreamsTyped, StreamState
  <2>9. Len(old) = c - 1 /\ \A i \in 1 .. c - 1 : old[i] = Made(uttered[s][i])
    BY <1>2, <2>2, <2>8 DEF TellsFirst, Made
  <2>10. PICK new \in Seq(Told) : new = old \o words /\ Len(new) = c /\ new[c] = words[1] /\ \A i \in 1 .. c - 1 : new[i] = old[i]
    <3>1. old \o words \in Seq(Told) /\ Len(old \o words) = Len(old) + Len(words)
          /\ \A i \in 1 .. Len(old) + Len(words) : (old \o words)[i] = IF i <= Len(old) THEN old[i] ELSE words[i - Len(old)]
      BY <1>5, ConcatProperties
    <3>2. Len(old) + Len(words) = c
      BY <1>3, <2>7, <2>9
    <3>3. (old \o words)[c] = words[1]
      <4>1. c \in 1 .. Len(old) + Len(words) /\ ~(c <= Len(old)) /\ c - Len(old) = 1
        BY <1>3, <2>9, <3>2
      <4> QED BY <3>1, <4>1
    <3>4. \A i \in 1 .. c - 1 : (old \o words)[i] = old[i]
      BY <1>3, <2>9, <3>1, <3>2
    <3> QED BY <3>1, <3>2, <3>3, <3>4
  <2>11. \A i \in 1 .. c : new[i] = Made(uttered[s][i])
    <3>1. \A i \in 1 .. c : i = c \/ i \in 1 .. c - 1
      BY <1>3
    <3> QED BY <2>7, <2>9, <2>10, <3>1
  <2>12. stream'[s].told = new
    BY <1>6, <2>8, <2>10
  <2>13. TellsFirst(s, c)'
    BY <1>2, <1>8, <2>10, <2>11, <2>12 DEF TellsFirst, Made
  <2>14. Sent(s)' = c
    BY <1>3, <1>8 DEF Sent
  <2> QED BY <1>8, <2>13, <2>14 DEF AnthropicAlone
<1>11. kind' # "google" /\ leftOver' \in BOOLEAN
  BY <1>1, <1>2 DEF StreamsTyped
<1>12. TableHeld'
  BY <1>9, <1>11, HeldBy
<1> QED BY <1>2, <1>6, <1>7, <1>10, <1>11, <1>12, ChunkKeeps

\* That the message is at its end says what was used,
LEMMA MessageEnds ==
  ASSUME StreamsInv, NEW s \in Stream, MessageDelta(s)
  PROVE  StreamsInv'
<1>1. StreamsTyped /\ OpenAlone /\ TextsTold /\ TableHeld
  BY DEF StreamsInv
<1>2. /\ kind \in {"anthropic", "google"} /\ stream[s].at = "open" /\ Due(s) = "finish"
      /\ stream' = [stream EXCEPT ![s] = [Rest(s) EXCEPT !.usage = TRUE]]
      /\ UNCHANGED <<kind, uttered, mixed, leftOver, toolTable>>
  BY DEF MessageDelta, Arrives, ToClient
<1>3. PICK m \in Nat : m = Len(uttered[s])
  BY <1>1, DueIs
<1>4. PICK r \in StreamState :
           /\ r.at = "open" /\ r.call = Rest(s).call /\ r.nth = Rest(s).nth
           /\ r.told = stream[s].told /\ r.seen = stream[s].seen
           /\ stream' = [stream EXCEPT ![s] = r]
  <2>1. PICK q \in StreamState : q = Rest(s) /\ q.at = "open" /\ q.told = stream[s].told /\ q.seen = stream[s].seen
    BY <1>1, <1>2, RestIs
  <2> DEFINE r == [q EXCEPT !.usage = TRUE]
  <2>2. r \in StreamState /\ r.at = "open" /\ r.call = q.call /\ r.nth = q.nth /\ r.told = stream[s].told /\ r.seen = stream[s].seen
    BY <2>1 DEF StreamState
  <2>3. stream' = [stream EXCEPT ![s] = r]
    BY <1>2, <2>1
  <2> HIDE DEF r
  <2> QED BY <2>1, <2>2, <2>3
<1>5. stream'[s] = r /\ \A t \in Stream : t # s => stream'[t] = stream[t]
  BY <1>1, <1>4 DEF StreamsTyped
<1>6. /\ stream[s].call = m + 1 /\ stream[s].nth = 0 /\ stream'[s].call = m + 2 /\ stream'[s].nth = 0 /\ stream'[s].at = "open"
      /\ stream'[s].told = stream[s].told /\ stream'[s].seen = stream[s].seen /\ uttered' = uttered /\ kind' = kind
  BY <1>1, <1>2, <1>3, <1>4, <1>5, DueIs, RestIs
<1>7. Sent(s) = m /\ Sent(s)' = m
  BY <1>3, <1>6 DEF Sent
<1>8. ASSUME s \notin mixed, kind = "anthropic" PROVE AnthropicAlone(s)'
  <2>1. TellsFirst(s, m)
    BY <1>1, <1>2, <1>7, <1>8 DEF OpenAlone, Running, AnthropicAlone
  <2>2. TellsFirst(s, m)'
    BY <1>6, <2>1 DEF TellsFirst
  <2> QED BY <1>6, <1>7, <2>2 DEF AnthropicAlone
<1>9. ASSUME kind = "google" PROVE TellsFirst(s, Sent(s))' /\ (stream[s].seen = Sent(s))'
  <2>1. TellsFirst(s, m) /\ stream[s].seen = m
    BY <1>1, <1>2, <1>7, <1>9 DEF TextsTold, Running
  <2>2. TellsFirst(s, m)'
    BY <1>6, <2>1 DEF TellsFirst
  <2> QED BY <1>6, <1>7, <2>1, <2>2
<1>10. toolTable' \in Seq(ToolEntry) /\ leftOver' \in BOOLEAN
  BY <1>1, <1>2 DEF StreamsTyped
<1>11. TableHeld'
  <2>1. CASE kind = "google"
    BY <1>1, <1>2, <2>1 DEF TableHeld
  <2>2. CASE kind = "anthropic"
    <3>1. Unfinished(s)'
      BY <1>3, <1>6, <2>2 DEF Unfinished
    <3> QED BY <1>6, <2>2, <3>1, HeldBy
  <2> QED BY <1>2, <2>1, <2>2
<1>12. kind # "openai"
  BY <1>2
<1> QED BY <1>2, <1>4, <1>8, <1>9, <1>10, <1>11, <1>12, ChunkKeeps

\* and that it stops empties the table.
LEMMA MessageStops ==
  ASSUME StreamsInv, NEW s \in Stream, MessageStop(s)
  PROVE  StreamsInv'
<1>1. StreamsTyped /\ OpenAlone
  BY DEF StreamsInv
<1>2. /\ kind = "anthropic" /\ stream[s].at = "open" /\ Due(s) = "end" /\ toolTable' = <<>> /\ leftOver' = FALSE
      /\ Tells(s, <<>>) /\ UNCHANGED <<kind, uttered, mixed>>
  BY DEF MessageStop, Arrives, ToClient
<1>3. PICK r \in StreamState :
           /\ r.at = "open" /\ r.call = Rest(s).call /\ r.nth = Rest(s).nth
           /\ r.told = stream[s].told
           /\ stream' = [stream EXCEPT ![s] = r] /\ stream'[s] = r
  BY <1>1, <1>2, TellsNothing
<1>4. PICK m \in Nat : m = Len(uttered[s])
  BY <1>1, DueIs
<1>5. /\ stream[s].call = m + 2 /\ stream[s].nth = 0 /\ stream'[s].call = m + 3 /\ stream'[s].nth = 0
      /\ stream'[s].told = stream[s].told /\ uttered' = uttered /\ kind' = kind
  BY <1>1, <1>2, <1>3, <1>4, DueIs, RestIs
<1>6. Sent(s) = m /\ Sent(s)' = m
  BY <1>4, <1>5 DEF Sent
<1>7. ASSUME s \notin mixed PROVE AnthropicAlone(s)'
  <2>1. TellsFirst(s, m)
    BY <1>1, <1>2, <1>6, <1>7 DEF OpenAlone, Running, AnthropicAlone
  <2>2. TellsFirst(s, m)'
    BY <1>5, <2>1 DEF TellsFirst
  <2> QED BY <1>5, <1>6, <2>2 DEF AnthropicAlone
<1>8. toolTable' \in Seq(ToolEntry) /\ leftOver' \in BOOLEAN /\ TableHeld'
  <2>1. <<>> \in Seq(ToolEntry)
    OBVIOUS
  <2> QED BY <1>2, <2>1 DEF TableHeld
<1>9. kind # "google" /\ kind # "openai"
  BY <1>2
<1> QED BY <1>2, <1>3, <1>7, <1>8, <1>9, ChunkKeeps

\* Google's text grows by what is new in it.
LEMMA TextGrows ==
  ASSUME StreamsInv, NEW s \in Stream, GoogleText(s)
  PROVE  StreamsInv'
<1>1. StreamsTyped /\ TextsTold /\ TableHeld
  BY DEF StreamsInv
<1> DEFINE more == [n \in 1 .. stream[s].call - stream[s].seen |-> [id |-> stream[s].seen + n, args |-> "text"]]
<1>2. /\ kind = "google" /\ stream[s].at = "open" /\ Due(s) = "text"
      /\ stream' = [stream EXCEPT ![s] = [Rest(s) EXCEPT !.seen = stream[s].call, !.told = @ \o more]]
      /\ UNCHANGED <<kind, uttered, mixed, leftOver, toolTable>>
  BY DEF GoogleText, Arrives, ToClient
<1>3. PICK c \in Nat : c = stream[s].call /\ c \in 1 .. Len(uttered[s])
  BY <1>1, <1>2, DueIs
<1>4. Len(uttered[s]) \in Nat /\ Rest(s).call = c + 1 /\ Rest(s).nth = 0 /\ Sent(s) = c - 1
  BY <1>1, <1>2, <1>3, DueIs, RestIs DEF Sent
<1>5. TellsFirst(s, c - 1) /\ stream[s].seen = c - 1
  BY <1>1, <1>2, <1>4 DEF TextsTold, Running
<1>6. PICK t \in Told : t = [id |-> c, args |-> "text"]
  BY <1>3 DEF Told
<1>7. more = <<t>>
  <2>1. stream[s].call - stream[s].seen = 1
    BY <1>3, <1>5
  <2>2. more = [n \in 1 .. 1 |-> [id |-> c - 1 + n, args |-> "text"]]
    BY <1>5, <2>1
  <2>3. \A n \in 1 .. 1 : [id |-> c - 1 + n, args |-> "text"] = t
    <3>1. \A n \in 1 .. 1 : c - 1 + n = c
      BY <1>3
    <3> QED BY <1>6, <3>1
  <2>4. more = [n \in 1 .. 1 |-> t]
    BY <2>2, <2>3
  <2> HIDE DEF more
  <2> QED BY <2>4
<1> HIDE DEF more
<1>8. PICK q \in StreamState : q = Rest(s) /\ q.at = "open" /\ q.told = stream[s].told
  BY <1>1, <1>2, RestIs
<1>9. PICK new \in Seq(Told) : new = q.told \o <<t>> /\ Len(new) = c /\ new[c] = t /\ \A i \in 1 .. c - 1 : new[i] = q.told[i]
  <2>1. q.told \in Seq(Told) /\ Len(q.told) = c - 1
    BY <1>5, <1>8 DEF StreamState, TellsFirst
  <2>2. q.told \o <<t>> = Append(q.told, t)
    BY <1>6, <2>1, AppendIsConcat
  <2>3. c - 1 + 1 = c
    BY <1>3
  <2> DEFINE w == Append(q.told, t)
  <2>4. w \in Seq(Told) /\ Len(w) = Len(q.told) + 1 /\ w[Len(q.told) + 1] = t /\ \A i \in 1 .. Len(q.told) : w[i] = q.told[i]
    BY <1>6, <2>1, AppendProperties
  <2> HIDE DEF w
  <2>5. Len(w) = c /\ w[c] = t /\ \A i \in 1 .. c - 1 : w[i] = q.told[i]
    BY <2>1, <2>3, <2>4
  <2> QED BY <2>2, <2>4, <2>5 DEF w
<1>10. PICK r \in StreamState :
           /\ r.at = "open" /\ r.call = Rest(s).call /\ r.nth = Rest(s).nth
           /\ r.told = new /\ r.seen = c
           /\ stream' = [stream EXCEPT ![s] = r]
  <2> DEFINE half == [q EXCEPT !.seen = c]
             r == [half EXCEPT !.told = new]
  <2>1. half \in StreamState /\ half.at = "open" /\ half.call = q.call /\ half.nth = q.nth /\ half.seen = c /\ half.told = q.told
    BY <1>8 DEF StreamState
  <2>2. [Rest(s) EXCEPT !.seen = stream[s].call, !.told = @ \o more] = r
    <3>1. [Rest(s) EXCEPT !.seen = stream[s].call, !.told = @ \o more] = [half EXCEPT !.told = half.told \o more]
      BY <1>3, <1>8
    <3>2. half.told \o more = new
      BY <1>7, <1>9, <2>1
    <3> HIDE DEF half
    <3> QED BY <3>1, <3>2
  <2> HIDE DEF half
  <2>3. r \in StreamState /\ r.at = "open" /\ r.call = q.call /\ r.nth = q.nth /\ r.seen = c /\ r.told = new
    BY <2>1 DEF StreamState
  <2>4. stream' = [stream EXCEPT ![s] = r]
    BY <1>2, <2>2
  <2> HIDE DEF r
  <2> QED BY <1>8, <2>3, <2>4
<1>11. stream'[s] = r /\ \A x \in Stream : x # s => stream'[x] = stream[x]
  BY <1>1, <1>10 DEF StreamsTyped
<1>12. Sent(s)' = c
  BY <1>2, <1>3, <1>4, <1>10, <1>11 DEF Sent
<1>13. TellsFirst(s, c)'
  <2>1. \A i \in 1 .. c - 1 : q.told[i] = [id |-> i, args |-> "text"]
    BY <1>2, <1>5, <1>8 DEF TellsFirst
  <2>2. \A i \in 1 .. c : i = c \/ i \in 1 .. c - 1
    BY <1>3
  <2>3. \A i \in 1 .. c : new[i] = [id |-> i, args |-> "text"]
    BY <1>6, <1>9, <2>1, <2>2
  <2>4. stream'[s].told = new /\ kind' = "google"
    BY <1>2, <1>10, <1>11
  <2> QED BY <1>9, <2>3, <2>4 DEF TellsFirst
<1>14. TellsFirst(s, Sent(s))' /\ (stream[s].seen = Sent(s))'
  BY <1>10, <1>11, <1>12, <1>13
<1>15. toolTable' \in Seq(ToolEntry) /\ leftOver' \in BOOLEAN /\ TableHeld'
  BY <1>1, <1>2 DEF StreamsTyped, TableHeld
<1>16. kind # "anthropic" /\ kind # "openai"
  BY <1>2
<1> QED BY <1>2, <1>10, <1>14, <1>15, <1>16, ChunkKeeps

\* A stream that nobody opened
LEMMA ClosedIs ==
  Closed \in StreamState /\ Closed.at = "none" /\ Closed.call = 1 /\ Closed.nth = 0 /\ Closed.told = <<>> /\ Closed.seen = 0
<1>1. <<>> \in Seq(Told)
  OBVIOUS
<1>2. Closed \in StreamState
  BY <1>1 DEF Closed, StreamState
<1>3. Closed.at = "none" /\ Closed.call = 1 /\ Closed.nth = 0 /\ Closed.seen = 0
  BY DEF Closed
<1>4. Closed.told = <<>>
  BY DEF Closed
<1> QED BY <1>2, <1>3, <1>4

\* A stream that opens has told nothing; it is alone if no other runs and nothing of
\* another is left in the table.
LEMMA Opens ==
  ASSUME StreamsInv, NEW s \in Stream, NEW speech \in Speech, OpenStream(s, speech)
  PROVE  StreamsInv'
<1>1. StreamsTyped /\ OpenAlone /\ TextsTold /\ EndedTold /\ TableHeld
  BY DEF StreamsInv
<1>2. /\ stream[s].at # "open" /\ stream' = [stream EXCEPT ![s] = [Closed EXCEPT !.at = "open"]]
      /\ uttered' = [uttered EXCEPT ![s] = speech]
      /\ mixed' = IF Running # {} THEN mixed \cup Running \cup {s}
                  ELSE IF leftOver /\ kind = "openai" THEN mixed \cup {s} ELSE mixed \ {s}
      /\ UNCHANGED <<kind, toolTable, leftOver>>
  BY DEF OpenStream
<1>3. PICK r \in StreamState : /\ r.at = "open" /\ r.call = 1 /\ r.nth = 0 /\ r.told = <<>> /\ r.seen = 0
                               /\ stream' = [stream EXCEPT ![s] = r]
  <2>1. PICK q \in StreamState : q = Closed /\ q.call = 1 /\ q.nth = 0 /\ q.told = <<>> /\ q.seen = 0
    BY ClosedIs
  <2> DEFINE r == [q EXCEPT !.at = "open"]
  <2>2. r \in StreamState /\ r.at = "open" /\ r.call = q.call /\ r.nth = q.nth /\ r.told = q.told /\ r.seen = q.seen
    BY DEF StreamState
  <2>3. stream' = [stream EXCEPT ![s] = r]
    BY <1>2, <2>1
  <2> HIDE DEF r
  <2> QED BY <2>1, <2>2, <2>3
<1>4. speech \in Seq(ToolUse) /\ Len(speech) \in Nat
  BY StreamsAssumption, LenProperties
<1>5. /\ stream' \in [Stream -> StreamState] /\ uttered' \in [Stream -> Seq(ToolUse)] /\ stream'[s] = r /\ uttered'[s] = speech
      /\ \A t \in Stream : t # s => stream'[t] = stream[t] /\ uttered'[t] = uttered[t]
  <2>1. stream \in [Stream -> StreamState] /\ uttered \in [Stream -> Seq(ToolUse)]
    BY <1>1 DEF StreamsTyped
  <2>2. stream' \in [Stream -> StreamState] /\ stream'[s] = r /\ \A t \in Stream : t # s => stream'[t] = stream[t]
    BY <1>3, <2>1
  <2>3. uttered' \in [Stream -> Seq(ToolUse)] /\ uttered'[s] = speech /\ \A t \in Stream : t # s => uttered'[t] = uttered[t]
    BY <1>2, <1>4, <2>1
  <2> QED BY <2>2, <2>3
<1>6. ASSUME NEW t \in Stream PROVE Placed(t)'
  <2>1. CASE t = s
    BY <1>3, <1>4, <1>5, <2>1 DEF Placed
  <2>2. CASE t # s
    <3>1. Placed(t) /\ stream'[t] = stream[t] /\ uttered'[t] = uttered[t] /\ kind' = kind
      BY <1>1, <1>2, <1>5, <2>2 DEF StreamsTyped
    <3> QED BY <3>1 DEF Placed, LastOfCall, Coming
  <2> QED BY <2>1, <2>2
<1>7. mixed' \subseteq Stream
  BY <1>1, <1>2 DEF StreamsTyped, Running
<1>8. StreamsTyped'
  BY <1>1, <1>2, <1>5, <1>6, <1>7 DEF StreamsTyped
<1>9. Running' = Running \cup {s}
  BY <1>3, <1>5 DEF Running
<1>10. OpenAlone'
  <2> SUFFICES ASSUME NEW t \in Running', t \notin mixed'
               PROVE /\ Running' = {t}
                     /\ kind' = "openai" => OpenaiAlone(t)'
                     /\ kind' = "anthropic" => AnthropicAlone(t)'
    BY DEF OpenAlone
  <2>1. Running = {} /\ t = s /\ ~(leftOver /\ kind = "openai")
    BY <1>2, <1>9
  <2>2. Running' = {s}
    BY <1>9, <2>1
  <2>3. stream'[s].told = <<>> /\ stream'[s].call = 1 /\ stream'[s].nth = 0
    BY <1>3, <1>5
  <2>4. TellsFirst(s, 0)'
    BY <2>3, EmptySeq DEF TellsFirst
  <2>5. ASSUME kind' = "openai" PROVE OpenaiAlone(s)'
    <3>1. toolTable = <<>>
      BY <1>1, <1>2, <2>1, <2>5 DEF TableHeld, Unfinished, Running
    <3>2. Begun(s)' = 0
      BY <1>4, <1>5, <2>3 DEF Begun
    <3>3. ~(stream'[s].call > Len(uttered'[s]) + 1)
      BY <1>4, <1>5, <2>3
    <3>4. Len(toolTable') = 0 /\ \A i \in 1 .. 0 : toolTable'[i] = EntryOf(s, i)'
      BY <1>2, <3>1, EmptySeq
    <3> QED BY <2>4, <3>2, <3>3, <3>4 DEF OpenaiAlone
  <2>6. AnthropicAlone(s)'
    <3>1. Sent(s)' = 0
      BY <1>4, <1>5, <2>3 DEF Sent
    <3> QED BY <2>3, <2>4, <3>1 DEF AnthropicAlone
  <2> QED BY <2>1, <2>2, <2>5, <2>6
<1>11. TextsTold'
  <2> SUFFICES ASSUME kind' = "google", NEW t \in Running'
               PROVE TellsFirst(t, Sent(t))' /\ (stream[t].seen = Sent(t))'
    BY DEF TextsTold
  <2>1. CASE t = s
    <3>1. stream'[s].told = <<>> /\ stream'[s].call = 1 /\ stream'[s].seen = 0
      BY <1>3, <1>5
    <3>2. Sent(s)' = 0
      BY <1>4, <1>5, <3>1 DEF Sent
    <3>3. TellsFirst(s, 0)'
      BY <3>1, EmptySeq DEF TellsFirst
    <3> QED BY <2>1, <3>1, <3>2, <3>3
  <2>2. CASE t # s
    <3>1. t \in Running /\ t \in Stream /\ stream'[t] = stream[t] /\ uttered'[t] = uttered[t] /\ kind' = kind
      BY <1>2, <1>5, <1>9, <2>2 DEF Running
    <3>2. TellsFirst(t, Sent(t)) /\ stream[t].seen = Sent(t)
      BY <1>1, <3>1 DEF TextsTold
    <3>3. Sent(t)' = Sent(t)
      BY <3>1 DEF Sent
    <3> QED BY <3>1, <3>2, <3>3 DEF TellsFirst
  <2> QED BY <2>1, <2>2
<1>12. EndedTold'
  <2> SUFFICES ASSUME NEW t \in Stream, stream'[t].at = "ended", t \notin mixed' \/ kind' = "google"
               PROVE TellsFirst(t, Len(uttered[t]))'
    BY DEF EndedTold
  <2>1. t # s /\ stream'[t] = stream[t] /\ uttered'[t] = uttered[t] /\ kind' = kind
    BY <1>2, <1>3, <1>5
  <2>2. t \notin mixed \/ kind = "google"
    BY <1>2, <2>1
  <2>3. TellsFirst(t, Len(uttered[t]))
    BY <1>1, <2>1, <2>2 DEF EndedTold
  <2> QED BY <2>1, <2>3 DEF TellsFirst
<1>13. TableHeld'
  <2>1. ASSUME NEW t \in Stream, Unfinished(t) PROVE Unfinished(t)'
    <3>1. t # s
      BY <1>2, <2>1 DEF Unfinished
    <3> QED BY <1>2, <1>5, <2>1, <3>1 DEF Unfinished
  <2> QED BY <1>1, <1>2, <2>1 DEF TableHeld
<1> QED BY <1>8, <1>10, <1>11, <1>12, <1>13 DEF StreamsInv

\* A stream that closes leaves the others as they are.
LEMMA Closes ==
  ASSUME StreamsInv, NEW s \in Stream, stream[s].at = "open", NEW at \in {"ended", "broken"},
         stream' = [stream EXCEPT ![s].at = at], UNCHANGED <<kind, toolTable, uttered, mixed>>, leftOver' \in BOOLEAN,
         at = "ended" /\ (s \notin mixed \/ kind = "google") => TellsFirst(s, Len(uttered[s])),
         TableHeld'
  PROVE  StreamsInv'
<1>1. StreamsTyped /\ OpenAlone /\ TextsTold /\ EndedTold
  BY DEF StreamsInv
<1>2. PICK r \in StreamState : r.at = at /\ r.call = stream[s].call /\ r.nth = stream[s].nth /\ r.told = stream[s].told
                               /\ stream' = [stream EXCEPT ![s] = r]
  <2>1. PICK q \in StreamState : q = stream[s]
    BY <1>1 DEF StreamsTyped
  <2> DEFINE r == [q EXCEPT !.at = at]
  <2>2. r \in StreamState /\ r.at = at /\ r.call = q.call /\ r.nth = q.nth /\ r.told = q.told
    BY DEF StreamState
  <2>3. stream' = [stream EXCEPT ![s] = r]
    BY <2>1
  <2> HIDE DEF r
  <2> QED BY <2>1, <2>2, <2>3
<1>3. /\ stream' \in [Stream -> StreamState] /\ stream'[s] = r
      /\ \A t \in Stream : t # s => stream'[t] = stream[t]
  BY <1>1, <1>2 DEF StreamsTyped
<1>4. Running' = Running \ {s}
  BY <1>2, <1>3 DEF Running
<1>5. \A t \in Stream : stream'[t].call = stream[t].call /\ stream'[t].nth = stream[t].nth /\ stream'[t].told = stream[t].told
  BY <1>2, <1>3
<1>6. StreamsTyped'
  <2>1. ASSUME NEW t \in Stream PROVE Placed(t)'
    <3>1. Placed(t) /\ stream'[t].call = stream[t].call /\ stream'[t].nth = stream[t].nth
      BY <1>1, <1>5 DEF StreamsTyped
    <3> QED BY <3>1 DEF Placed, LastOfCall, Coming
  <2> QED BY <1>1, <1>3, <2>1 DEF StreamsTyped
<1>7. \A t \in Stream, n \in Nat : TellsFirst(t, n) => TellsFirst(t, n)'
  BY <1>5 DEF TellsFirst
<1>8. OpenAlone'
  <2>1. ASSUME NEW t \in Running', t \notin mixed PROVE FALSE
    <3>1. t \in Running /\ t # s /\ s \in Running
      BY <1>4, <2>1 DEF Running
    <3> QED BY <1>1, <2>1, <3>1 DEF OpenAlone
  <2> QED BY <2>1 DEF OpenAlone
<1>9. TextsTold'
  <2> SUFFICES ASSUME kind = "google", NEW t \in Running'
               PROVE TellsFirst(t, Sent(t))' /\ (stream[t].seen = Sent(t))'
    BY DEF TextsTold
  <2>1. t \in Running /\ t \in Stream /\ t # s /\ stream'[t] = stream[t]
    BY <1>3, <1>4 DEF Running
  <2>2. TellsFirst(t, Sent(t)) /\ stream[t].seen = Sent(t) /\ Sent(t)' = Sent(t)
    BY <1>1, <2>1 DEF TextsTold, Sent
  <2> QED BY <2>1, <2>2 DEF TellsFirst
<1>10. EndedTold'
  <2> SUFFICES ASSUME NEW t \in Stream, stream'[t].at = "ended", t \notin mixed \/ kind = "google"
               PROVE TellsFirst(t, Len(uttered[t]))'
    BY DEF EndedTold
  <2>1. TellsFirst(t, Len(uttered[t]))
    BY <1>1, <1>2, <1>3 DEF EndedTold
  <2> QED BY <1>5, <2>1 DEF TellsFirst
<1> QED BY <1>6, <1>8, <1>9, <1>10 DEF StreamsInv

\* One read to its end has told all,
LEMMA Finalizes ==
  ASSUME StreamsInv, NEW s \in Stream, Finalize(s)
  PROVE  StreamsInv'
<1>1. StreamsTyped /\ OpenAlone /\ TextsTold
  BY DEF StreamsInv
<1>2. /\ stream[s].at = "open" /\ Due(s) = "nothing" /\ stream' = [stream EXCEPT ![s].at = "ended"]
      /\ UNCHANGED <<kind, toolTable, leftOver, uttered, mixed>>
  BY DEF Finalize, Arrives
<1>3. PICK m \in Nat : m = Len(uttered[s])
  BY <1>1, DueIs
<1>4. stream[s].call \in Nat /\ (stream[s].call > m + 2 \/ (kind = "google" /\ stream[s].call > m + 1))
  BY <1>1, <1>2, <1>3, DueIs
<1>5. Sent(s) = m
  BY <1>3, <1>4 DEF Sent
<1>6. ASSUME s \notin mixed \/ kind = "google" PROVE TellsFirst(s, m)
  <2>1. CASE kind = "google"
    BY <1>1, <1>2, <1>5, <2>1 DEF TextsTold, Running
  <2>2. CASE kind = "anthropic"
    BY <1>1, <1>2, <1>5, <1>6, <2>2 DEF OpenAlone, Running, AnthropicAlone
  <2>3. CASE kind = "openai"
    <3>1. OpenaiAlone(s)
      BY <1>1, <1>2, <1>6, <2>3 DEF OpenAlone, Running
    <3>2. stream[s].call > Len(uttered[s]) + 1
      BY <1>3, <1>4
    <3> QED BY <1>3, <3>1, <3>2 DEF OpenaiAlone
  <2> QED BY <1>1, <2>1, <2>2, <2>3 DEF StreamsTyped
<1>7. ~Unfinished(s) \/ kind = "google"
  BY <1>1, <1>3, <1>4 DEF Unfinished, StreamsTyped
<1>8. \A t \in Stream : t # s => stream'[t] = stream[t]
  BY <1>1, <1>2 DEF StreamsTyped
<1>9. TableHeld'
  <2>1. CASE kind = "google"
    BY <1>2, <2>1 DEF StreamsInv, TableHeld
  <2>2. CASE ~Unfinished(s)
    BY <1>2, <1>8, <2>2, HeldStill
  <2> QED BY <1>7, <2>1, <2>2
<1>10. leftOver' \in BOOLEAN
  BY <1>1, <1>2 DEF StreamsTyped
<1> QED BY <1>2, <1>3, <1>6, <1>9, <1>10, Closes

\* and one that breaks may leave something in the table.
LEMMA Breaks ==
  ASSUME StreamsInv, NEW s \in Stream, Break(s)
  PROVE  StreamsInv'
<1>1. /\ stream[s].at = "open" /\ stream' = [stream EXCEPT ![s].at = "broken"] /\ leftOver' = TRUE
      /\ UNCHANGED <<kind, toolTable, uttered, mixed>>
  BY DEF Break
<1>2. TableHeld'
  BY <1>1 DEF StreamsInv, TableHeld
<1> QED BY <1>1, <1>2, Closes

\* No stream runs at the start, and the table is empty.
LEMMA StreamsStart == StreamsInit => StreamsInv
<1> SUFFICES ASSUME StreamsInit PROVE StreamsInv
  OBVIOUS
<1>1. kind \in {"openai", "anthropic", "google"} /\ toolTable = <<>> /\ leftOver = FALSE /\ mixed = {} /\ stream = [s \in Stream |-> Closed]
      /\ uttered = [s \in Stream |-> <<>>]
  BY StreamsAssumption DEF StreamsInit
<1>2. Closed \in StreamState /\ Closed.at = "none" /\ Closed.call = 1 /\ Closed.nth = 0
  BY ClosedIs
<1>3. <<>> \in Seq(ToolUse) /\ <<>> \in Seq(ToolEntry) /\ Len(<<>>) = 0
  OBVIOUS
<1>4. StreamsTyped
  <2>1. ASSUME NEW s \in Stream PROVE Placed(s)
    <3>1. stream[s] = Closed /\ uttered[s] = <<>> /\ Len(uttered[s]) = 0
      BY <1>1, <1>3
    <3>2. stream[s].call = 1 /\ stream[s].nth = 0
      BY <1>2, <3>1
    <3> QED BY <3>1, <3>2 DEF Placed
  <2> QED BY <1>1, <1>2, <1>3, <2>1 DEF StreamsTyped
<1>5. Running = {}
  BY <1>1, <1>2 DEF Running
<1>6. EndedTold
  BY <1>1, <1>2 DEF EndedTold
<1> QED BY <1>1, <1>4, <1>5, <1>6 DEF StreamsInv, OpenAlone, TextsTold, TableHeld

\* Nothing happens to the streams.
LEMMA StreamsIdle == StreamsInv /\ UNCHANGED streams => StreamsInv'
<1> SUFFICES ASSUME StreamsInv, UNCHANGED streams PROVE StreamsInv'
  OBVIOUS
<1>1. UNCHANGED <<kind, toolTable, stream, leftOver, uttered, mixed>>
  BY DEF streams
<1>2. StreamsTyped'
  BY <1>1 DEF StreamsInv, StreamsTyped, Placed, LastOfCall, Coming
<1>3. \A s \in Stream : OpenaiAlone(s) => OpenaiAlone(s)'
  BY <1>1 DEF OpenaiAlone, Begun, EntryOf, TellsFirst
<1>4. \A s \in Stream : AnthropicAlone(s) => AnthropicAlone(s)'
  BY <1>1 DEF AnthropicAlone, HasIndex, Sent, EntryOf, TellsFirst
<1>5. OpenAlone' /\ TextsTold'
  BY <1>1, <1>3, <1>4 DEF StreamsInv, OpenAlone, Running, TextsTold, Sent, TellsFirst
<1>6. EndedTold' /\ TableHeld'
  BY <1>1 DEF StreamsInv, EndedTold, TellsFirst, TableHeld, Unfinished
<1> QED BY <1>2, <1>5, <1>6 DEF StreamsInv

\* The invariant shows what streams are to tell.
LEMMA StreamsInvShows == StreamsInv => StreamsSound
<1> SUFFICES ASSUME StreamsInv PROVE StreamsSound
  OBVIOUS
<1>1. StreamsTyped /\ EndedTold /\ TableHeld
  BY DEF StreamsInv
<1>2. CallsAsMade
  <2> SUFFICES ASSUME NEW s \in Stream, stream[s].at = "ended", s \notin mixed \/ kind = "google"
               PROVE stream[s].told = [i \in DOMAIN uttered[s] |->
                       IF kind = "google" THEN [id |-> i, args |-> "text"] ELSE [id |-> uttered[s][i].id, args |-> uttered[s][i].id]]
    BY DEF CallsAsMade
  <2>1. PICK m \in Nat : m = Len(uttered[s]) /\ DOMAIN uttered[s] = 1 .. m
    BY <1>1, LenProperties DEF StreamsTyped
  <2>2. TellsFirst(s, m)
    BY <1>1, <2>1 DEF EndedTold
  <2>3. PICK words \in Seq(Told) : words = stream[s].told
    BY <1>1 DEF StreamsTyped, StreamState
  <2>4. words = [i \in 1 .. m |-> words[i]]
    BY <2>2, <2>3, LenProperties DEF TellsFirst
  <2>5. \A i \in 1 .. m : words[i] = IF kind = "google" THEN [id |-> i, args |-> "text"] ELSE [id |-> uttered[s][i].id, args |-> uttered[s][i].id]
    BY <2>2, <2>3 DEF TellsFirst
  <2> QED BY <2>1, <2>3, <2>4, <2>5
<1>3. TableCleared
  <2>1. \A s \in Stream : Unfinished(s) => s \in Running
    BY DEF Unfinished, Running
  <2> QED BY <1>1, <2>1 DEF TableHeld, TableCleared
<1> QED BY <1>2, <1>3 DEF StreamsSound

\* A stream that has the client to itself tells the calls that its model makes, whatever
\* broke before; and none that was read to its end leaves anything in the table.
THEOREM StreamsTellCalls == StreamsSpec => []StreamsSound
<1>1. StreamsInv /\ [StreamsNext]_streams => StreamsInv'
  <2> SUFFICES ASSUME StreamsInv, [StreamsNext]_streams PROVE StreamsInv'
    OBVIOUS
  <2>1. CASE UNCHANGED streams
    BY <2>1, StreamsIdle
  <2>2. CASE StreamsNext
    <3>1. PICK s \in Stream :
            \/ \E speech \in Speech : OpenStream(s, speech)
            \/ OpenaiDelta(s) \/ OpenaiFinish(s) \/ OpenaiUsage(s)
            \/ BlockStart(s) \/ BlockDelta(s) \/ BlockStop(s) \/ MessageDelta(s) \/ MessageStop(s)
            \/ GoogleText(s) \/ Finalize(s) \/ Break(s)
      BY <2>2 DEF StreamsNext
    <3>2. OpenaiDelta(s) => Due(s) = "start" \/ Due(s) = "piece"
      BY DEF OpenaiDelta, Arrives
    <3> QED BY <3>1, <3>2, Opens, OpenaiStarts, OpenaiGrows, OpenaiEnds, OpenaiUsed, BlockStarts, BlockGrows, BlockStops,
               MessageEnds, MessageStops, TextGrows, Finalizes, Breaks
  <2> QED BY <2>1, <2>2
<1> QED BY StreamsStart, StreamsInvShows, <1>1, PTL DEF StreamsSpec

-----------------------------------------------------------------------------
\* The preferences, the calls and the streams together are as ProfilesAndCalls has it.
THEOREM ProfilesAndCallsSound == PrefsSpec /\ CallsSpec /\ StreamsSpec => []ProfilesAndCalls
<1>1. SettingsSound /\ CallsBounded /\ StreamsSound => ProfilesAndCalls
  BY DEF ProfilesAndCalls
<1> QED BY <1>1, SettingsStaySound, CallsStayBounded, StreamsTellCalls, PTL
=============================================================================
