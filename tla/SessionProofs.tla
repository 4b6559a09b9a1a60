---------------------------- MODULE SessionProofs -----------------------------
(*****************************************************************************)
(* What surrounds the pages of a crawl, for any number of pages, workers,    *)
(* deaths, requests, permits, slots and delays: where the content of a page  *)
(* is until it is in the file, when the supervisor gives up, what a run      *)
(* closes and tells when it ends; of                                         *)
(* the two semaphores of a fetch, that the permits of a domain agree with    *)
(* the counter beside them and none is lost (that the permits handed out are *)
(* enough is refuted, not proved), and that the permits and the slots of the *)
(* pool add up, senders are served, and the browsers are closed under nobody *)
(* but the tasks started while the pool was drained.                         *)
(*****************************************************************************)
EXTENDS PageOutput, WorkerWatch, CrawlRun, DomainThrottle, BrowserPool,
        FiniteSetTheorems, SequenceTheorems, TLAPS

-----------------------------------------------------------------------------
(* The records of one content                                                *)

\* A content occurs in a sequence of records, and at most once.
Holds(s, c) == \E k \in DOMAIN s : s[k] = c
AtMostOnce(s, c) == \A j, k \in DOMAIN s : s[j] = c /\ s[k] = c => j = k

\* The content is in the hands of a worker that has hashed it.
InHand(w, c) == where[w] = "record" /\ TextOf(w) = c

\* No sequence has it twice, and no two places have it.
OnePlace(c) ==
  /\ AtMostOnce(buffer, c) /\ AtMostOnce(file, c)
  /\ \A b \in writes : AtMostOnce(b.recs, c) /\ (Holds(b.recs, c) => ~Holds(buffer, c) /\ ~Holds(file, c))
  /\ ~(Holds(buffer, c) /\ Holds(file, c))
  /\ \A a, b \in writes : Holds(a.recs, c) /\ Holds(b.recs, c) => a = b

\* A worker that has it is the only one, and nobody else has.
HandAlone(c) ==
  \A w \in Crew : InHand(w, c) =>
    /\ ~Holds(buffer, c) /\ ~Holds(file, c)
    /\ \A b \in writes : ~Holds(b.recs, c)
    /\ \A v \in Crew : InHand(v, c) => v = w

Somewhere(c) ==
  \/ Holds(buffer, c) \/ Holds(file, c)
  \/ \E b \in writes : Holds(b.recs, c)
  \/ \E w \in Crew : InHand(w, c)

\* What is anywhere was hashed, and what was hashed is somewhere or lost.
HashKnows(c) ==
  /\ Somewhere(c) => c \in hashes
  /\ c \in hashes => Somewhere(c) \/ c \in missed

Traced == \A c \in Content \ {Blank} : OnePlace(c) /\ HandAlone(c) /\ HashKnows(c)

\* A page is completed, or on its way there, only after its text was hashed.
Hashed ==
  /\ \A p \in finished : ContentOf[p] \in hashes \cup {Blank}
  /\ \A w \in Crew : where[w] \in {"record", "flush", "complete"} => TextOf(w) \in hashes \cup {Blank}

\* Whoever waits for a write is at the flush it waits for; a batch is never empty.
Waited ==
  /\ \A b \in writes : b.recs # <<>> /\ (b.for \in Crew => where[b.for] = "flush")
  /\ \A a, b \in writes : a.for = b.for /\ a.for \in Crew => a = b

\* aclose has its flush to itself, and after it there is nothing left.
ClosesLast ==
  /\ closer = "flush" => mutex = "closer" /\ buffer = <<>> /\ \E b \in writes : writes = {b} /\ b.for = "closer"
  /\ closer # "flush" => mutex # "closer" /\ \A b \in writes : b.for # "closer"
  /\ closer \in {"closed", "crashed"} => buffer = <<>> /\ writes = {}
  /\ closer \in {"flush", "closed", "crashed"} => flusher = "dead"
  /\ closer = "crashed" => \A w \in Crew : where[w] = "out"

OutputInv == OutputTypeOK /\ Traced /\ Hashed /\ Waited /\ ClosesLast

-----------------------------------------------------------------------------
(* Sequences of records                                                      *)

\* The records of no batch, of one with a record more, of two batches after each
\* other, and of one without its first: what the steps of the writer do to content.
LEMMA HoldsEmpty == \A c : ~Holds(<<>>, c) /\ AtMostOnce(<<>>, c)
BY DEF Holds, AtMostOnce

\* A sequence with one content more holds that content too, and twice nothing it did not hold.
LEMMA HoldsAppend ==
  ASSUME NEW S, NEW s \in Seq(S), NEW e \in S, NEW c
  PROVE  /\ Holds(Append(s, e), c) <=> Holds(s, c) \/ e = c
         /\ AtMostOnce(s, c) /\ ~(Holds(s, c) /\ e = c) => AtMostOnce(Append(s, e), c)
<1> DEFINE t == Append(s, e)
<1>1. /\ t \in Seq(S) /\ Len(t) = Len(s) + 1 /\ Len(s) \in Nat
      /\ DOMAIN s = 1 .. Len(s) /\ DOMAIN t = 1 .. Len(s) + 1
      /\ \A i \in 1 .. Len(s) : t[i] = s[i]
      /\ t[Len(s) + 1] = e
  BY AppendProperties, LenProperties
<1> HIDE DEF t
<1>2. Holds(t, c) <=> Holds(s, c) \/ e = c
  BY <1>1 DEF Holds
<1>3. AtMostOnce(s, c) /\ ~(Holds(s, c) /\ e = c) => AtMostOnce(t, c)
  BY <1>1 DEF Holds, AtMostOnce
<1> QED
  BY <1>2, <1>3 DEF t

\* A sequence put behind another holds what both hold, and twice what both of them hold.
LEMMA HoldsConcat ==
  ASSUME NEW S, NEW s \in Seq(S), NEW r \in Seq(S), NEW c
  PROVE  /\ Holds(s \o r, c) <=> Holds(s, c) \/ Holds(r, c)
         /\ AtMostOnce(s, c) /\ AtMostOnce(r, c) /\ ~(Holds(s, c) /\ Holds(r, c)) => AtMostOnce(s \o r, c)
<1> DEFINE t == s \o r
           m == Len(s)
           n == Len(r)
<1>1. /\ t \in Seq(S) /\ Len(t) = m + n /\ m \in Nat /\ n \in Nat
      /\ DOMAIN s = 1 .. m /\ DOMAIN r = 1 .. n /\ DOMAIN t = 1 .. m + n
      /\ \A i \in 1 .. m + n : t[i] = IF i <= m THEN s[i] ELSE r[i - m]
  BY ConcatProperties, LenProperties
<1> HIDE DEF t, m, n
<1>2. Holds(s, c) => Holds(t, c)
  BY <1>1 DEF Holds
<1>3. Holds(r, c) => Holds(t, c)
  <2> SUFFICES ASSUME NEW k \in 1 .. n, r[k] = c PROVE Holds(t, c)
    BY <1>1 DEF Holds
  <2>1. k + m \in 1 .. m + n /\ ~(k + m <= m) /\ (k + m) - m = k
    BY <1>1
  <2>2. t[k + m] = c
    BY <1>1, <2>1
  <2> QED
    BY <1>1, <2>1, <2>2 DEF Holds
<1>4. ASSUME NEW i \in 1 .. m + n, t[i] = c
      PROVE  IF i <= m THEN i \in 1 .. m /\ s[i] = c /\ Holds(s, c) ELSE i - m \in 1 .. n /\ r[i - m] = c /\ Holds(r, c)
  <2>1. i <= m => i \in 1 .. m /\ s[i] = c
    BY <1>1, <1>4
  <2>2. ~(i <= m) => i - m \in 1 .. n /\ r[i - m] = c
    BY <1>1, <1>4
  <2> QED
    BY <1>1, <2>1, <2>2 DEF Holds
<1>5. AtMostOnce(s, c) /\ AtMostOnce(r, c) /\ ~(Holds(s, c) /\ Holds(r, c)) => AtMostOnce(t, c)
  <2> SUFFICES ASSUME AtMostOnce(s, c), AtMostOnce(r, c), ~(Holds(s, c) /\ Holds(r, c)),
                      NEW j \in 1 .. m + n, NEW k \in 1 .. m + n, t[j] = c, t[k] = c
               PROVE  j = k
    BY <1>1 DEF AtMostOnce
  <2>1. CASE j <= m /\ k <= m
    BY <1>1, <2>1 DEF AtMostOnce
  <2>2. CASE ~(j <= m) /\ ~(k <= m)
    <3>1. j - m \in 1 .. n /\ k - m \in 1 .. n /\ r[j - m] = c /\ r[k - m] = c
      BY <1>4, <2>2
    <3>2. j - m = k - m
      BY <1>1, <3>1 DEF AtMostOnce
    <3> QED
      BY <1>1, <3>2
  <2>3. (j <= m) <=> (k <= m)
    BY <1>4
  <2> QED
    BY <2>1, <2>2, <2>3
<1>6. Holds(t, c) => Holds(s, c) \/ Holds(r, c)
  BY <1>1, <1>4 DEF Holds
<1> QED
  BY <1>2, <1>3, <1>5, <1>6 DEF t

\* What a sequence loses with its head is that content only.
LEMMA HoldsTail ==
  ASSUME NEW S, NEW s \in Seq(S), s # <<>>, NEW c
  PROVE  /\ Holds(s, c) <=> Holds(Tail(s), c) \/ Head(s) = c
         /\ AtMostOnce(s, c) => AtMostOnce(Tail(s), c)
<1> DEFINE t == Tail(s)
           n == Len(s)
<1>1. /\ n \in Nat /\ n >= 1 /\ t \in Seq(S) /\ Len(t) = n - 1 /\ Head(s) = s[1]
      /\ DOMAIN s = 1 .. n /\ DOMAIN t = 1 .. n - 1
      /\ \A i \in 1 .. n - 1 : t[i] = s[i + 1]
  BY HeadTailProperties, LenProperties, EmptySeq
<1> HIDE DEF t, n
<1>2. Holds(t, c) \/ Head(s) = c => Holds(s, c)
  BY <1>1 DEF Holds
<1>3. Holds(s, c) => Holds(t, c) \/ Head(s) = c
  <2> SUFFICES ASSUME NEW k \in 1 .. n, s[k] = c, k # 1 PROVE Holds(t, c)
    BY <1>1 DEF Holds
  <2>1. k - 1 \in 1 .. n - 1 /\ (k - 1) + 1 = k
    BY <1>1
  <2>2. t[k - 1] = c
    BY <1>1, <2>1
  <2> QED
    BY <1>1, <2>1, <2>2 DEF Holds
<1>4. AtMostOnce(s, c) => AtMostOnce(t, c)
  <2> SUFFICES ASSUME AtMostOnce(s, c), NEW j \in 1 .. n - 1, NEW k \in 1 .. n - 1, t[j] = c, t[k] = c
               PROVE  j = k
    BY <1>1 DEF AtMostOnce
  <2>1. j + 1 \in 1 .. n /\ k + 1 \in 1 .. n /\ s[j + 1] = c /\ s[k + 1] = c
    BY <1>1
  <2>2. j + 1 = k + 1
    BY <1>1, <2>1 DEF AtMostOnce
  <2> QED
    BY <1>1, <2>2
<1> QED
  BY <1>2, <1>3, <1>4 DEF t

\* The content of a batch as a set is what the batch holds.
LEMMA HoldsSetOf == \A s, c : c \in SetOf(s) <=> Holds(s, c)
BY DEF SetOf, Holds

-----------------------------------------------------------------------------
(* The types, who waits for what, and what a page on its way has behind it   *)

Batches == [for : Holder \cup {"nobody"}, recs : Seq(Content)]

\* What a thread appends, and what it drops.
LEMMA AppendTypes ==
  ASSUME file \in Seq(Content), missed \subseteq Content, NEW r \in Seq(Content), r # <<>>, Append2File(r)
  PROVE  file' \in Seq(Content) /\ missed' \subseteq Content /\ torn' \in BOOLEAN
<1>1. Head(r) \in Content /\ Tail(r) \in Seq(Content)
  BY HeadTailProperties
<1>2. file \o Tail(r) \in Seq(Content) /\ file \o r \in Seq(Content)
  BY <1>1, ConcatProperties
<1> QED
  BY <1>1, <1>2 DEF Append2File

\* A leaf has a content.
LEMMA ContentKnown == \A p \in Leaf : ContentOf[p] \in Content
BY DEF Content

\* A run starts with nothing written.
LEMMA OutputStarts == OutputInit => OutputInv
<1> SUFFICES ASSUME OutputInit PROVE OutputInv
  OBVIOUS
<1>1. OutputTypeOK
  <2>1. (CHOOSE p \in Leaf : TRUE) \in Leaf
    BY OutputAssumption
  <2>2. <<>> \in Seq(Content) /\ Len(<<>>) = 0
    BY EmptySeq
  <2>3. leaf \in [Crew -> Leaf] /\ where \in [Crew -> {"out", "hash", "record", "flush", "complete"}]
    BY <2>1 DEF OutputInit
  <2>4. starts \in 1 .. MaxStarts /\ troubles \in 0 .. MaxTroubles /\ Len(buffer) < BufferSize
    BY <2>2, OutputAssumption DEF OutputInit
  <2> QED
    BY <2>2, <2>3, <2>4 DEF OutputInit, OutputTypeOK
<1>2. Traced
  BY HoldsEmpty DEF OutputInit, Traced, OnePlace, HandAlone, HashKnows, Somewhere, InHand
<1> QED
  BY <1>1, <1>2 DEF OutputInit, OutputInv, Hashed, Waited, ClosesLast

\* Every step of a worker, the flusher and the closer keeps the types.
LEMMA OutputTypeStep == OutputInv /\ [OutputNext]_output => OutputTypeOK'
<1> SUFFICES ASSUME OutputInv, [OutputNext]_output PROVE OutputTypeOK'
  OBVIOUS
<1> USE DEF OutputInv
<1>t. OutputTypeOK
  OBVIOUS
<1>w. \A b \in writes : b \in Batches /\ b.recs \in Seq(Content) /\ b.recs # <<>> /\ b.for \in Holder \cup {"nobody"}
  BY DEF OutputTypeOK, Waited, Batches
<1>h. \A w \in Crew : TextOf(w) \in Content
  BY ContentKnown DEF OutputTypeOK, TextOf
<1>e. <<>> \in Seq(Content) /\ Len(<<>>) = 0
  BY EmptySeq
<1>1. ASSUME NEW w \in Crew, NEW p \in Leaf, Start1(w, p) PROVE OutputTypeOK'
  BY <1>1 DEF Start1, OutputTypeOK, tables, out, bounds
<1>2. ASSUME NEW w \in Crew, AddContentHash(w) PROVE OutputTypeOK'
  BY <1>2, <1>h DEF AddContentHash, GoOn, OutputTypeOK, out, bounds
<1>3. ASSUME NEW w \in Crew, WriteRecord(w) PROVE OutputTypeOK'
  <2>1. Append(buffer, TextOf(w)) \in Seq(Content) /\ Len(Append(buffer, TextOf(w))) = Len(buffer) + 1 /\ Len(buffer) \in Nat
    BY <1>h, AppendProperties, LenProperties DEF OutputTypeOK
  <2>2. w \in Holder
    BY DEF Holder
  <2> DEFINE t == Append(buffer, TextOf(w))
  <2> HIDE DEF t
  <2>3. CASE closer \in {"flush", "closed"}
    BY <1>3, <2>3, <1>h DEF WriteRecord, GoOn, OutputTypeOK, tables, bounds
  <2>4. CASE closer \notin {"flush", "closed"} /\ Len(buffer) + 1 >= BufferSize
    <3>1. writes' = writes \cup {[for |-> w, recs |-> t]} /\ mutex' = w /\ UNCHANGED <<file, torn, missed, tables, flusher, closer, bounds>>
      BY <1>3, <2>4 DEF WriteRecord, Flush, t
    <3>2. t \in Seq(Content)
      BY <2>1 DEF t
    <3>3. Len(buffer') < BufferSize /\ buffer' \in Seq(Content)
      BY <1>3, <2>4, <1>e, OutputAssumption DEF WriteRecord, Flush
    <3>4. where' = [where EXCEPT ![w] = "flush"] /\ leaf' = leaf
      BY <1>3, <2>4 DEF WriteRecord, GoOn
    <3>5. writes' \subseteq [for : Holder \cup {"nobody"}, recs : Seq(Content)]
      BY <3>1, <3>2, <2>2 DEF OutputTypeOK
    <3> QED
      BY <3>1, <3>3, <3>4, <3>5, <2>2 DEF OutputTypeOK, tables, bounds
  <2>5. CASE closer \notin {"flush", "closed"} /\ ~(Len(buffer) + 1 >= BufferSize)
    <3>1. Len(buffer') < BufferSize /\ buffer' \in Seq(Content)
      BY <1>3, <2>5, <2>1, OutputAssumption DEF WriteRecord
    <3>2. UNCHANGED <<writes, file, torn, missed, mutex, tables, flusher, closer, bounds>>
      BY <1>3, <2>5 DEF WriteRecord
    <3>3. where' = [where EXCEPT ![w] = "complete"] /\ leaf' = leaf
      BY <1>3, <2>5 DEF WriteRecord, GoOn
    <3> QED
      BY <3>1, <3>2, <3>3 DEF OutputTypeOK, tables, bounds
  <2> QED
    BY <2>3, <2>4, <2>5
<1>4. ASSUME NEW w \in Crew, Complete(w) PROVE OutputTypeOK'
  BY <1>4 DEF Complete, GoOn, OutputTypeOK, out, bounds
<1>5. ASSUME NEW w \in Crew, WorkerCut(w) PROVE OutputTypeOK'
  <2>1. writes' \subseteq Batches
    BY <1>5, <1>w DEF WorkerCut, Batches
  <2>2. troubles' \in 0 .. MaxTroubles
    BY <1>5, OutputAssumption DEF WorkerCut, Trouble, OutputTypeOK
  <2>3. missed' \subseteq Content /\ hashes' \subseteq Content /\ finished' \subseteq Leaf
    BY <1>5, <1>h DEF WorkerCut, OutputTypeOK
  <2>4. where' \in [Crew -> {"out", "hash", "record", "flush", "complete"}] /\ leaf' \in [Crew -> Leaf]
    BY <1>5 DEF WorkerCut, GoOn, OutputTypeOK
  <2>5. mutex' \in Holder \cup {"free"} /\ UNCHANGED <<buffer, file, torn, flusher, closer, starts, broken>>
    BY <1>5 DEF WorkerCut, Trouble, OutputTypeOK
  <2> QED
    BY <2>1, <2>2, <2>3, <2>4, <2>5 DEF OutputTypeOK, Batches
<1>6. ASSUME NEW b \in writes, Written(b) \/ WriteFails(b) PROVE OutputTypeOK'
  <2>1. file' \in Seq(Content) /\ missed' \subseteq Content /\ torn' \in BOOLEAN
    <3>1. CASE Written(b)
      BY <3>1, <1>w, AppendTypes DEF Written, OutputTypeOK
    <3>2. CASE WriteFails(b)
      <4>1. SetOf(b.recs) \subseteq Content
        BY <1>w, ElementOfSeq, LenProperties DEF SetOf
      <4> QED
        BY <3>2, <4>1 DEF WriteFails, OutputTypeOK
    <3> QED
      BY <1>6, <3>1, <3>2
  <2>2. writes' \subseteq writes /\ UNCHANGED <<hashes, finished, buffer, starts, leaf>>
    BY <1>6 DEF Written, WriteFails, OwnerResumes, tables, bounds
  <2>3. where' \in [Crew -> {"out", "hash", "record", "flush", "complete"}]
    BY <1>6 DEF Written, WriteFails, OwnerResumes, OutputTypeOK
  <2>4. mutex' \in Holder \cup {"free"} /\ closer' \in {"off", "wait", "flush", "closed", "crashed"}
    BY <1>6 DEF Written, WriteFails, OwnerResumes, OutputTypeOK
  <2>5. flusher' \in {"asleep", "flush", "last", "dead"} /\ troubles' \in 0 .. MaxTroubles /\ broken' \in BOOLEAN
    <3>1. flusher' \in {"asleep", "flush", "last", "dead"}
      BY <1>6 DEF Written, WriteFails, OutputTypeOK
    <3>2. CASE Written(b)
      BY <3>1, <3>2 DEF Written, OutputTypeOK, bounds
    <3>3. CASE WriteFails(b)
      BY <3>1, <3>3, OutputAssumption DEF WriteFails, OutputTypeOK
    <3> QED
      BY <1>6, <3>2, <3>3
  <2> QED
    BY <2>1, <2>2, <2>3, <2>4, <2>5 DEF OutputTypeOK
<1>7. CASE Wake \/ CloseFile
  <2>1. "flusher" \in Holder /\ "closer" \in Holder
    BY DEF Holder
  <2>2. buffer' \in Seq(Content) /\ Len(buffer') < BufferSize
    <3>1. buffer' = <<>> \/ buffer' = buffer
      BY <1>7 DEF Wake, CloseFile, Flush, out
    <3>2. CASE buffer' = <<>>
      BY <3>2, <1>e, OutputAssumption
    <3>3. CASE buffer' = buffer
      BY <3>3 DEF OutputTypeOK
    <3> QED
      BY <3>1, <3>2, <3>3
  <2>3. writes' \subseteq [for : Holder \cup {"nobody"}, recs : Seq(Content)] /\ mutex' \in Holder \cup {"free"}
    BY <1>7, <2>1 DEF Wake, CloseFile, Flush, OutputTypeOK, out
  <2>4. UNCHANGED <<hashes, finished, where, leaf, file, torn, missed, starts, troubles, broken>>
    BY <1>7 DEF Wake, CloseFile, Flush, tables, crew, bounds, out
  <2>5. flusher' \in {"asleep", "flush", "last", "dead"} /\ closer' \in {"off", "wait", "flush", "closed", "crashed"}
    BY <1>7 DEF Wake, CloseFile, OutputTypeOK
  <2> QED
    BY <2>2, <2>3, <2>4, <2>5 DEF OutputTypeOK
<1>8. CASE Close
  <2>1. writes' \subseteq Batches
    BY <1>8, <1>w DEF Close, Batches
  <2> QED
    BY <1>8, <2>1 DEF Close, OutputTypeOK, Batches, tables, crew, bounds
<1>9. CASE ProcessDies
  <2>1. \A r \in Seq(Content) : SetOf(r) \subseteq Content
    BY ElementOfSeq, LenProperties DEF SetOf
  <2>2. missed' \subseteq Content
    <3>1. SetOf(buffer) \subseteq Content /\ \A b \in writes : SetOf(b.recs) \subseteq Content
      BY <2>1, <1>w DEF OutputTypeOK
    <3>2. UNION {SetOf(b.recs) : b \in writes} \subseteq Content
      BY <3>1
    <3>3. {TextOf(w) : w \in {v \in Crew : where[v] = "record"}} \subseteq Content
      BY <1>h
    <3>4. missed \subseteq Content
      BY DEF OutputTypeOK
    <3> DEFINE inWrites == UNION {SetOf(b.recs) : b \in writes}
               carried == {TextOf(w) : w \in {v \in Crew : where[v] = "record"}}
    <3>5. missed' = missed \cup SetOf(buffer) \cup inWrites \cup carried
      BY <1>9 DEF ProcessDies
    <3> HIDE DEF inWrites, carried
    <3> QED
      BY <3>1, <3>2, <3>3, <3>4, <3>5 DEF inWrites, carried
  <2>3. troubles' \in 0 .. MaxTroubles /\ torn' \in BOOLEAN
    <3>1. troubles' \in 0 .. MaxTroubles
      BY <1>9, OutputAssumption DEF ProcessDies, Trouble, OutputTypeOK
    <3>2. torn' \in BOOLEAN
      BY <1>9 DEF ProcessDies, OutputTypeOK
    <3> QED
      BY <3>1, <3>2
  <2>4. UNCHANGED <<hashes, finished, leaf, file, starts, broken>>
    BY <1>9 DEF ProcessDies, Trouble, tables
  <2> QED
    BY <1>9, <2>2, <2>3, <2>4, <1>e, OutputAssumption DEF ProcessDies, OutputTypeOK, tables
<1>10. CASE StartAgain
  <2>1. starts' \in 1 .. MaxStarts
    BY <1>10, OutputAssumption DEF StartAgain, OutputTypeOK
  <2>2. hashes' \subseteq Content /\ finished' \subseteq Leaf /\ file' \in Seq(Content) /\ torn' \in BOOLEAN /\ missed' \subseteq Content
    BY <1>10, <1>e DEF StartAgain, OutputTypeOK, tables
  <2> QED
    BY <1>10, <2>1, <2>2 DEF StartAgain, OutputTypeOK, crew
<1>11. CASE UNCHANGED output
  BY <1>11 DEF output, OutputTypeOK, tables, crew, out, bounds
<1> QED
  BY <1>1, <1>2, <1>3, <1>4, <1>5, <1>6, <1>7, <1>8, <1>9, <1>10, <1>11 DEF OutputNext, CrewStep, WriterStep

\* A content counts as seen as long as it is anywhere.
LEMMA HashedStep == OutputInv /\ [OutputNext]_output => Hashed'
<1> SUFFICES ASSUME OutputInv, [OutputNext]_output PROVE Hashed'
  OBVIOUS
<1> USE DEF OutputInv, Hashed
<1>t. where \in [Crew -> {"out", "hash", "record", "flush", "complete"}] /\ leaf \in [Crew -> Leaf]
  BY DEF OutputTypeOK
<1>h. \A w \in Crew : TextOf(w) = ContentOf[leaf[w]]
  BY DEF TextOf
<1> USE <1>t, <1>h
<1>1. ASSUME NEW w \in Crew, NEW p \in Leaf, Start1(w, p) PROVE Hashed'
  BY <1>1 DEF Start1, TextOf, tables
<1>2. ASSUME NEW w \in Crew, AddContentHash(w) PROVE Hashed'
  BY <1>2 DEF AddContentHash, GoOn, TextOf
<1>3. ASSUME NEW w \in Crew, WriteRecord(w) PROVE Hashed'
  <2>1. hashes' = hashes /\ finished' = finished /\ leaf' = leaf
    BY <1>3 DEF WriteRecord, GoOn, tables
  <2>2. where[w] = "record" /\ \A v \in Crew \ {w} : where'[v] = where[v]
    BY <1>3 DEF WriteRecord, GoOn
  <2> QED
    BY <2>1, <2>2 DEF TextOf
<1>4. ASSUME NEW w \in Crew, Complete(w) PROVE Hashed'
  BY <1>4 DEF Complete, GoOn, TextOf
<1>5. ASSUME NEW w \in Crew, WorkerCut(w) PROVE Hashed'
  <2>1. leaf' = leaf /\ hashes \subseteq hashes' /\ where' = [where EXCEPT ![w] = "out"]
    BY <1>5 DEF WorkerCut, GoOn
  <2>2. finished' \subseteq finished \cup IF where[w] = "complete" THEN {leaf[w]} ELSE {}
    BY <1>5 DEF WorkerCut
  <2> QED
    BY <2>1, <2>2 DEF TextOf
<1>6. ASSUME NEW b \in writes, Written(b) \/ WriteFails(b) PROVE Hashed'
  <2>1. leaf' = leaf /\ hashes' = hashes /\ finished' = finished
    BY <1>6 DEF Written, WriteFails, OwnerResumes, tables
  <2>2. \A w \in Crew : where'[w] = where[w] \/ (b.for = w /\ where'[w] \in {"out", "complete"})
    BY <1>6 DEF Written, WriteFails, OwnerResumes
  <2>3. \A w \in Crew : b.for = w => where[w] = "flush"
    BY DEF Waited
  <2> QED
    BY <2>1, <2>2, <2>3 DEF TextOf
<1>7. CASE Wake \/ CloseFile \/ Close
  BY <1>7 DEF Wake, CloseFile, Close, TextOf, tables, crew
<1>8. CASE ProcessDies
  BY <1>8 DEF ProcessDies, tables
<1>9. CASE StartAgain
  BY <1>9 DEF StartAgain, tables, crew, TextOf
<1>10. CASE UNCHANGED output
  BY <1>10 DEF output, tables, crew, TextOf
<1> QED
  BY <1>1, <1>2, <1>3, <1>4, <1>5, <1>6, <1>7, <1>8, <1>9, <1>10 DEF OutputNext, CrewStep, WriterStep

\* The lock has one holder, and the closer takes what is left when the workers are gone.
LEMMA WaitedStep == OutputInv /\ [OutputNext]_output => (Waited /\ ClosesLast)'
<1> SUFFICES ASSUME OutputInv, [OutputNext]_output PROVE (Waited /\ ClosesLast)'
  OBVIOUS
<1> USE DEF OutputInv, Waited, ClosesLast
<1>t. where \in [Crew -> {"out", "hash", "record", "flush", "complete"}] /\ buffer \in Seq(Content)
  BY DEF OutputTypeOK
<1>n. "flusher" \notin Crew /\ "closer" \notin Crew /\ "nobody" \notin Crew /\ "free" \notin Crew
  BY OutputAssumption
<1>h. \A w \in Crew : TextOf(w) \in Content
  BY ContentKnown DEF OutputTypeOK, TextOf
<1>w. \A b \in writes : b \in Batches
  BY DEF OutputTypeOK, Batches
<1> USE <1>t, <1>n
<1>1. ASSUME NEW w \in Crew, NEW p \in Leaf, Start1(w, p) PROVE (Waited /\ ClosesLast)'
  BY <1>1 DEF Start1, out, Up
<1>2. ASSUME NEW w \in Crew, AddContentHash(w) PROVE (Waited /\ ClosesLast)'
  BY <1>2 DEF AddContentHash, GoOn, out
<1>3. ASSUME NEW w \in Crew, WriteRecord(w) PROVE (Waited /\ ClosesLast)'
  <2>1. Append(buffer, TextOf(w)) # <<>>
    BY <1>h, AppendProperties
  <2>2. closer' = closer /\ flusher' = flusher /\ closer # "crashed" /\ where[w] = "record" /\ mutex = "free"
    BY <1>3 DEF WriteRecord
  <2>3. CASE closer \in {"flush", "closed"}
    BY <1>3, <2>2, <2>3 DEF WriteRecord, GoOn
  <2>4. CASE closer \notin {"flush", "closed"} /\ Len(buffer) + 1 >= BufferSize
    <3>1. where' = [where EXCEPT ![w] = "flush"] /\ mutex' = w
          /\ writes' = writes \cup {[for |-> w, recs |-> Append(buffer, TextOf(w))]}
      BY <1>3, <2>4 DEF WriteRecord, GoOn, Flush
    <3> QED
      BY <2>1, <2>2, <2>4, <3>1
  <2>5. CASE closer \notin {"flush", "closed"} /\ ~(Len(buffer) + 1 >= BufferSize)
    BY <1>3, <2>2, <2>5 DEF WriteRecord, GoOn
  <2> QED
    BY <2>3, <2>4, <2>5
<1>4. ASSUME NEW w \in Crew, Complete(w) PROVE (Waited /\ ClosesLast)'
  BY <1>4 DEF Complete, GoOn, out
<1>5. ASSUME NEW w \in Crew, WorkerCut(w) PROVE (Waited /\ ClosesLast)'
  <2>1. where' = [where EXCEPT ![w] = "out"] /\ UNCHANGED <<buffer, flusher, closer>> /\ where[w] # "out"
        /\ mutex' = IF mutex = w THEN "free" ELSE mutex
    BY <1>5 DEF WorkerCut, GoOn
  <2> DEFINE left(b) == IF b.for = w THEN [b EXCEPT !.for = "nobody"] ELSE b
  <2>2. writes' = {left(b) : b \in writes}
    BY <1>5 DEF WorkerCut
  <2>3. \A b \in writes : /\ left(b).recs = b.recs
                          /\ left(b).for = IF b.for = w THEN "nobody" ELSE b.for
                          /\ b.for # w => left(b) = b
    BY <1>w DEF Batches
  <2> HIDE DEF left
  <2>4. Waited'
    BY <2>1, <2>2, <2>3
  <2>5. ClosesLast'
    <3>1. CASE closer = "flush"
      BY <2>1, <2>2, <2>3, <3>1
    <3>2. CASE closer # "flush"
      BY <2>1, <2>2, <2>3, <3>2
    <3> QED
      BY <3>1, <3>2
  <2> QED
    BY <2>4, <2>5
<1>6. ASSUME NEW b \in writes, Written(b) \/ WriteFails(b) PROVE (Waited /\ ClosesLast)'
  <2>1. writes' = writes \ {b} /\ buffer' = buffer
    BY <1>6 DEF Written, WriteFails
  <2>2. \A w \in Crew : b.for # w => where'[w] = where[w]
    BY <1>6 DEF Written, WriteFails, OwnerResumes
  <2>3. mutex' \in {mutex, "free"} /\ closer' = IF b.for = "closer" THEN "closed" ELSE closer
    BY <1>6 DEF Written, WriteFails, OwnerResumes
  <2>4. flusher = "dead" => flusher' = "dead" \/ b.for = "flusher"
    BY <1>6 DEF Written, WriteFails
  <2>5. Waited'
    BY <2>1, <2>2
  <2>6. ClosesLast'
    <3>1. CASE closer = "flush"
      <4>1. writes = {b} /\ b.for = "closer"
        BY <3>1
      <4>2. writes' = {} /\ closer' = "closed" /\ mutex' = "free"
        BY <4>1, <2>1, <2>3, <1>6 DEF Written, WriteFails, OwnerResumes
      <4> QED
        BY <4>1, <4>2, <2>1, <2>4, <3>1
    <3>2. CASE closer # "flush"
      <4>1. closer' = closer /\ closer \notin {"closed", "crashed"} /\ b.for # "closer"
        BY <3>2, <2>3
      <4> QED
        BY <4>1, <2>1, <2>3, <3>2
    <3> QED
      BY <3>1, <3>2
  <2> QED
    BY <2>5, <2>6
<1>7. CASE Wake
  <2>1. closer \in {"off", "wait", "flush", "closed"} /\ flusher # "dead" /\ mutex = "free" /\ UNCHANGED <<where, closer>>
    BY <1>7 DEF Wake, Up, OutputTypeOK, crew
  <2>2. CASE buffer = <<>>
    BY <1>7, <2>1, <2>2 DEF Wake, out
  <2>3. CASE buffer # <<>>
    BY <1>7, <2>1, <2>3 DEF Wake, Flush
  <2> QED
    BY <2>2, <2>3
<1>8. CASE CloseFile
  <2>1. CASE buffer = <<>>
    BY <1>8, <2>1 DEF CloseFile, crew, out
  <2>2. CASE buffer # <<>>
    <3> DEFINE b == [for |-> "closer", recs |-> buffer]
    <3>1. writes' = {b} /\ buffer' = <<>> /\ mutex' = "closer" /\ closer' = "flush" /\ flusher' = "dead" /\ where' = where
      BY <1>8, <2>2 DEF CloseFile, Flush, crew
    <3>2. b.for = "closer" /\ b.recs # <<>>
      BY <2>2
    <3> HIDE DEF b
    <3> QED
      BY <3>1, <3>2
  <2> QED
    BY <2>1, <2>2
<1>9. CASE Close
  <2> DEFINE left(b) == IF b.for = "flusher" THEN [b EXCEPT !.for = "nobody"] ELSE b
  <2>1. writes' = {left(b) : b \in writes}
    BY <1>9 DEF Close
  <2>2. \A b \in writes : /\ left(b).recs = b.recs
                          /\ left(b).for = IF b.for = "flusher" THEN "nobody" ELSE b.for
                          /\ b.for # "flusher" => left(b) = b
    BY <1>w DEF Batches
  <2>3. closer = "off" /\ closer' = "wait" /\ UNCHANGED <<where, buffer>> /\ mutex' \in {mutex, "free"}
    BY <1>9 DEF Close, crew
  <2> HIDE DEF left
  <2> QED
    BY <2>1, <2>2, <2>3
<1>10. CASE ProcessDies
  BY <1>10 DEF ProcessDies
<1>11. CASE StartAgain
  BY <1>11 DEF StartAgain, crew
<1>12. CASE UNCHANGED output
  BY <1>12 DEF output, crew, out
<1> QED
  BY <1>1, <1>2, <1>3, <1>4, <1>5, <1>6, <1>7, <1>8, <1>9, <1>10, <1>11, <1>12 DEF OutputNext, CrewStep, WriterStep

-----------------------------------------------------------------------------
(* Where content is                                                          *)

\* Of the four places a content may be at, a step moves it from one to another or
\* loses it; the facts about sequences above say which.
LEMMA TracedStep == OutputInv /\ [OutputNext]_output => Traced'
<1> SUFFICES ASSUME OutputInv, [OutputNext]_output, NEW c \in Content \ {Blank}
             PROVE  (OnePlace(c) /\ HandAlone(c) /\ HashKnows(c))'
  BY DEF Traced
<1> DEFINE Good == OnePlace(c) /\ HandAlone(c) /\ HashKnows(c)
<1>g. Good
  BY DEF OutputInv, Traced
<1>t. /\ where \in [Crew -> {"out", "hash", "record", "flush", "complete"}] /\ leaf \in [Crew -> Leaf]
      /\ buffer \in Seq(Content) /\ file \in Seq(Content)
  BY DEF OutputInv, OutputTypeOK
<1>h. \A w \in Crew : TextOf(w) \in Content /\ TextOf(w) = ContentOf[leaf[w]]
  BY ContentKnown DEF OutputInv, OutputTypeOK, TextOf
<1>w. \A b \in writes : b \in Batches /\ b.recs \in Seq(Content) /\ b.recs # <<>>
  BY DEF OutputInv, OutputTypeOK, Waited, Batches
<1> USE DEF OnePlace, HandAlone, HashKnows, Somewhere, InHand
<1>1. ASSUME NEW w \in Crew, NEW p \in Leaf, Start1(w, p) PROVE Good'
  <2>1. \A v \in Crew : InHand(v, c)' <=> InHand(v, c)
    BY <1>1, <1>t, <1>h DEF Start1, TextOf
  <2>2. UNCHANGED <<hashes, buffer, writes, file, missed>>
    BY <1>1 DEF Start1, tables, out
  <2> QED
    BY <2>1, <2>2, <1>g
<1>2. ASSUME NEW w \in Crew, AddContentHash(w) PROVE Good'
  <2>1. UNCHANGED <<buffer, writes, file, missed, leaf>> /\ hashes' = hashes \cup ({TextOf(w)} \ {Blank})
    BY <1>2 DEF AddContentHash, GoOn, out
  <2>2. \A v \in Crew : InHand(v, c)' <=> InHand(v, c) \/ (v = w /\ TextOf(w) = c /\ c \notin hashes)
    BY <1>2, <1>t, <1>h DEF AddContentHash, GoOn, TextOf
  <2> QED
    BY <2>1, <2>2, <1>g
<1>3. ASSUME NEW w \in Crew, WriteRecord(w) PROVE Good'
  <2> DEFINE t == Append(buffer, TextOf(w))
  <2>1. hashes' = hashes /\ leaf' = leaf /\ where[w] = "record"
    BY <1>3 DEF WriteRecord, GoOn, tables
  <2>2. \A v \in Crew : InHand(v, c)' <=> InHand(v, c) /\ v # w
    BY <1>3, <1>t, <1>h DEF WriteRecord, GoOn, TextOf
  <2>3. /\ Holds(t, c) <=> Holds(buffer, c) \/ TextOf(w) = c
        /\ AtMostOnce(buffer, c) /\ ~(Holds(buffer, c) /\ TextOf(w) = c) => AtMostOnce(t, c)
    BY <1>t, <1>h, HoldsAppend
  <2>4. InHand(w, c) <=> TextOf(w) = c
    BY <2>1
  <2> HIDE DEF t
  <2>5. CASE closer \in {"flush", "closed"}
    <3>1. UNCHANGED <<buffer, writes, file>> /\ missed' = missed \cup {TextOf(w)}
      BY <1>3, <2>5 DEF WriteRecord
    <3> QED
      BY <3>1, <2>1, <2>2, <2>4, <1>g
  <2>6. CASE closer \notin {"flush", "closed"} /\ Len(buffer) + 1 >= BufferSize
    <3> DEFINE b == [for |-> w, recs |-> t]
    <3>1. buffer' = <<>> /\ writes' = writes \cup {b} /\ UNCHANGED <<file, missed>>
      BY <1>3, <2>6 DEF WriteRecord, Flush, t
    <3>2. b.recs = t
      OBVIOUS
    <3> HIDE DEF b
    <3>3. ~Holds(<<>>, c) /\ AtMostOnce(<<>>, c)
      BY HoldsEmpty
    <3> QED
      BY <3>1, <3>2, <3>3, <2>1, <2>2, <2>3, <2>4, <1>g
  <2>7. CASE closer \notin {"flush", "closed"} /\ ~(Len(buffer) + 1 >= BufferSize)
    <3>1. buffer' = t /\ UNCHANGED <<writes, file, missed>>
      BY <1>3, <2>7 DEF WriteRecord, t
    <3> QED
      BY <3>1, <2>1, <2>2, <2>3, <2>4, <1>g
  <2> QED
    BY <2>5, <2>6, <2>7
<1>4. ASSUME NEW w \in Crew, Complete(w) PROVE Good'
  <2>1. \A v \in Crew : InHand(v, c)' <=> InHand(v, c)
    BY <1>4, <1>t, <1>h DEF Complete, GoOn, TextOf
  <2>2. UNCHANGED <<hashes, buffer, writes, file, missed>>
    BY <1>4 DEF Complete, out
  <2> QED
    BY <2>1, <2>2, <1>g
<1>5. ASSUME NEW w \in Crew, WorkerCut(w) PROVE Good'
  <2> DEFINE left(b) == IF b.for = w THEN [b EXCEPT !.for = "nobody"] ELSE b
  <2>1. writes' = {left(b) : b \in writes} /\ UNCHANGED <<buffer, file>>
    BY <1>5 DEF WorkerCut
  <2>2. \A b \in writes : left(b).recs = b.recs
    BY <1>w DEF Batches
  <2>3. \A v \in Crew : InHand(v, c)' <=> InHand(v, c) /\ v # w
    BY <1>5, <1>t, <1>h DEF WorkerCut, GoOn, TextOf
  <2>4. /\ hashes \subseteq hashes' /\ missed \subseteq missed'
        /\ c \in hashes' \ hashes => c \in missed'
        /\ InHand(w, c) => c \in missed'
    BY <1>5 DEF WorkerCut
  <2> HIDE DEF left
  <2>5. OnePlace(c)' /\ HandAlone(c)'
    BY <2>1, <2>2, <2>3, <1>g
  <2>6. Somewhere(c)' \/ InHand(w, c) <=> Somewhere(c)
    BY <2>1, <2>2, <2>3
  <2> QED
    BY <2>4, <2>5, <2>6, <1>g
<1>6. ASSUME NEW b \in writes, Written(b) PROVE Good'
  <2>1. hashes' = hashes /\ buffer' = buffer /\ writes' = writes \ {b} /\ leaf' = leaf
    BY <1>6 DEF Written, OwnerResumes, tables
  <2>2. \A v \in Crew : InHand(v, c)' <=> InHand(v, c)
    BY <1>6, <1>t, <1>h DEF Written, OwnerResumes, TextOf, OutputInv, Waited
  <2> DEFINE r == b.recs
             rest == Tail(r)
             first == Head(r)
  <2>3. r \in Seq(Content) /\ r # <<>> /\ rest \in Seq(Content)
    BY <1>w, HeadTailProperties
  <2>4. /\ Holds(r, c) <=> Holds(rest, c) \/ first = c
        /\ AtMostOnce(r, c) => AtMostOnce(rest, c)
    BY <2>3, HoldsTail
  <2>5. \A s \in {r, rest} :
          /\ Holds(file \o s, c) <=> Holds(file, c) \/ Holds(s, c)
          /\ AtMostOnce(file, c) /\ AtMostOnce(s, c) /\ ~(Holds(file, c) /\ Holds(s, c)) => AtMostOnce(file \o s, c)
    <3>1. ASSUME NEW s \in Seq(Content)
          PROVE  /\ Holds(file \o s, c) <=> Holds(file, c) \/ Holds(s, c)
                 /\ AtMostOnce(file, c) /\ AtMostOnce(s, c) /\ ~(Holds(file, c) /\ Holds(s, c)) => AtMostOnce(file \o s, c)
      BY <1>t, HoldsConcat
    <3> HIDE DEF rest
    <3> QED
      BY <2>3, <3>1
  <2> HIDE DEF rest, first
  <2>6. CASE torn
    <3>1. file' = file \o rest /\ missed' = missed \cup {first}
      BY <1>6, <2>6 DEF Written, Append2File, rest, first
    <3> QED
      BY <3>1, <2>1, <2>2, <2>4, <2>5, <1>g
  <2>7. CASE ~torn
    <3>1. file' = file \o r /\ missed' = missed
      BY <1>6, <2>7 DEF Written, Append2File
    <3> QED
      BY <3>1, <2>1, <2>2, <2>5, <1>g
  <2> QED
    BY <2>6, <2>7 DEF OutputInv, OutputTypeOK
<1>7. ASSUME NEW b \in writes, WriteFails(b) PROVE Good'
  <2>1. hashes' = hashes /\ buffer' = buffer /\ file' = file /\ writes' = writes \ {b} /\ missed' = missed \cup SetOf(b.recs)
    BY <1>7 DEF WriteFails, tables
  <2>2. \A v \in Crew : InHand(v, c)' <=> InHand(v, c)
    BY <1>7, <1>t, <1>h DEF WriteFails, OwnerResumes, TextOf, OutputInv, Waited
  <2> QED
    BY <2>1, <2>2, <1>g, HoldsSetOf
<1>8. CASE Wake \/ CloseFile
  <2>1. UNCHANGED <<hashes, where, leaf, file, missed>>
    BY <1>8 DEF Wake, CloseFile, Flush, tables, crew, out
  <2>2. \A v \in Crew : InHand(v, c)' <=> InHand(v, c)
    BY <2>1 DEF TextOf
  <2>3. CASE buffer = <<>>
    <3>1. UNCHANGED <<buffer, writes>>
      BY <1>8, <2>3 DEF Wake, CloseFile, out
    <3> QED
      BY <3>1, <2>1, <2>2, <1>g
  <2>4. CASE buffer # <<>>
    <3>1. PICK o \in {"flusher", "closer"} : Flush(o, buffer)
      BY <1>8, <2>4 DEF Wake, CloseFile
    <3> DEFINE b == [for |-> o, recs |-> buffer]
    <3>2. buffer' = <<>> /\ writes' = writes \cup {b} /\ b.recs = buffer
      BY <3>1 DEF Flush
    <3> HIDE DEF b
    <3> QED
      BY <3>2, <2>1, <2>2, <1>g, HoldsEmpty
  <2> QED
    BY <2>3, <2>4
<1>9. CASE Close
  <2> DEFINE left(b) == IF b.for = "flusher" THEN [b EXCEPT !.for = "nobody"] ELSE b
  <2>1. writes' = {left(b) : b \in writes} /\ UNCHANGED <<hashes, where, leaf, buffer, file, missed>>
    BY <1>9 DEF Close, tables, crew
  <2>2. \A b \in writes : left(b).recs = b.recs
    BY <1>w DEF Batches
  <2>3. \A v \in Crew : InHand(v, c)' <=> InHand(v, c)
    BY <2>1 DEF TextOf
  <2> HIDE DEF left
  <2>4. OnePlace(c)' /\ HandAlone(c)'
    BY <2>1, <2>2, <2>3, <1>g
  <2>5. Somewhere(c)' <=> Somewhere(c)
    BY <2>1, <2>2, <2>3
  <2> QED
    BY <2>1, <2>4, <2>5, <1>g
<1>10. CASE ProcessDies
  <2>1. buffer' = <<>> /\ writes' = {} /\ hashes' = hashes /\ file' = file /\ where' = [w \in Crew |-> "out"]
    BY <1>10 DEF ProcessDies, tables
  <2>2. /\ missed \subseteq missed'
        /\ Holds(buffer, c) => c \in missed'
        /\ \A b \in writes : Holds(b.recs, c) => c \in missed'
        /\ \A w \in Crew : InHand(w, c) => c \in missed'
    BY <1>10, HoldsSetOf DEF ProcessDies
  <2>3. \A v \in Crew : ~InHand(v, c)'
    BY <2>1
  <2> QED
    BY <2>1, <2>2, <2>3, <1>g, HoldsEmpty
<1>11. CASE StartAgain
  <2>1. UNCHANGED <<where, leaf, buffer, writes>> /\ buffer = <<>> /\ writes = {} /\ \A w \in Crew : where[w] = "out"
    BY <1>11 DEF StartAgain, crew, OutputInv, ClosesLast
  <2>2. \A v \in Crew : ~InHand(v, c)' /\ ~InHand(v, c)
    BY <2>1
  <2>3. CASE finished # {}
    BY <1>11, <2>1, <2>2, <2>3, <1>g DEF StartAgain, tables
  <2>4. CASE finished = {}
    BY <1>11, <2>1, <2>2, <2>4, <1>g, HoldsEmpty DEF StartAgain
  <2> QED
    BY <2>3, <2>4
<1>12. CASE UNCHANGED output
  <2>1. UNCHANGED <<hashes, where, leaf, buffer, writes, file, missed>>
    BY <1>12 DEF output, tables, crew, out
  <2>2. \A v \in Crew : InHand(v, c)' <=> InHand(v, c)
    BY <2>1 DEF TextOf
  <2> QED
    BY <2>1, <2>2, <1>g
<1> QED
  BY <1>1, <1>2, <1>3, <1>4, <1>6, <1>5, <1>7, <1>8, <1>9, <1>10, <1>11, <1>12 DEF OutputNext, CrewStep, WriterStep

-----------------------------------------------------------------------------
(* From the places to the counts of OutputKept                               *)

\* A content a sequence holds at most once counts as one.
LEMMA CountOnce ==
  ASSUME NEW S, NEW s \in Seq(S), NEW c, AtMostOnce(s, c)
  PROVE  Cardinality({k \in DOMAIN s : s[k] = c}) = IF Holds(s, c) THEN 1 ELSE 0
<1>1. CASE Holds(s, c)
  <2>1. PICK k \in DOMAIN s : s[k] = c
    BY <1>1 DEF Holds
  <2>2. {j \in DOMAIN s : s[j] = c} = {k}
    BY <2>1 DEF AtMostOnce
  <2> QED
    BY <1>1, <2>2, FS_Singleton
<1>2. CASE ~Holds(s, c)
  <2>1. {j \in DOMAIN s : s[j] = c} = {}
    BY <1>2 DEF Holds
  <2> QED
    BY <1>2, <2>1, FS_EmptySet
<1> QED
  BY <1>1, <1>2

\* A content in one place is kept once.
LEMMA KeptOnce == OutputInv => OutputKept
<1> SUFFICES ASSUME OutputInv PROVE OutputKept
  OBVIOUS
<1>1. CompletedIsOut
  BY DEF CompletedIsOut, OutputInv, Hashed, ClosesLast
<1>2. ASSUME NEW c \in Content \ {Blank}
      PROVE  /\ Copies(c) <= 1
             /\ c \in hashes => Copies(c) = 1 \/ c \in missed \/ \E w \in Crew : where[w] = "record" /\ TextOf(w) = c
  <2> DEFINE in(s) == Cardinality({k \in DOMAIN s : s[k] = c})
             batch == {b \in writes : c \in SetOf(b.recs)}
             inWrites == \E b \in writes : Holds(b.recs, c)
  <2>1. OnePlace(c) /\ HashKnows(c) /\ buffer \in Seq(Content) /\ file \in Seq(Content)
    BY DEF OutputInv, Traced, OutputTypeOK
  <2>2. in(buffer) = IF Holds(buffer, c) THEN 1 ELSE 0
    BY <2>1, CountOnce DEF OnePlace
  <2>3. in(file) = IF Holds(file, c) THEN 1 ELSE 0
    BY <2>1, CountOnce DEF OnePlace
  <2>4. Cardinality(batch) = IF inWrites THEN 1 ELSE 0
    <3>1. CASE inWrites
      <4>1. PICK b \in writes : Holds(b.recs, c)
        BY <3>1
      <4>2. batch = {b}
        BY <4>1, <2>1, HoldsSetOf DEF OnePlace
      <4> QED
        BY <3>1, <4>2, FS_Singleton
    <3>2. CASE ~inWrites
      <4>1. batch = {}
        BY <3>2, HoldsSetOf
      <4> QED
        BY <3>2, <4>1, FS_EmptySet
    <3> QED
      BY <3>1, <3>2
  <2>5. Copies(c) = in(buffer) + in(file) + Cardinality(batch)
    BY DEF Copies
  <2> HIDE DEF in, batch
  <2>6. Copies(c) = IF Holds(buffer, c) \/ Holds(file, c) \/ inWrites THEN 1 ELSE 0
    BY <2>1, <2>2, <2>3, <2>4, <2>5 DEF OnePlace
  <2> QED
    BY <2>1, <2>6 DEF HashKnows, Somewhere, InHand
<1> QED
  BY <1>1, <1>2 DEF OutputKept, RecordOnce

-----------------------------------------------------------------------------
(* The theorems                                                              *)

\* The inductive invariant: every content is traced from its hash to the file.
THEOREM OutputInvariant == OutputSpec => []OutputInv
<1>1. OutputInv /\ [OutputNext]_output => OutputInv'
  BY OutputTypeStep, HashedStep, WaitedStep, TracedStep DEF OutputInv
<1> QED
  BY OutputStarts, <1>1, PTL DEF OutputSpec

\* A text is written to the output at most once, and it is lost only by a
\* cancellation, a failed write, a crash or a late record; a completed page's text
\* was hashed, and a writer that was closed holds nothing back.
THEOREM ContentKeptOnce == OutputSpec => []OutputKept
BY OutputInvariant, KeptOnce, PTL

-----------------------------------------------------------------------------
(* The window of the fuse                                                    *)

\* Older deaths come first.
InOrder(ages) == \A j, k \in DOMAIN ages : j < k => ages[j] >= ages[k]

WatchInv == WatchTypeOK /\ InOrder(deaths) /\ FuseBound

\* Of ages in order, those beyond the window are the first ones, so that the rest of
\* the sequence is what a filter would keep.
LEMMA ExpiredFirst ==
  ASSUME NEW ages \in Seq(Nat), InOrder(ages)
  PROVE  /\ Expired(ages) \in 0 .. Len(ages)
         /\ \A k \in DOMAIN ages : ages[k] >= FuseWindow <=> k <= Expired(ages)
<1> DEFINE n == Len(ages)
           E == {k \in 1 .. n : ages[k] >= FuseWindow}
<1>1. n \in Nat /\ DOMAIN ages = 1 .. n /\ \A k \in 1 .. n : ages[k] \in Nat
  BY LenProperties, ElementOfSeq
<1>2. Expired(ages) = Cardinality(E)
  BY <1>1 DEF Expired
<1>f. FuseWindow \in Nat
  BY WatchAssumption
<1>3. \A j \in 1 .. n, k \in E : j <= k => j \in E
  <2> SUFFICES ASSUME NEW j \in 1 .. n, NEW k \in 1 .. n, ages[k] >= FuseWindow, j <= k
               PROVE  ages[j] >= FuseWindow
    OBVIOUS
  <2>1. ages[j] >= ages[k]
    BY <1>1 DEF InOrder
  <2> QED
    BY <1>1, <1>f, <2>1
<1> HIDE DEF E, n
<1>4. IsFiniteSet(E) /\ Cardinality(E) \in Nat /\ Cardinality(E) <= n
  <2>1. IsFiniteSet(1 .. n) /\ Cardinality(1 .. n) = n
    BY <1>1, FS_Interval
  <2> QED
    BY <2>1, FS_Subset, FS_CardinalityType DEF E
<1>5. \A k \in E : k <= Cardinality(E)
  <2> SUFFICES ASSUME NEW k \in E PROVE k <= Cardinality(E)
    OBVIOUS
  <2>1. k \in 1 .. n /\ 1 .. k \subseteq E
    BY <1>1, <1>3 DEF E
  <2>2. Cardinality(1 .. k) = k
    BY <1>1, <2>1, FS_Interval
  <2>3. Cardinality(1 .. k) <= Cardinality(E)
    BY <1>4, <2>1, FS_Subset
  <2> QED
    BY <2>2, <2>3
<1>6. \A k \in 1 .. n : k <= Cardinality(E) => k \in E
  <2> SUFFICES ASSUME NEW k \in 1 .. n, k <= Cardinality(E), k \notin E PROVE FALSE
    OBVIOUS
  <2>1. \A j \in E : j < k
    BY <1>1, <1>3 DEF E
  <2>2. E \subseteq 1 .. k - 1
    BY <1>1, <2>1 DEF E
  <2>3. IsFiniteSet(1 .. k - 1) /\ Cardinality(1 .. k - 1) = k - 1
    <3>1. 1 \in Int /\ k - 1 \in Int /\ (1 > k - 1 => k - 1 = 0) /\ (k - 1) - 1 + 1 = k - 1
      BY <1>1
    <3>2. IsFiniteSet(1 .. k - 1) /\ Cardinality(1 .. k - 1) = IF 1 > k - 1 THEN 0 ELSE (k - 1) - 1 + 1
      BY <3>1, FS_Interval
    <3> QED
      BY <3>1, <3>2
  <2>4. Cardinality(E) <= k - 1
    BY <2>2, <2>3, FS_Subset
  <2> QED
    BY <1>1, <1>4, <2>4
<1> QED
  BY <1>1, <1>2, <1>4, <1>5, <1>6 DEF E, n

\* What the fuse keeps at a death: the deaths within the window, in their order.
LEMMA RecentKept ==
  ASSUME deaths \in Seq(0 .. FuseWindow), InOrder(deaths)
  PROVE  /\ Recent \in Seq(0 .. FuseWindow) /\ InOrder(Recent)
         /\ \A k \in DOMAIN Recent : Recent[k] < FuseWindow
         /\ Len(Recent) = Cardinality({k \in DOMAIN Append(deaths, 0) : Append(deaths, 0)[k] < FuseWindow})
<1> DEFINE all == Append(deaths, 0)
           n == Len(all)
           x == Expired(all)
<1>f. FuseWindow \in Nat \ {0}
  BY WatchAssumption
<1>0. 0 \in 0 .. FuseWindow
  BY <1>f
<1>1. /\ all \in Seq(0 .. FuseWindow) /\ n = Len(deaths) + 1 /\ Len(deaths) \in Nat
      /\ DOMAIN all = 1 .. n /\ DOMAIN deaths = 1 .. Len(deaths)
      /\ \A i \in 1 .. Len(deaths) : all[i] = deaths[i] /\ deaths[i] \in 0 .. FuseWindow
      /\ all[n] = 0 /\ \A i \in 1 .. n : all[i] \in 0 .. FuseWindow
  <2>1. /\ all \in Seq(0 .. FuseWindow) /\ n = Len(deaths) + 1
        /\ \A i \in 1 .. Len(deaths) : all[i] = deaths[i]
        /\ all[Len(deaths) + 1] = 0
    BY <1>0, AppendProperties
  <2>2. DOMAIN deaths = 1 .. Len(deaths) /\ Len(deaths) \in Nat /\ DOMAIN all = 1 .. n
    BY <2>1, LenProperties
  <2>3. \A i \in 1 .. Len(deaths) : deaths[i] \in 0 .. FuseWindow
    BY ElementOfSeq
  <2>4. \A i \in 1 .. n : all[i] \in 0 .. FuseWindow
    BY <2>1, ElementOfSeq
  <2> QED
    BY <2>1, <2>2, <2>3, <2>4
<1>2. all \in Seq(Nat)
  <2>1. 0 .. FuseWindow \subseteq Nat
    BY <1>f
  <2> QED
    BY <1>1, <2>1, SeqMonotonic
<1> HIDE DEF all, n
<1>3. InOrder(all)
  <2> SUFFICES ASSUME NEW j \in 1 .. n, NEW k \in 1 .. n, j < k PROVE all[j] >= all[k]
    BY <1>1 DEF InOrder
  <2>1. CASE k = n
    BY <1>1, <1>f, <2>1
  <2>2. CASE k # n
    <3>1. j \in 1 .. Len(deaths) /\ k \in 1 .. Len(deaths)
      BY <1>1, <2>2
    <3>2. deaths[j] >= deaths[k]
      BY <1>1, <3>1 DEF InOrder
    <3> QED
      BY <1>1, <3>1, <3>2
  <2> QED
    BY <2>1, <2>2
<1>4. x \in 0 .. n /\ \A k \in 1 .. n : all[k] >= FuseWindow <=> k <= x
  BY <1>1, <1>2, <1>3, ExpiredFirst DEF n
<1>5. x < n
  BY <1>1, <1>4, <1>f
<1> HIDE DEF x
<1> DEFINE s == SubSeq(all, x + 1, n)
<1>6. /\ s \in Seq(0 .. FuseWindow) /\ Len(s) = n - x
      /\ \A i \in 1 .. n - x : s[i] = all[x + i]
  <2>1. x + 1 \in Int /\ n \in Int /\ \A i \in x + 1 .. n : all[i] \in 0 .. FuseWindow
    BY <1>1, <1>4
  <2>2. /\ s \in Seq(0 .. FuseWindow)
        /\ Len(s) = IF x + 1 <= n THEN n - (x + 1) + 1 ELSE 0
        /\ \A i \in 1 .. n - (x + 1) + 1 : s[i] = all[(x + 1) + i - 1]
    BY <2>1, SubSeqProperties
  <2>3. n - (x + 1) + 1 = n - x /\ x + 1 <= n /\ \A i \in Int : (x + 1) + i - 1 = x + i
    BY <1>1, <1>4, <1>5
  <2>4. \A i \in 1 .. n - x : i \in Int
    OBVIOUS
  <2> HIDE DEF s
  <2>5. Len(s) = n - x
    BY <2>2, <2>3
  <2>6. \A i \in 1 .. n - x : s[i] = all[x + i]
    BY <2>2, <2>3, <2>4
  <2> QED
    BY <2>2, <2>5, <2>6
<1>7. DOMAIN s = 1 .. n - x
  BY <1>6, LenProperties
<1>8. Recent = s
  BY DEF Recent, all, n, x
<1> HIDE DEF s
<1>9. \A k \in DOMAIN s : s[k] < FuseWindow
  <2> SUFFICES ASSUME NEW k \in 1 .. n - x PROVE s[k] < FuseWindow
    BY <1>7
  <2>1. x + k \in 1 .. n /\ ~(x + k <= x)
    BY <1>1, <1>4
  <2>2. s[k] = all[x + k] /\ all[x + k] \in Nat /\ ~(all[x + k] >= FuseWindow)
    <3>1. s[k] = all[x + k]
      BY <1>6
    <3>2. all[x + k] \in 0 .. FuseWindow /\ ~(all[x + k] >= FuseWindow)
      BY <1>1, <1>4, <2>1
    <3> QED
      BY <1>f, <3>1, <3>2
  <2> QED
    BY <1>f, <2>2
<1>10. InOrder(s)
  <2> SUFFICES ASSUME NEW j \in 1 .. n - x, NEW k \in 1 .. n - x, j < k PROVE s[j] >= s[k]
    BY <1>7 DEF InOrder
  <2>1. x + j \in 1 .. n /\ x + k \in 1 .. n /\ x + j < x + k
    BY <1>1, <1>4
  <2> QED
    BY <1>1, <1>3, <1>6, <2>1 DEF InOrder
<1>11. Cardinality({k \in 1 .. n : all[k] < FuseWindow}) = n - x
  <2>1. {k \in 1 .. n : all[k] < FuseWindow} = x + 1 .. n
    BY <1>1, <1>4, <1>f
  <2>2. Cardinality(x + 1 .. n) = n - x
    BY <1>1, <1>4, <1>5, FS_Interval
  <2> QED
    BY <2>1, <2>2
<1> QED
  BY <1>1, <1>6, <1>8, <1>9, <1>10, <1>11 DEF all

\* A session starts without deaths.
LEMMA WatchStarts == WatchInit => WatchInv
<1> SUFFICES ASSUME WatchInit PROVE WatchInv
  OBVIOUS
<1>1. <<>> \in Seq(0 .. FuseWindow) /\ DOMAIN <<>> = {}
  BY EmptySeq
<1>2. {k \in DOMAIN deaths : deaths[k] < FuseWindow} = {}
  BY <1>1 DEF WatchInit
<1>3. FuseBound
  BY <1>2, FS_EmptySet, WatchAssumption DEF FuseBound
<1>4. WatchTypeOK
  <2>1. 0 \in Age
    BY WatchAssumption DEF Age
  <2> QED
    BY <1>1, <2>1 DEF WatchInit, WatchTypeOK, Lives
<1> QED
  BY <1>1, <1>3, <1>4 DEF WatchInv, InOrder, WatchInit

\* Every step of the supervisor and the workers keeps the types.
LEMMA WatchTypeStep == WatchInv /\ [WatchNext]_watch => WatchTypeOK'
<1> SUFFICES ASSUME WatchInv, [WatchNext]_watch PROVE WatchTypeOK'
  OBVIOUS
<1> USE WatchAssumption DEF WatchTypeOK, Age, Lives, Running, workerSide, fuse, mainSide
<1>t. WatchTypeOK
  BY DEF WatchInv
<1>0. 0 \in Age
  OBVIOUS
<1>1. ASSUME NEW i \in Index, Take(i) \/ Settled(i) \/ HandledError(i) \/ Die(i) \/ Return(i) PROVE WatchTypeOK'
  <2>1. CASE Take(i) \/ HandledError(i)
    BY <1>t, <2>1 DEF Take, HandledError
  <2>2. CASE Settled(i)
    BY <1>t, <1>0, <2>2 DEF Settled
  <2>3. CASE Die(i)
    BY <1>t, <2>3 DEF Die
  <2>4. CASE Return(i)
    BY <1>t, <2>4 DEF Return
  <2> QED
    BY <1>1, <2>1, <2>2, <2>3, <2>4
<1>2. ASSUME NEW i \in Index, Replace(i) \/ Blow(i) PROVE WatchTypeOK'
  <2>1. Recent \in Seq(0 .. FuseWindow)
    BY RecentKept DEF WatchInv
  <2> QED
    BY <1>t, <1>2, <2>1 DEF Replace, Blow
<1>3. CASE MainStep
  BY <1>t, <1>3 DEF MainStep, GiveUpStuck, KeepGoing, Finish, StuckTimer, GiveUpInFlight
<1>4. CASE QueueChanges \/ MoreArrives \/ Pause \/ Resume \/ Stop
  BY <1>t, <1>4 DEF QueueChanges, MoreArrives, Pause, Resume, Stop
<1>5. CASE WatchTick
  <2>1. \A a \in Age \cup {Gone} : Older(a, StuckTimeout + 1) \in Age \cup {Gone}
    BY DEF Older
  <2>2. \A a \in Age : Older(a, StuckTimeout + 1) \in Age
    BY DEF Older
  <2>3. \A a \in 0 .. FuseWindow : Older(a, FuseWindow) \in 0 .. FuseWindow
    BY DEF Older
  <2>4. deaths' \in Seq(0 .. FuseWindow)
    <3>1. Len(deaths) \in Nat /\ DOMAIN deaths = 1 .. Len(deaths) /\ \A k \in 1 .. Len(deaths) : deaths[k] \in 0 .. FuseWindow
      BY <1>t, LenProperties, ElementOfSeq
    <3>2. deaths' = [k \in 1 .. Len(deaths) |-> Older(deaths[k], FuseWindow)]
      BY <1>5, <3>1 DEF WatchTick
    <3>3. deaths' \in [1 .. Len(deaths) -> 0 .. FuseWindow]
      BY <3>1, <3>2, <2>3
    <3> QED
      BY <3>1, <3>3, SeqDef
  <2>5. beat' \in [Index -> Age \cup {Gone}]
    BY <1>t, <1>5, <2>1 DEF WatchTick
  <2>6. silence' \in Age /\ stuckFor' \in Age \cup {Gone}
    BY <1>t, <1>5, <2>1, <2>2 DEF WatchTick
  <2>7. UNCHANGED <<life, blown, watching, work, held, orphan, more, loop>>
    BY <1>5 DEF WatchTick
  <2> QED
    BY <1>t, <2>4, <2>5, <2>6, <2>7
<1>6. CASE UNCHANGED watch
  BY <1>t, <1>6 DEF watch
<1> QED
  BY <1>1, <1>2, <1>3, <1>4, <1>5, <1>6 DEF WatchNext

\* The deaths stay in order, and the fuse has burnt when their number says so.
LEMMA WatchStep == WatchInv /\ [WatchNext]_watch => WatchInv'
<1> SUFFICES ASSUME WatchInv, [WatchNext]_watch PROVE InOrder(deaths)' /\ FuseBound'
  BY WatchTypeStep DEF WatchInv
<1> DEFINE inside == {k \in DOMAIN deaths : deaths[k] < FuseWindow}
<1>t. /\ deaths \in Seq(0 .. FuseWindow) /\ InOrder(deaths) /\ FuseBound
      /\ FuseWindow \in Nat \ {0} /\ MaxRestarts \in Nat
  BY WatchAssumption DEF WatchInv, WatchTypeOK
<1>d. /\ Len(deaths) \in Nat /\ DOMAIN deaths = 1 .. Len(deaths)
      /\ \A k \in 1 .. Len(deaths) : deaths[k] \in 0 .. FuseWindow
  BY <1>t, LenProperties, ElementOfSeq
<1>1. ASSUME UNCHANGED <<deaths, blown>> PROVE InOrder(deaths)' /\ FuseBound'
  BY <1>t, <1>1 DEF InOrder, FuseBound
<1>2. ASSUME NEW i \in Index, Replace(i) PROVE InOrder(deaths)' /\ FuseBound'
  <2>1. deaths' = Recent /\ Len(Recent) <= MaxRestarts
    BY <1>t, <1>2, RecentKept, LenProperties DEF Replace, Blows
  <2>2. Recent \in Seq(0 .. FuseWindow) /\ InOrder(Recent)
    BY <1>t, RecentKept
  <2>3. DOMAIN Recent = 1 .. Len(Recent) /\ Len(Recent) \in Nat
    BY <2>2, LenProperties
  <2>4. inside' \subseteq 1 .. Len(Recent)
    BY <2>1, <2>3
  <2>5. Cardinality(inside') \in Nat /\ Cardinality(inside') <= Len(Recent)
    <3>1. IsFiniteSet(1 .. Len(Recent)) /\ Cardinality(1 .. Len(Recent)) = Len(Recent)
      <4>1. \A m \in Nat : IsFiniteSet(1 .. m) /\ Cardinality(1 .. m) = m
        BY FS_Interval
      <4> QED
        BY <2>3, <4>1
    <3> HIDE DEF inside
    <3> QED
      BY <2>4, <3>1, FS_Subset, FS_CardinalityType
  <2>6. Cardinality(inside') <= MaxRestarts
    BY <2>1, <2>3, <2>5, <1>t
  <2> QED
    BY <2>1, <2>2, <2>6 DEF InOrder, FuseBound
<1>3. ASSUME NEW i \in Index, Blow(i) PROVE InOrder(deaths)' /\ FuseBound'
  BY <1>t, <1>3, RecentKept DEF Blow, InOrder, FuseBound
<1>4. CASE WatchTick
  <2>1. deaths' = [k \in 1 .. Len(deaths) |-> Older(deaths[k], FuseWindow)] /\ blown' = blown
    BY <1>4, <1>d DEF WatchTick
  <2>2. \A k \in 1 .. Len(deaths) : deaths'[k] = IF deaths[k] >= FuseWindow THEN deaths[k] ELSE deaths[k] + 1
    <3>1. Gone \notin 0 .. FuseWindow
      BY WatchAssumption
    <3> QED
      BY <2>1, <1>d, <3>1 DEF Older
  <2>3. DOMAIN deaths' = 1 .. Len(deaths)
    BY <2>1
  <2>4. InOrder(deaths)'
    <3> SUFFICES ASSUME NEW j \in 1 .. Len(deaths), NEW k \in 1 .. Len(deaths), j < k
                 PROVE  deaths'[j] >= deaths'[k]
      BY <2>3 DEF InOrder
    <3>1. deaths[j] >= deaths[k] /\ deaths[j] \in 0 .. FuseWindow /\ deaths[k] \in 0 .. FuseWindow
      BY <1>t, <1>d DEF InOrder
    <3> QED
      BY <3>1, <2>2, <1>t
  <2>5. inside' \subseteq inside
    BY <1>d, <1>t, <2>2, <2>3
  <2>6. IsFiniteSet(inside)
    <3>1. IsFiniteSet(1 .. Len(deaths))
      BY <1>d, FS_Interval
    <3> QED
      BY <1>d, <3>1, FS_Subset
  <2>7. /\ Cardinality(inside') <= Cardinality(inside)
        /\ Cardinality(inside) \in Nat /\ Cardinality(inside') \in Nat
    BY <2>5, <2>6, FS_Subset, FS_CardinalityType
  <2> HIDE DEF inside
  <2>8. FuseBound <=> (~blown => Cardinality(inside) <= MaxRestarts)
    BY DEF FuseBound, inside
  <2>9. FuseBound' <=> (~blown' => Cardinality(inside') <= MaxRestarts)
    BY DEF FuseBound, inside
  <2> QED
    BY <2>1, <2>4, <2>7, <2>8, <2>9, <1>t
<1>5. CASE MainStep
  BY <1>1, <1>5 DEF MainStep, GiveUpStuck, KeepGoing, Finish, StuckTimer, GiveUpInFlight, fuse
<1>6. CASE QueueChanges \/ MoreArrives \/ Pause \/ Resume \/ Stop
  BY <1>1, <1>6 DEF QueueChanges, MoreArrives, Pause, Resume, Stop, fuse
<1>7. ASSUME NEW i \in Index, Take(i) \/ Settled(i) \/ HandledError(i) \/ Die(i) \/ Return(i)
      PROVE  InOrder(deaths)' /\ FuseBound'
  BY <1>1, <1>7 DEF Take, Settled, HandledError, Die, Return, fuse
<1>8. CASE UNCHANGED watch
  BY <1>1, <1>8 DEF watch, fuse
<1> QED
  BY <1>2, <1>3, <1>4, <1>5, <1>6, <1>7, <1>8 DEF WatchNext

\* Over any number of workers, restarts and pauses, and whatever the window: while the
\* fuse has not blown, no window holds more deaths than the pool may survive.
THEOREM FuseHoldsBound == WatchSpec => []FuseBound
<1>1. WatchInv => FuseBound
  BY DEF WatchInv
<1> QED
  BY WatchStarts, WatchStep, <1>1, PTL DEF WatchSpec

-----------------------------------------------------------------------------
(* What a run closes and tells                                               *)

\* The database is open as long as the crawl may write to it.
DbOpen ==
  /\ point = "begin" => opened = 0
  /\ opened > 0 /\ point \in {"opening", "crawl", "report", "register"} => "db" \in opens
  /\ point \in {"crawl", "report", "register", "close"} => opened = SetUp

\* How the crawl ended is known from its end on.
EndKnown ==
  /\ point \in {"begin", "opening", "crawl"} => crawlEnd = "going"
  /\ point \in {"report", "register", "close"} => crawlEnd \in {"well", "error"}

\* Whatever is open is on the stack, or its callback has failed; the counts are saved,
\* or their callbacks are on the stack, and then the database is open below them.
OnStack ==
  point = "close" =>
    /\ opens \subseteq stack \cup stuck
    /\ bgTasks = "gone" \/ "tasks" \in stack \cup stuck
    /\ {"stats", "layers"} \subseteq stack \cup kept \cup stuck
    /\ stack \cap {"stats", "layers"} # {} => "db" \in stack /\ "db" \in opens

\* The report is behind a run that closes.
Told ==
  point \in {"register", "close"} /\ "report" \notin stuck =>
    told # {} /\ (crawlEnd = "error" => "error" \in told)

RunInv == RunTypeOK /\ DbOpen /\ EndKnown /\ OnStack /\ Told /\ RunClosesUp

\* Eight resources are set up, the database first, and the report and what is always closed are none of them.
LEMMA Opening ==
  /\ SetUp = 7 /\ DOMAIN Order = 1 .. 8 /\ Order[1] = "db"
  /\ \A k \in 1 .. 8 : Order[k] \in Resource
  /\ {"db", "pool"} \subseteq Resource /\ "report" \notin Resource \cup Always
<1>1. Len(Order) = 8 /\ DOMAIN Order = 1 .. 8
  BY DEF Order
<1>2. Resource = {"db", "probes", "http", "sitemaps", "writer", "diagnostics", "monitor", "pool"}
  BY <1>1 DEF Order, Resource
<1> QED
  BY <1>1, <1>2 DEF Order, SetUp, Always, Resource

\* What counts is saved before the database is closed: its callback is not the top one.
LEMMA DbBelow == Top("db") => stack \cap {"stats", "layers"} = {}
<1> SUFFICES ASSUME Top("db"), NEW d \in {"stats", "layers"}, d \in stack PROVE FALSE
  OBVIOUS
<1>1. PICK j \in DOMAIN Registered, k \in DOMAIN Registered : j < k /\ Registered[j] = d /\ Registered[k] = "db"
  BY DEF Top
<1>2. DOMAIN Registered = 1 .. 13
  BY DEF Registered
<1>3. \A i \in 1 .. 13 : (Registered[i] = "db" => i = 9) /\ (Registered[i] = "layers" => i = 10) /\ (Registered[i] = "stats" => i = 11)
  BY DEF Registered
<1> QED
  BY <1>1, <1>2, <1>3

\* A run starts with nothing open.
LEMMA RunStarts == RunInit => RunInv
BY Opening DEF RunInit, RunInv, RunTypeOK, DbOpen, EndKnown, OnStack, Told, RunClosesUp, ClosesUp, TellsItsEnd, Ended0

\* What is open is on the stack through every step of the run, and its end is told.
LEMMA RunStep == RunInv /\ [RunNext]_runState => RunInv'
<1> SUFFICES ASSUME RunInv, [RunNext]_runState PROVE RunInv'
  OBVIOUS
<1> USE DEF RunInv, DbOpen, EndKnown, OnStack, Told, RunClosesUp, ClosesUp, TellsItsEnd, Ended0, RunTypeOK
<1>o. /\ SetUp = 7 /\ Order[1] = "db" /\ \A k \in 1 .. 8 : Order[k] \in Resource
      /\ {"db", "pool"} \subseteq Resource /\ "report" \notin Resource \cup Always
  BY Opening
<1>1. CASE Begin
  BY <1>1, <1>o DEF Begin, Calm
<1>2. CASE OpenNext
  <2>1. opened \in 0 .. 6 /\ opened' = opened + 1 /\ Order[opened'] \in Resource /\ opened' \in 1 .. 7
    <3>1. opened < 7 /\ opened' = opened + 1 /\ opened \in 0 .. 7
      BY <1>2, <1>o DEF OpenNext
    <3>2. opened \in 0 .. 6 /\ opened + 1 \in 1 .. 7 /\ opened + 1 \in 1 .. 8
      BY <3>1
    <3> QED
      BY <3>1, <3>2, <1>o
  <2>2. opens \subseteq opens' /\ opens' \subseteq Resource /\ "db" \in opens'
    <3>1. opens' = opens \cup {Order[opened']} \/ (Order[opened'] \in Optional /\ opens' = opens)
      BY <1>2 DEF OpenNext
    <3>2. opened = 0 => Order[opened'] = "db" /\ "db" \notin Optional
      <4>1. opened = 0 => opened' = 1
        BY <2>1
      <4> QED
        BY <4>1, <1>o, RunAssumption
    <3>3. opened > 0 => "db" \in opens
      BY <1>2 DEF OpenNext
    <3>4. opened = 0 \/ opened > 0
      BY <2>1
    <3>5. opens \subseteq Resource
      OBVIOUS
    <3> QED
      BY <3>1, <3>2, <3>3, <3>4, <3>5, <2>1
  <2>3. UNCHANGED <<point, stack, kept, told, crawlEnd, stuck>> /\ point = "opening" /\ bgTasks' \in {bgTasks, "live"}
    BY <1>2 DEF OpenNext
  <2>4. RunTypeOK'
    BY <2>1, <2>2, <2>3, <1>o
  <2>5. DbOpen' /\ EndKnown' /\ OnStack' /\ Told' /\ RunClosesUp'
    BY <2>2, <2>3
  <2> QED
    BY <2>4, <2>5
<1>3. CASE OpeningFails
  BY <1>3 DEF OpeningFails
<1>4. CASE StartCrawl
  BY <1>4, <1>o DEF StartCrawl
<1>5. CASE CrawlOver
  BY <1>5 DEF CrawlOver
<1>6. CASE CrawlCut
  BY <1>6 DEF CrawlCut
<1>7. CASE Reported
  BY <1>7 DEF Reported
<1>8. CASE RegisterAll
  <2>1. stack' = opens \cup Always /\ {"tasks", "stats", "layers"} \subseteq Always
    BY <1>8 DEF RegisterAll, Always
  <2> QED
    BY <1>8, <1>o, <2>1 DEF RegisterAll
<1>9. ASSUME NEW c \in stack, Callback(c) PROVE RunInv'
  <2>1. /\ point = "close" /\ stack' = stack \ {c} /\ opens' = opens \ {c} /\ stuck' = stuck
        /\ UNCHANGED <<point, opened, told, crawlEnd>>
        /\ bgTasks' = IF c = "tasks" THEN "gone" ELSE bgTasks
        /\ kept' = IF c \in {"stats", "layers"} /\ "db" \in opens THEN kept \cup {c} ELSE kept
    BY <1>9 DEF Callback, Popped
  <2>2. c = "db" => stack \cap {"stats", "layers"} = {}
    BY <1>9, DbBelow DEF Callback, Popped
  <2> QED
    BY <2>1, <2>2
<1>10. ASSUME NEW c \in stack, CallbackFails(c) PROVE RunInv'
  <2>1. /\ point = "close" /\ stack' = stack \ {c} /\ stuck' = stuck \cup {c}
        /\ UNCHANGED <<point, opened, told, crawlEnd, opens, kept, bgTasks>>
    BY <1>10 DEF CallbackFails, Popped
  <2>2. c = "db" => stack \cap {"stats", "layers"} = {}
    BY <1>10, DbBelow DEF CallbackFails, Popped
  <2>3. c # "report"
    BY <1>o
  <2> QED
    BY <2>1, <2>2, <2>3
<1>11. CASE StackEmpty
  BY <1>11 DEF StackEmpty
<1>12. CASE UNCHANGED runState
  BY <1>12 DEF runState
<1> QED
  BY <1>1, <1>2, <1>3, <1>4, <1>5, <1>6, <1>7, <1>8, <1>9, <1>10, <1>11, <1>12 DEF RunNext

\* Whatever fails, times out or is cancelled on the way: a run whose crawl came to an
\* end leaves nothing open but what would not close, saves its counts before it closes
\* the database, and tells how it ended.
THEOREM EveryRunClosesUp == RunSpec => []RunClosesUp
<1>1. RunInv => RunClosesUp
  BY DEF RunInv
<1> QED
  BY RunStarts, RunStep, <1>1, PTL DEF RunSpec

-----------------------------------------------------------------------------
(* The semaphore of a domain and the counter beside it                       *)

PermitInv ==
  /\ at \in [Visitor -> Place]
  /\ active \in Nat /\ free \in Nat
  /\ PermitsAccounted
  /\ NoPermitLost

\* A visitor that starts or stops holding changes the count by one.
LEMMA HoldersCount ==
  ASSUME at \in [Visitor -> Place]
  PROVE  /\ IsFiniteSet(Holders) /\ Cardinality(Holders) \in Nat
         /\ \A v \in Visitor :
              /\ v \notin Holders => Cardinality(Holders \cup {v}) = Cardinality(Holders) + 1
              /\ v \in Holders => Cardinality(Holders \ {v}) = Cardinality(Holders) - 1
<1>1. IsFiniteSet(Holders)
  BY ThrottleAssumption, FS_Subset DEF Holders
<1> QED
  BY <1>1, FS_CardinalityType, FS_AddElement, FS_RemoveElement

\* A visitor that moves changes nothing but its own place among the holders.
LEMMA MoveChangesHolders ==
  ASSUME at \in [Visitor -> Place], NEW v \in Visitor, NEW there \in Place, GoTo(v, there)
  PROVE  /\ at' \in [Visitor -> Place]
         /\ Holders' = IF there \in {"out", "refused"} THEN Holders \ {v} ELSE Holders \cup {v}
BY DEF GoTo, Holders

\* Every step moves the semaphore, the counter and the holders together.
LEMMA PermitStep ==
  ASSUME PermitInv, ThrottleNext
  PROVE  PermitInv'
<1> USE DEF PermitInv, PermitsAccounted, NoPermitLost, permits
<1>1. /\ MaxConcurrency \in Nat
      /\ Cardinality(Holders) \in Nat
      /\ \A v \in Visitor :
           /\ v \notin Holders => Cardinality(Holders \cup {v}) = Cardinality(Holders) + 1
           /\ v \in Holders => Cardinality(Holders \ {v}) = Cardinality(Holders) - 1
  BY ThrottleAssumption, HoldersCount
<1>2. ASSUME UNCHANGED <<active, free>>, at' \in [Visitor -> Place], Holders' = Holders
      PROVE  PermitInv'
  BY <1>2
<1>3. ASSUME NEW v \in Visitor, Enter(v) PROVE PermitInv'
  <2>1. at' \in [Visitor -> Place] /\ v \notin Holders /\ Holders' = Holders \cup {v}
    BY <1>3, MoveChangesHolders DEF Enter, Place, Holders
  <2>2. active' = active + 1 /\ free' = free - 1 /\ free > 0
    BY <1>3 DEF Enter
  <2> QED
    BY <1>1, <2>1, <2>2
<1>4. ASSUME NEW v \in Visitor, Refuse(v) PROVE PermitInv'
  <2>1. at' \in [Visitor -> Place] /\ Holders' = Holders
    BY <1>4, MoveChangesHolders DEF Refuse, Place, Holders
  <2> QED
    BY <1>2, <1>4, <2>1 DEF Refuse
<1>5. ASSUME NEW v \in Visitor, Robots(v) \/ Reserve(v) \/ Fetch(v) \/ ChainEnds(v) PROVE PermitInv'
  <2>1. v \in Holders /\ UNCHANGED <<active, free>>
    BY <1>5 DEF Robots, Reserve, Fetch, ChainEnds, Holders
  <2>2. \E there \in Place \ {"out", "refused"} : GoTo(v, there)
    BY <1>5 DEF Robots, Reserve, Fetch, ChainEnds, Place
  <2>3. at' \in [Visitor -> Place] /\ Holders' = Holders
    BY <2>1, <2>2, MoveChangesHolders
  <2> QED
    BY <1>2, <2>1, <2>3
<1>6. ASSUME NEW v \in Visitor, Leave(v) PROVE PermitInv'
  <2>1. at' \in [Visitor -> Place] /\ Holders' = Holders \ {v}
    BY <1>6, MoveChangesHolders DEF Leave, Place
  <2>2. CASE active > 0
    <3>1. active' = active - 1 /\ free' = free + 1
      BY <1>6, <2>2 DEF Leave, Release
    <3>2. CASE v \in Holders
      BY <1>1, <2>1, <2>2, <3>1, <3>2
    <3>3. CASE v \notin Holders
      <4>1. Holders' = Holders
        BY <2>1, <3>3
      <4> QED
        BY <1>1, <2>1, <2>2, <3>1, <4>1
    <3> QED
      BY <3>2, <3>3
  <2>3. CASE ~(active > 0)
    <3>1. active = 0 /\ UNCHANGED <<active, free>>
      BY <1>6, <2>3 DEF Leave, Release
    <3>2. Cardinality(Holders') \in Nat
      <4>1. CASE v \in Holders
        BY <2>1, HoldersCount, FS_RemoveElement, FS_CardinalityType
      <4>2. CASE v \notin Holders
        <5>1. Holders' = Holders
          BY <2>1, <4>2
        <5> QED
          BY <1>1, <5>1
      <4> QED
        BY <4>1, <4>2
    <3> QED
      BY <2>1, <3>1, <3>2
  <2> QED
    BY <2>2, <2>3
<1>7. CASE Cleanup
  BY <1>1, <1>7 DEF Cleanup, Holders
<1>8. CASE Halt \/ ThrottleTick
  BY <1>2, <1>8 DEF Halt, ThrottleTick, Holders
<1> QED
  BY <1>3, <1>4, <1>5, <1>6, <1>7, <1>8 DEF ThrottleNext

\* The permits add up at any time.
LEMMA PermitInvHolds == ThrottleSpec => []PermitInv
<1>1. ThrottleInit => PermitInv
  <2> SUFFICES ASSUME ThrottleInit PROVE PermitInv
    OBVIOUS
  <2>1. at \in [Visitor -> Place] /\ active = 0 /\ free = MaxConcurrency
    BY DEF ThrottleInit, Place
  <2>2. Cardinality(Holders) \in Nat
    BY <2>1, HoldersCount
  <2> QED
    BY <2>1, <2>2, ThrottleAssumption DEF PermitInv, PermitsAccounted, NoPermitLost
<1>2. PermitInv /\ [ThrottleNext]_throttle => PermitInv'
  <2>1. ASSUME PermitInv, UNCHANGED throttle PROVE PermitInv'
    BY <2>1 DEF throttle, permits, PermitInv, PermitsAccounted, NoPermitLost, Holders
  <2> QED
    BY <2>1, PermitStep
<1> QED
  BY <1>1, <1>2, PTL DEF ThrottleSpec

\* Whoever gives permits back, and however often: none is made from nothing,
\* because release looks at active_count first.
THEOREM PermitsBalance == ThrottleSpec => []PermitsAccounted
BY PermitInvHolds, PTL DEF PermitInv

\* A permit that is taken has a worker that will give it back.
THEOREM PermitsComeBack == ThrottleSpec => []NoPermitLost
BY PermitInvHolds, PTL DEF PermitInv

\* Both, in one: no fetch that is over keeps a permit of its domain.
THEOREM PermitsAlwaysSafe == ThrottleSpec => []PermitsSafe
BY PermitInvHolds, PTL DEF PermitInv, PermitsSafe

-----------------------------------------------------------------------------
(* The pool of browsers                                                      *)

Stage == {"out", "mail", "actor", "lost", "done"} \cup Handled

FlowTypes ==
  /\ reply \in [Request -> {"none", "open", "set", "cancelled"}]
  /\ place \in [Request -> Stage]
  /\ actor \in {"get", "permit", "off"}
  /\ slotSem \in Nat /\ globalSlots \in Nat
  /\ tracked \in SUBSET Request /\ cut \in SUBSET Request /\ awaited \in SUBSET Request
  /\ late \in SUBSET Request /\ unborn \in SUBSET Request
  /\ closing \in {"no", "drain", "drained", "shutdown", "closed"} /\ impatient \in BOOLEAN

\* A future is open from the moment it is sent until the page is tidied away.
Waiting ==
  \A r \in Request :
    /\ place[r] \in {"out", "tidy"} => reply[r] # "open"
    /\ r \in unborn => place[r] = "done"

\* Whose tasks a drain that goes on, or comes, does not know.
Covered ==
  /\ closing = "no" => At(Handled) \subseteq tracked
  /\ closing \in {"drain", "shutdown"} => At(Handled) \subseteq awaited \cup late
  /\ closing = "drained" => At(Handled) \subseteq tracked \cup late
  /\ closing \in {"shutdown", "closed"} => actor = "off"

Flow == FlowTypes /\ Waiting /\ SenderServed /\ Covered /\ NothingRunsOn
Counts == PermitsKept /\ SlotsKept
PoolInv == Flow /\ Counts

-----------------------------------------------------------------------------
\* The pool starts with every permit free and every slot whole.
LEMMA FlowInit == PoolInit => Flow
BY PoolAssumption
DEF PoolAssumption, PoolInit, Flow, FlowTypes, Stage, Waiting, SenderServed, Covered,
    NothingRunsOn, At, Handled, HasPermit, HasSlot

\* One request moves, and nothing of the shutdown.
LEMMA FlowRequest ==
  ASSUME Flow, NEW r \in Request, PoolStep(r)
  PROVE  Flow'
<1> USE DEF Flow, FlowTypes, Stage, Waiting, SenderServed, Covered, NothingRunsOn, At,
            Handled, HasPermit, HasSlot, Goes, ending
<1>1. CASE SendRequest(r)
  BY <1>1 DEF SendRequest
<1>2. CASE GiveUpWaiting(r)
  BY <1>2 DEF GiveUpWaiting
<1>3. CASE TakeRequest(r)
  BY <1>3 DEF TakeRequest
<1>4. CASE StartHandle(r)
  BY <1>4 DEF StartHandle
<1>5. CASE Begins(r)
  BY <1>5 DEF Begins
<1>6. CASE GetSlot(r)
  BY <1>6 DEF GetSlot
<1>7. CASE NoSuchPage(r)
  BY <1>7 DEF NoSuchPage, Leaves, Resolve
<1>8. CASE Opened(r)
  BY <1>8 DEF Opened
<1>9. CASE Answer(r)
  BY <1>9 DEF Answer, Resolve
<1>10. CASE PageClosed(r)
  BY <1>10 DEF PageClosed, Leaves
<1>11. CASE CutShort(r)
  BY <1>11 DEF CutShort, Leaves
<1>12. CASE NeverBegins(r)
  BY <1>12 DEF NeverBegins
<1> QED
  BY <1>1, <1>2, <1>3, <1>4, <1>5, <1>6, <1>7, <1>8, <1>9, <1>10, <1>11, <1>12, Zenon
  DEF PoolStep

\* Closing wakes those who wait and leaves the flow as it is.
LEMMA FlowClosing ==
  ASSUME Flow, StartDrain \/ DrainTimeout \/ EndDrain \/ StartShutdown \/ EndShutdown
  PROVE  Flow'
<1> USE DEF Flow, FlowTypes, Stage, Waiting, SenderServed, Covered, NothingRunsOn, At,
            Handled, HasPermit, HasSlot
<1>1. CASE StartDrain
  BY <1>1 DEF StartDrain
<1>2. CASE DrainTimeout
  BY <1>2 DEF DrainTimeout
<1>3. CASE EndDrain
  BY <1>3 DEF EndDrain, Drained, Untrack
<1>4. CASE StartShutdown
  BY <1>4 DEF StartShutdown
<1>5. CASE EndShutdown
  BY <1>5 DEF EndShutdown, Drained, Untrack
<1> QED
  BY <1>1, <1>2, <1>3, <1>4, <1>5

\* A step of something else leaves the flow alone.
LEMMA FlowIdle == Flow /\ UNCHANGED pool => Flow'
BY DEF pool, ending, Flow, FlowTypes, Waiting, SenderServed, Covered, NothingRunsOn, At

-----------------------------------------------------------------------------
\* The requests the pool counts can be counted.
LEMMA CountSets ==
  ASSUME NEW X \in SUBSET Request
  PROVE  /\ Cardinality(X) \in Nat
         /\ \A r \in Request :
              /\ r \notin X => Cardinality(X \cup {r}) = Cardinality(X) + 1
              /\ r \in X => Cardinality(X \ {r}) = Cardinality(X) - 1
<1>1. IsFiniteSet(X)
  BY PoolAssumption, FS_Subset DEF PoolAssumption
<1> QED
  BY <1>1, FS_CardinalityType, FS_AddElement, FS_RemoveElement

\* What a request that moves on does to the counts.
LEMMA Moves ==
  ASSUME Flow, NEW r \in Request, NEW stage \in Stage, Goes(r, stage), NEW X
  PROVE  At(X)' = IF stage \in X THEN At(X) \cup {r} ELSE At(X) \ {r}
BY DEF Flow, FlowTypes, Goes, At

\* What one request does to the sets that are counted.
LEMMA CountRequest ==
  ASSUME PoolInv, NEW r \in Request, PoolStep(r)
  PROVE  Counts'
<1> DEFINE P == At(HasPermit)  S == At(HasSlot)
<1>1. /\ P \in SUBSET Request /\ S \in SUBSET Request /\ unborn \in SUBSET Request
      /\ slotSem \in Nat /\ globalSlots \in Nat /\ Concurrency \in Nat /\ Slots \in Nat
      /\ slotSem + Cardinality(P) + Cardinality(unborn) = Concurrency
      /\ globalSlots + Cardinality(S) = Slots
      /\ r \in P <=> place[r] \in HasPermit
      /\ r \in S <=> place[r] \in HasSlot
      /\ r \in unborn => place[r] = "done"
  BY PoolAssumption
  DEF PoolAssumption, PoolInv, Flow, FlowTypes, Waiting, Counts, PermitsKept, SlotsKept, At
<1>2. /\ Cardinality(P) \in Nat /\ Cardinality(S) \in Nat /\ Cardinality(unborn) \in Nat
      /\ r \notin P => Cardinality(P \cup {r}) = Cardinality(P) + 1
      /\ r \in P => Cardinality(P \ {r}) = Cardinality(P) - 1
      /\ r \notin S => Cardinality(S \cup {r}) = Cardinality(S) + 1
      /\ r \in S => Cardinality(S \ {r}) = Cardinality(S) - 1
      /\ r \notin unborn => Cardinality(unborn \cup {r}) = Cardinality(unborn) + 1
  BY <1>1, CountSets
<1>3. ASSUME NEW stage \in Stage, Goes(r, stage)
      PROVE  /\ P' = IF stage \in HasPermit THEN P \cup {r} ELSE P \ {r}
             /\ S' = IF stage \in HasSlot THEN S \cup {r} ELSE S \ {r}
  BY <1>3, Moves DEF PoolInv, HasPermit, HasSlot
<1>4. Counts' <=> /\ slotSem' + Cardinality(P') + Cardinality(unborn') = Concurrency
                  /\ globalSlots' + Cardinality(S') = Slots
  BY DEF Counts, PermitsKept, SlotsKept
<1> HIDE DEF P, S
<1>5. CASE SendRequest(r) \/ TakeRequest(r) \/ Answer(r)
  <2>1. P' = P /\ S' = S /\ UNCHANGED <<slotSem, globalSlots, unborn>>
    <3>1. CASE SendRequest(r)
      BY <3>1, <1>1, <1>3 DEF SendRequest, Stage, HasPermit, HasSlot
    <3>2. CASE TakeRequest(r)
      BY <3>2, <1>1, <1>3 DEF TakeRequest, Stage, HasPermit, HasSlot
    <3>3. CASE Answer(r)
      BY <3>3, <1>1, <1>3 DEF Answer, Stage, HasPermit, HasSlot, Handled
    <3> QED
      BY <1>5, <3>1, <3>2, <3>3
  <2> QED
    BY <1>1, <1>4, <2>1
<1>6. CASE GiveUpWaiting(r)
  BY <1>1, <1>4, <1>6 DEF GiveUpWaiting, P, S, At
<1>7. CASE StartHandle(r)
  <2>1. /\ r \notin P /\ P' = P \cup {r} /\ r \notin S /\ S' = S
        /\ slotSem' = slotSem - 1 /\ UNCHANGED <<globalSlots, unborn>>
    BY <1>1, <1>3, <1>7 DEF StartHandle, Stage, HasPermit, HasSlot, Handled
  <2> QED
    BY <1>1, <1>2, <1>4, <2>1
<1>8. CASE Begins(r)
  <2>1. P' = P /\ S' = S /\ UNCHANGED <<slotSem, globalSlots, unborn>>
    BY <1>1, <1>3, <1>8 DEF Begins, Stage, HasPermit, HasSlot, Handled
  <2> QED
    BY <1>1, <1>4, <2>1
<1>9. CASE GetSlot(r)
  <2>1. /\ P' = P /\ r \notin S /\ S' = S \cup {r}
        /\ globalSlots' = globalSlots - 1 /\ UNCHANGED <<slotSem, unborn>>
    BY <1>1, <1>3, <1>9 DEF GetSlot, Stage, HasPermit, HasSlot, Handled
  <2> QED
    BY <1>1, <1>2, <1>4, <2>1
<1>10. CASE Opened(r)
  <2>1. /\ r \in P /\ P' = P \ {r} /\ S' = S
        /\ slotSem' = slotSem + 1 /\ UNCHANGED <<globalSlots, unborn>>
    BY <1>1, <1>3, <1>10 DEF Opened, Stage, HasPermit, HasSlot, Handled
  <2> QED
    BY <1>1, <1>2, <1>4, <2>1
<1>11. CASE Leaves(r)
  <2>1. /\ P' = P \ {r} /\ S' = S \ {r} /\ unborn' = unborn
        /\ slotSem' = IF r \in P THEN slotSem + 1 ELSE slotSem
        /\ globalSlots' = IF r \in S THEN globalSlots + 1 ELSE globalSlots
    BY <1>1, <1>3, <1>11 DEF Leaves, Stage, HasPermit, HasSlot
  <2>2. slotSem' + Cardinality(P') + Cardinality(unborn') = Concurrency
    <3>1. CASE r \in P
      BY <1>1, <1>2, <2>1, <3>1
    <3>2. CASE r \notin P
      <4>1. P' = P
        BY <2>1, <3>2
      <4> QED
        BY <1>1, <2>1, <3>2, <4>1
    <3> QED
      BY <3>1, <3>2
  <2>3. globalSlots' + Cardinality(S') = Slots
    <3>1. CASE r \in S
      BY <1>1, <1>2, <2>1, <3>1
    <3>2. CASE r \notin S
      <4>1. S' = S
        BY <2>1, <3>2
      <4> QED
        BY <1>1, <2>1, <3>2, <4>1
    <3> QED
      BY <3>1, <3>2
  <2> QED
    BY <1>4, <2>2, <2>3
<1>12. CASE NeverBegins(r)
  <2>1. /\ r \in P /\ P' = P \ {r} /\ r \notin S /\ S' = S
        /\ r \notin unborn /\ unborn' = unborn \cup {r} /\ UNCHANGED <<slotSem, globalSlots>>
    BY <1>1, <1>3, <1>12 DEF NeverBegins, Stage, HasPermit, HasSlot
  <2> QED
    BY <1>1, <1>2, <1>4, <2>1
<1> QED
  BY <1>5, <1>6, <1>7, <1>8, <1>9, <1>10, <1>11, <1>12
  DEF PoolStep, NoSuchPage, PageClosed, CutShort

\* The ends of drains and the shutdown move no permit and no slot.
LEMMA CountRest ==
  ASSUME PoolInv,
         StartDrain \/ DrainTimeout \/ EndDrain \/ StartShutdown \/ EndShutdown \/ UNCHANGED pool
  PROVE  Counts'
<1>1. UNCHANGED <<slotSem, globalSlots, unborn>>
  BY DEF StartDrain, DrainTimeout, EndDrain, StartShutdown, EndShutdown, pool
<1>2. At(HasPermit)' = At(HasPermit) /\ At(HasSlot)' = At(HasSlot)
  BY DEF PoolInv, Flow, FlowTypes, Stage, At, Handled, HasPermit, HasSlot, StartDrain, DrainTimeout,
         EndDrain, StartShutdown, EndShutdown, pool
<1> QED
  BY <1>1, <1>2 DEF PoolInv, Counts, PermitsKept, SlotsKept

-----------------------------------------------------------------------------
\* The permits and the slots of the pool add up at any time.
LEMMA PoolInvHolds == PoolSpec => []PoolInv
<1>1. PoolInit => PoolInv
  <2> SUFFICES ASSUME PoolInit PROVE Counts
    BY FlowInit DEF PoolInv
  <2>1. At(HasPermit) = {} /\ At(HasSlot) = {} /\ unborn = {}
    BY DEF PoolInit, At, HasPermit, HasSlot
  <2>2. Cardinality({}) = 0
    BY FS_EmptySet
  <2> QED
    BY <2>1, <2>2, PoolAssumption DEF PoolAssumption, PoolInit, Counts, PermitsKept, SlotsKept
<1>2. PoolInv /\ [PoolNext]_pool => PoolInv'
  <2> SUFFICES ASSUME PoolInv, [PoolNext]_pool PROVE PoolInv'
    OBVIOUS
  <2>1. CASE \E r \in Request : PoolStep(r)
    BY <2>1, FlowRequest, CountRequest DEF PoolInv
  <2>2. CASE StartDrain \/ DrainTimeout \/ EndDrain \/ StartShutdown \/ EndShutdown
    BY <2>2, FlowClosing, CountRest DEF PoolInv
  <2>3. CASE UNCHANGED pool
    BY <2>3, FlowIdle, CountRest DEF PoolInv
  <2> QED
    BY <2>1, <2>2, <2>3 DEF PoolNext
<1> QED
  BY <1>1, <1>2, PTL DEF PoolSpec

\* Types, for any numbers: the semaphore never exceeds the concurrency nor the
\* queue of slots its size.
THEOREM PoolTypesHold == PoolSpec => []PoolTypeOK
<1>1. PoolInv => PoolTypeOK
  <2> SUFFICES ASSUME PoolInv PROVE PoolTypeOK
    OBVIOUS
  <2>1. At(HasPermit) \in SUBSET Request /\ At(HasSlot) \in SUBSET Request /\ unborn \in SUBSET Request
    BY DEF PoolInv, Flow, FlowTypes, At
  <2>2. Cardinality(At(HasPermit)) \in Nat /\ Cardinality(At(HasSlot)) \in Nat /\ Cardinality(unborn) \in Nat
    BY <2>1, CountSets
  <2>3. slotSem \in 0 .. Concurrency /\ globalSlots \in 0 .. Slots
    BY <2>2, PoolAssumption DEF PoolAssumption, PoolInv, Counts, PermitsKept, SlotsKept, Flow, FlowTypes
  <2> QED
    BY <2>3 DEF PoolInv, Flow, FlowTypes, PoolTypeOK, Stage
<1> QED
  BY <1>1, PoolInvHolds, PTL

\* No path through a handle leaks a permit or gives one back twice.
THEOREM SemaphoreBalance == PoolSpec => []PermitsKept
<1>1. PoolInv => PermitsKept
  BY DEF PoolInv, Counts
<1> QED
  BY <1>1, PoolInvHolds, PTL

\* Nor a slot.
THEOREM SlotBalance == PoolSpec => []SlotsKept
<1>1. PoolInv => SlotsKept
  BY DEF PoolInv, Counts
<1> QED
  BY <1>1, PoolInvHolds, PTL

\* A sender that waits has a request that is still on its way, short of a
\* drain that ran out of time and the shutdown.
THEOREM SendersServed == PoolSpec => []SenderServed
<1>1. PoolInv => SenderServed
  BY DEF PoolInv, Flow
<1> QED
  BY <1>1, PoolInvHolds, PTL

\* Browsers are closed under no task that was not started during a drain.
THEOREM BrowsersOutliveTasks == PoolSpec => []NothingRunsOn
<1>1. PoolInv => NothingRunsOn
  BY DEF PoolInv, Flow
<1> QED
  BY <1>1, PoolInvHolds, PTL

\* The capacity of the pool is the same in the end as in the beginning, whatever is
\* answered, fails or is cancelled.
THEOREM CapacityStays == PoolSpec => []CapacityKept
<1>1. PoolInv => CapacityKept
  BY DEF PoolInv, Counts, CapacityKept
<1> QED
  BY <1>1, PoolInvHolds, PTL
=============================================================================
