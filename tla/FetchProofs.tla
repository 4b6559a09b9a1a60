----------------------------- MODULE FetchProofs ------------------------------
(***************************************************************************)
(* How pages are fetched and found, for any number of tries, origins,      *)
(* sitemaps and lines of a robots.txt, and any threshold, cooldown and     *)
(* limit: a slot comes back to its own path, a switch without a browser    *)
(* does not use up the try it is for, the breaker of a proxy keeps its     *)
(* promises, the discovery of sitemaps counts what it hands out, and       *)
(* robots.txt is fetched once for all who wait and read as RFC 9309 has    *)
(* it.                                                                     *)
(***************************************************************************)
EXTENDS PageFetch, PlainFetch, ProxyBreaker, SitemapDiscovery, RobotsCache, ProofBasics, SequenceTheorems, FiniteSetTheorems, TLAPS

-----------------------------------------------------------------------------
(* The path of a fetch                                                       *)

\* While a try is under way the flag follows the slot.
FlagFollows == at \in {"loop", "attempt", "rotate", "replace"} => flag = via

\* Only a rotation presumes a proxy.
RotatesProxy == at = "rotate" => via = "proxy"

\* Whoever has led the slot astray is still going to lead it back, or could not.
OwedBack == via = Main \/ astray \/ shut \/ scoped

\* scoped_path is entered once at a time, and not from the main path's own tries.
ScopeKnown ==
  /\ scoped => section # "main" /\ at \notin {"idle", "page", "enter", "tidy"}
  /\ at = "enter" => section # "main"

PathInv == FlagFollows /\ RotatesProxy /\ OwedBack /\ ScopeKnown

\* A fetch starts on the path of its slot.
LEMMA PathInit == FetchInit => PathInv
BY SMT DEF FetchInit, PathInv, FlagFollows, RotatesProxy, OwedBack, ScopeKnown

\* Every try, switch and rotation keeps the flag with the slot.
LEMMA PathStep == PathInv /\ [FetchNext]_fetch => PathInv'
<1> SUFFICES ASSUME PathInv, [FetchNext]_fetch PROVE PathInv'
  OBVIOUS
<1> USE DEF PathInv, FlagFollows, RotatesProxy, OwedBack, ScopeKnown, Main,
            context, hands, progress, history
<1>1. CASE Start
  BY <1>1, SMT DEF Start
<1>2. CASE OpenPage
  BY <1>2, SMT DEF OpenPage, BeginLoop, HasFallback
<1>3. CASE NoPage
  BY <1>3, SMT DEF NoPage
<1>4. CASE SwitchOver
  BY <1>4, SMT DEF SwitchOver, Swap, NoSwap, BeginLoop, OtherPath
<1>5. CASE CannotSwitch
  BY <1>5, SMT DEF CannotSwitch
<1>6. CASE ToMain
  BY <1>6, SMT DEF ToMain, Over, BeginLoop
<1>7. CASE ToFallback
  BY <1>7, SMT DEF ToFallback, Over, HasFallback
<1>8. CASE FetchFails
  BY <1>8, SMT DEF FetchFails, Over, End
<1>9. CASE SwitchBack
  BY <1>9, SMT DEF SwitchBack, Swap, NoSwap, BeginLoop
<1>10. CASE Tidy
  BY <1>10, SMT DEF Tidy
<1>11. CASE NextTry \/ NoNewPage
  BY <1>11, SMT DEF NextTry, NoNewPage
<1>12. CASE Loads
  BY <1>12, SMT DEF Loads, End
<1>13. CASE LoadFails
  BY <1>13, SMT DEF LoadFails
<1>14. CASE Rotate \/ SameProxy
  <2>1. via' = via
    BY <1>14, SMT DEF Rotate, SameProxy, Swap
  <2>2. shut \/ (astray /\ via # Main) => shut' \/ astray'
    BY <1>14, <2>1, Zenon DEF Rotate, SameProxy, Swap
  <2>3. /\ at' \in {"loop", "over"} /\ (at' = "loop" => flag' = via')
        /\ UNCHANGED <<mode, section, scoped>>
    BY <1>14, SMT DEF Rotate, SameProxy
  <2> QED
    BY <1>14, <2>1, <2>2, <2>3, SMT
<1>15. CASE NoRotation \/ RotationFails
  BY <1>15, SMT DEF NoRotation, RotationFails, End
<1>16. CASE ReplaceContext
  <2>1. via' = via
    BY <1>16, SMT DEF ReplaceContext, Swap, NoSwap
  <2>2. shut \/ (astray /\ via # Main) => shut' \/ astray'
    BY <1>16, <2>1, Zenon DEF ReplaceContext, Swap, NoSwap
  <2> QED
    BY <1>16, <2>1, <2>2, Zenon DEF ReplaceContext
<1>17. CASE CannotReplace
  BY <1>17, SMT DEF CannotReplace
<1>18. CASE BrowserGoes \/ BrowserBack \/ StopAccepting
  BY <1>18, SMT DEF BrowserGoes, BrowserBack, StopAccepting
<1>19. CASE UNCHANGED fetch
  BY <1>19, SMT DEF fetch
<1> QED
  BY <1>1, <1>2, <1>3, <1>4, <1>5, <1>6, <1>7, <1>8, <1>9, <1>10, <1>11, <1>12, <1>13,
     <1>14, <1>15, <1>16, <1>17, <1>18, <1>19, Zenon DEF FetchNext, FetchStep

\* The flag is with the slot at any time.
LEMMA PathAlways == FetchSpec => []PathInv
BY PathInit, PathStep, PTL DEF FetchSpec

\* Whatever scoped_path, rotations, replacements and a restart of the browser do to a
\* slot, for any number of retries: the next fetch finds it on its own path, unless the
\* way back failed, and errors are classified by the path that was taken.
THEOREM SlotKeepsPath == FetchSpec => []PathKept
<1>1. PathInv => PathKept
  BY SMT DEF PathInv, PathKept, PathRestored, FlagFresh, FlagFollows, OwedBack, ScopeKnown
<1> QED
  BY <1>1, PathAlways, PTL

-----------------------------------------------------------------------------
BothPaths == {"direct", "proxy"}

\* Before the switch the request is on the path its mode prefers, unless that had
\* nothing to offer.
Preferred ==
  doing # "idle" /\ ~switched /\ ~dry =>
    /\ proxyMode = "prefer_proxy" => proxy # NoProxy
    /\ proxyMode = "prefer_direct" => proxy = NoProxy

\* After it the request to come, if one is, is over the path that is missing.
SwitchCompletes ==
  doing # "idle" /\ switched => \A p \in BothPaths : p \in used \/ p = PathOf(proxy)

\* To another proxy one turns after a request over one, that failed for its sake.
TurnsAfterRequest ==
  doing = "turn" => PathOf(proxy) \in used /\ proxy # NoProxy /\ error \notin {"none", "SSL"}

\* Of the types only these matter.
KnownPaths == used \subseteq BothPaths /\ error \in Errors \cup {"none"}

SwitchInv == KnownPaths /\ Preferred /\ SwitchCompletes /\ TurnsAfterRequest /\ BothPathsTried

\* A fetch without a browser starts with its tries unused.
LEMMA SwitchInit == PlainInit => SwitchInv
BY PlainAssumption, SMT
DEF PlainAssumption, PlainInit, SwitchInv, KnownPaths, Preferred, SwitchCompletes,
    TurnsAfterRequest, BothPathsTried, BothPaths, PathOf, Errors

\* A request ends the call only with what it was answered, or on a path that leaves
\* no other to try.
LEMMA FailureEnds ==
  ASSUME SwitchInv, NEW e \in Errors,
         doing = "request" \/ (doing = "turn" /\ e = error),
         used' = used \cup {PathOf(proxy)}, error' = e, UNCHANGED proxyMode,
         SwitchPath(e) \/ StayOnPath(e)
  PROVE SwitchInv'
<1>0. PathOf(proxy) \in used'
  OBVIOUS
<1> USE PlainAssumption
    DEF PlainAssumption, SwitchInv, KnownPaths, Preferred, SwitchCompletes, TurnsAfterRequest,
        BothPathsTried, BothPaths, PathOf, Errors, WorthOtherPath
<1>1. CASE SwitchPath(e)
  <2>1. /\ ~switched /\ switched' /\ doing' = "request"
        /\ IF proxy = NoProxy THEN proxy' # NoProxy ELSE proxy' = NoProxy
    BY <1>1, SMT DEF SwitchPath
  <2>2. used' \subseteq BothPaths
    BY SMT
  <2>3. \A p \in BothPaths : p = PathOf(proxy) \/ p = PathOf(proxy')
    BY <2>1, SMT
  <2> QED
    BY <1>0, <2>1, <2>2, <2>3, SMT
<1>2. CASE StayOnPath(e)
  <2>1. /\ proxy' = proxy /\ switched' = switched /\ doing' \in {"idle", "request"}
        /\ WorthOtherPath(e) => proxy = NoProxy
    BY <1>2, SMT DEF StayOnPath, EndWith, CountTry
  <2>2. ~dry' => ~dry /\ ~WorthOtherPath(e)
    BY <1>2, Zenon DEF StayOnPath
  <2>3. used' \subseteq BothPaths
    BY SMT
  <2>4. switched => \A p \in BothPaths : p \in used'
    BY <1>0, SMT
  <2>5. ~switched /\ ~dry' /\ e # "SSL" => proxyMode \notin {"prefer_direct", "prefer_proxy"}
    BY <2>2, SMT
  <2>6. KnownPaths' /\ TurnsAfterRequest'
    BY <2>1, <2>3, SMT
  <2>7. Preferred'
    BY <2>1, <2>2, SMT
  <2>8. SwitchCompletes'
    BY <2>1, <2>4, SMT
  <2>9. BothPathsTried'
    <3>1. switched => used' = BothPaths
      BY <2>3, <2>4, Zenon
    <3> QED
      BY <2>5, <3>1, SMT
  <2> QED
    BY <2>6, <2>7, <2>8, <2>9
<1> QED
  BY <1>1, <1>2

\* A switch of the path leaves the tries as many as they were.
LEMMA SwitchStep == SwitchInv /\ [PlainNext]_plain => SwitchInv'
<1> SUFFICES ASSUME SwitchInv, [PlainNext]_plain PROVE SwitchInv'
  OBVIOUS
<1> USE PlainAssumption
    DEF PlainAssumption, SwitchInv, KnownPaths, Preferred, SwitchCompletes, TurnsAfterRequest,
        BothPathsTried, BothPaths, PathOf, Errors
<1>1. CASE Call
  <2>1. ~dry' => (proxyMode \in {"proxy_only", "prefer_proxy"} => proxy' # NoProxy)
    BY <1>1, Zenon DEF Call
  <2>2. /\ UNCHANGED proxyMode /\ doing' = "request" /\ ~switched' /\ error' = "none" /\ used' = {}
        /\ proxyMode = "prefer_direct" => proxy' = NoProxy
    BY <1>1, SMT DEF Call
  <2> QED
    BY <2>1, <2>2, SMT
<1>2. CASE Answered
  BY <1>2, SMT DEF Answered, SendRequest, EndWith, CountTry
<1>3. ASSUME NEW e \in Errors, RequestFails(e) PROVE SwitchInv'
  <2>1. CASE Strategy(e) = "ROTATE_PROXY"
    <3>1. e \in {"TIMEOUT", "CONNECTION_REFUSED"} /\ proxy # NoProxy
      BY <2>1, Zenon DEF Strategy
    <3> QED
      BY <1>3, <2>1, <3>1, SMT DEF RequestFails, SendRequest
  <2>2. CASE Strategy(e) # "ROTATE_PROXY"
    BY <1>3, <2>2, FailureEnds, Zenon DEF RequestFails, SendRequest
  <2> QED
    BY <2>1, <2>2
<1>4. CASE Rotated
  BY <1>4, SMT DEF Rotated
<1>5. CASE NotRotated
  <2>1. error \in Errors /\ used' = used \cup {PathOf(proxy)} /\ error' = error
    BY <1>5, SMT DEF NotRotated
  <2> QED
    BY <1>5, <2>1, FailureEnds, Zenon DEF NotRotated
<1>6. CASE UNCHANGED plain
  BY <1>6, SMT DEF plain
<1> QED
  BY <1>1, <1>2, <1>3, <1>4, <1>5, <1>6, Zenon DEF PlainNext, PlainStep

\* For any proxies and any number of tries, a plain fetch with a path to fall back on
\* gives up only after a request over either, or for want of a proxy.
THEOREM NeitherPathSkipped == PlainSpec => []BothPathsTried
<1>1. SwitchInv => BothPathsTried
  BY DEF SwitchInv
<1> QED
  BY <1>1, SwitchInit, SwitchStep, PTL DEF PlainSpec

-----------------------------------------------------------------------------
(* The breaker of a proxy                                                    *)

(* What the count of probes owes to the cooldown: a count that was left     *)
(* before the breaker opened meets a cooldown of more than a round, and a   *)
(* first round after the cooldown has been counted.                         *)
StaleCount == circuit = "open" /\ probed = 1 /\ streak = 0 => cool > 1
CountsOverdue == circuit = "open" /\ overdue > 0 => overdue = 1 /\ probed = 1 /\ cool = 0

BreakerInv ==
  /\ BreakerTypeOK /\ ClosedHasRoom /\ ProbedTwice
  /\ StaleCount /\ CountsOverdue

\* A second cooldown is no shorter than the first.
LEMMA LongestLong == Longest \in Nat /\ Longest >= Cooldown /\ Longest > 1
BY BreakerAssumption, SMT DEF BreakerAssumption, Longest

\* A breaker starts closed, with nothing counted.
LEMMA InitInv == BreakerInit => BreakerInv
BY BreakerAssumption, LongestLong, SMT
DEF BreakerAssumption, BreakerInit, BreakerInv, BreakerTypeOK, ClosedHasRoom,
    ProbedTwice, StaleCount, CountsOverdue

\* Every report, probe and round keeps what the counts owe to the cooldown.
LEMMA StepInv == BreakerInv /\ [BreakerNext]_breaker => BreakerInv'
<1> SUFFICES ASSUME BreakerInv, [BreakerNext]_breaker PROVE BreakerInv'
  OBVIOUS
<1> USE BreakerAssumption, LongestLong
    DEF BreakerAssumption, BreakerInv, BreakerTypeOK, ClosedHasRoom, ProbedTwice,
        StaleCount, CountsOverdue
<1>1. CASE \E w \in Weight : FailsClosed(w)
  BY <1>1, SMT DEF FailsClosed, Count, Open, AtMost
<1>2. CASE \E w \in Weight : FailsOpen(w)
  BY <1>2, SMT DEF FailsOpen, Count, AtMost
<1>3. CASE \E w \in Weight : FailsOnTrial(w)
  BY <1>3, SMT DEF FailsOnTrial, Count, AtMost
<1>4. CASE \E w \in Weight : TrialEnds(w)
  BY <1>4, SMT DEF TrialEnds, Count, Open, AtMost
<1>5. CASE Succeeds
  BY <1>5, SMT DEF Succeeds
<1>6. CASE Skips
  BY <1>6, SMT DEF Skips, Before, AtMost
<1>7. CASE Unreachable
  BY <1>7, SMT DEF Unreachable, TimePasses, Before, AtMost
<1>8. CASE Reachable
  BY <1>8, SMT DEF Reachable, Activate, Before, AtMost
<1>9. CASE UNCHANGED breaker
  BY <1>9, SMT DEF breaker
<1> QED
  BY <1>1, <1>2, <1>3, <1>4, <1>5, <1>6, <1>7, <1>8, <1>9, Zenon DEF BreakerNext

\* The counts owe it at any time.
LEMMA AlwaysInv == BreakerSpec => []BreakerInv
BY InitInv, StepInv, PTL DEF BreakerSpec

\* The breaker's types, for any threshold and times: counts stay in bounds.
THEOREM BreakerTypes == BreakerSpec => []BreakerTypeOK
<1>1. BreakerInv => BreakerTypeOK
  BY DEF BreakerInv
<1> QED
  BY <1>1, AlwaysInv, PTL

\* A closed breaker always has room for a failure.
THEOREM RoomWhenClosed == BreakerSpec => []ClosedHasRoom
<1>1. BreakerInv => ClosedHasRoom
  BY DEF BreakerInv
<1> QED
  BY <1>1, AlwaysInv, PTL

\* No trial without two probes in a row that reached the proxy, as long as the
\* cooldown is longer than one round.
THEOREM TrialsAreProbed == BreakerSpec => []ProbedTwice
<1>1. BreakerInv => ProbedTwice
  BY DEF BreakerInv
<1> QED
  BY <1>1, AlwaysInv, PTL

\* A proxy that is reachable has its trial two rounds after the cooldown.
THEOREM RecoveryInTime == BreakerSpec => []RecoversSoon
<1>1. BreakerInv => RecoversSoon
  BY SMT DEF BreakerInv, BreakerTypeOK, CountsOverdue, RecoversSoon
<1> QED
  BY <1>1, AlwaysInv, PTL

\* The life of a breaker, for any thresholds and weights.
THEOREM BreakerAlwaysSound == BreakerSpec => []BreakerSound
<1>1. BreakerSound <=> ClosedHasRoom /\ ProbedTwice /\ RecoversSoon
  BY DEF BreakerSound
<1> QED
  BY <1>1, RoomWhenClosed, TrialsAreProbed, RecoveryInTime, PTL

-----------------------------------------------------------------------------
(* The discovery of sitemaps                                                 *)

\* Origins that are being discovered
Counted == {s \in Site : task[s] \in {"robots", "reading"}}
Leaves == {d \in seenDocs : Children[d] = {}}
Queueing == {r \in readers : r.at = "queue"}
AtLeaf == {r \in readers : r.at \in {"check", "queue"}}

\* A sitemap is read by the first reader that met it and by no other; a reader that
\* hands out URLs has a list of them.
ReadersKnow ==
  /\ \A r \in readers : r.at # "begin" => r.doc \in seenDocs /\ r.depth <= MaxRecursion
  /\ \A r, q \in readers : r.at # "begin" /\ q.at # "begin" /\ r.doc = q.doc => r = q
  /\ \A r \in readers :
       /\ r.at \in {"check", "queue"} => Children[r.doc] = {}
       /\ r.at = "queue" => r.left > 0

SitemapInv == SitemapTypeOK /\ ReadersKnow /\ DoneWhenDone /\ LimitNearlyKept

-----------------------------------------------------------------------------
\* What the proofs use of the sites and their sitemaps.
LEMMA SitemapConstants ==
  /\ IsFiniteSet(Site) /\ IsFiniteSet(Doc) /\ SeedSites \subseteq Site /\ SeedSites # {}
  /\ Candidates \in [Site -> SUBSET Doc] /\ Children \in [Doc -> SUBSET Doc] /\ Entries \in [Doc -> Nat]
  /\ MaxRecursion \in Nat /\ MaxUrls \in Nat /\ MaxUrls > 0
  BY SitemapAssumption

\* Readers at lists of URLs are no more than the lists met.
LEMMA LeafReaders ==
  ASSUME SitemapTypeOK, ReadersKnow
  PROVE  /\ IsFiniteSet(AtLeaf) /\ Cardinality(AtLeaf) \in Nat
         /\ IsFiniteSet(Leaves) /\ Cardinality(Leaves) \in Nat
         /\ IsFiniteSet(Queueing) /\ Cardinality(Queueing) \in Nat
         /\ Cardinality(AtLeaf) <= Cardinality(Leaves)
<1>1. IsFiniteSet(Leaves)
  BY SitemapConstants, FS_Subset DEF SitemapTypeOK, Leaves
<1> DEFINE f == [r \in AtLeaf |-> r.doc]
<1>2. f \in Injection(AtLeaf, Leaves)
  <2>1. \A r \in AtLeaf : r.doc \in Leaves
    BY DEF AtLeaf, Leaves, ReadersKnow
  <2>2. \A r, q \in AtLeaf : r.doc = q.doc => r = q
    BY DEF AtLeaf, ReadersKnow
  <2> QED BY <2>1, <2>2 DEF Injection, IsInjective
<1>3. IsFiniteSet(AtLeaf) /\ Cardinality(AtLeaf) <= Cardinality(Leaves)
  BY <1>1, <1>2, FS_Injection
<1>4. IsFiniteSet(Queueing)
  <2>1. Queueing \subseteq AtLeaf
    BY DEF Queueing, AtLeaf
  <2> QED BY <1>3, <2>1, FS_Subset
<1> QED BY <1>1, <1>3, <1>4, FS_CardinalityType

\* The origins being discovered can be counted.
LEMMA CountedFinite ==
  /\ IsFiniteSet(Counted) /\ Cardinality(Counted) \in 0 .. Cardinality(Site)
  /\ Cardinality(Counted) = 0 <=> Counted = {}
<1>1. IsFiniteSet(Counted) /\ Cardinality(Counted) <= Cardinality(Site)
  BY SitemapConstants, FS_Subset DEF Counted
<1>2. Cardinality(Counted) \in Nat /\ Cardinality(Site) \in Nat
  BY <1>1, SitemapConstants, FS_CardinalityType
<1> QED BY <1>1, <1>2, FS_EmptySet

\* A discovery starts without readers.
LEMMA SitemapStarts == SitemapInit => SitemapInv
<1> SUFFICES ASSUME SitemapInit PROVE SitemapInv
  OBVIOUS
<1> USE DEF SitemapInit
<1>0. Cardinality(Site) \in Nat /\ MaxUrls \in Nat /\ MaxUrls > 0
  BY SitemapConstants, FS_CardinalityType
<1>e. Cardinality({}) = 0
  BY FS_EmptySet
<1>1. SitemapTypeOK
  <2>1. task \in [Site -> {"none", "launched", "robots", "reading", "over"}]
    OBVIOUS
  <2>2. pending \in 0 .. Cardinality(Site) /\ discovered \in Nat
    BY <1>0
  <2> QED BY <2>1, <2>2 DEF SitemapTypeOK
<1>2. ReadersKnow
  BY DEF ReadersKnow
<1>3. DoneWhenDone
  <2>1. {s \in Site : task[s] \in {"robots", "reading"}} = {}
    OBVIOUS
  <2> QED BY <1>e, <2>1 DEF DoneWhenDone
<1>4. LimitNearlyKept
  <2>1. {r \in readers : r.at = "queue"} = {} /\ {d \in seenDocs : Children[d] = {}} = {}
    OBVIOUS
  <2> QED BY <1>0, <1>e, <2>1 DEF LimitNearlyKept
<1> QED BY <1>1, <1>2, <1>3, <1>4 DEF SitemapInv

-----------------------------------------------------------------------------
\* An origin more, or one less
LEMMA OriginCounts ==
  ASSUME NEW s \in Site
  PROVE  /\ s \notin Counted /\ Counted' = Counted \cup {s} => Cardinality(Counted') = Cardinality(Counted) + 1
         /\ s \in Counted /\ Counted' = Counted \ {s} => Cardinality(Counted') = Cardinality(Counted) - 1
<1>1. IsFiniteSet(Counted)
  BY CountedFinite
<1> QED BY <1>1, FS_AddElement, FS_RemoveElement

\* An origin that is over is taken off the count, and the last one says that all are done.
LEMMA OriginLeaves ==
  ASSUME SitemapInv, NEW s \in Site, task[s] \in {"robots", "reading"}, OriginOver(s)
  PROVE  DoneWhenDone' /\ task' \in [Site -> {"none", "launched", "robots", "reading", "over"}]
<1>1. task' \in [Site -> {"none", "launched", "robots", "reading", "over"}]
  BY DEF SitemapInv, SitemapTypeOK, OriginOver
<1>2. s \in Counted /\ Counted' = Counted \ {s}
  BY DEF Counted, SitemapInv, SitemapTypeOK, OriginOver
<1>3. Cardinality(Counted') = Cardinality(Counted) - 1
  BY <1>2, OriginCounts
<1>n. Cardinality(Counted) \in Nat /\ Cardinality(Counted) # 0
  BY <1>2, CountedFinite
<1>4. pending = Cardinality(Counted) /\ (allDone <=> pending = 0) /\ allDone \in BOOLEAN
  BY DEF SitemapInv, SitemapTypeOK, DoneWhenDone, Counted
<1>5. pending' = pending - 1 /\ allDone' = (pending = 1 \/ allDone)
  BY DEF OriginOver
<1>6. pending' = Cardinality(Counted') /\ (allDone' <=> pending' = 0)
  <2>1. ~allDone
    BY <1>n, <1>4
  <2>2. pending' = Cardinality(Counted') /\ (pending' = 0 <=> pending = 1)
    BY <1>3, <1>n, <1>4, <1>5
  <2> QED BY <1>5, <2>1, <2>2
<1> QED BY <1>1, <1>6 DEF DoneWhenDone, Counted

\* The count of the origins follows their tasks through every step.
LEMMA OriginsCounted == SitemapInv /\ [SitemapNext]_sitemap => DoneWhenDone'
<1> SUFFICES ASSUME SitemapInv, [SitemapNext]_sitemap PROVE DoneWhenDone'
  OBVIOUS
<1>t. task \in [Site -> {"none", "launched", "robots", "reading", "over"}]
  BY DEF SitemapInv, SitemapTypeOK
<1>d. pending = Cardinality(Counted) /\ (allDone <=> pending = 0)
  BY DEF SitemapInv, DoneWhenDone, Counted
<1>n. Cardinality(Counted) \in Nat
  BY CountedFinite
<1>1. CASE StartDiscovery
  <2>1. Counted' = Counted \cup SeedSites /\ Counted \cap SeedSites = {}
    BY <1>1, <1>t, SitemapConstants DEF StartDiscovery, Counted
  <2>2. IsFiniteSet(SeedSites) /\ Cardinality(SeedSites) \in Nat /\ Cardinality(SeedSites) # 0
    BY SitemapConstants, FS_Subset, FS_CardinalityType, FS_EmptySet
  <2>3. Cardinality(Counted') = Cardinality(Counted) + Cardinality(SeedSites) - Cardinality({})
    BY <2>1, <2>2, CountedFinite, FS_Union
  <2>4. Cardinality({}) = 0
    BY FS_EmptySet
  <2>5. pending' = Cardinality(Counted') /\ (allDone' <=> pending' = 0)
    BY <1>1, <1>d, <1>n, <2>2, <2>3, <2>4 DEF StartDiscovery
  <2> QED BY <2>5 DEF DoneWhenDone, Counted
<1>2. ASSUME NEW s \in Site, Launched(s) PROVE DoneWhenDone'
  <2>1. s \notin Counted /\ Counted' = Counted \cup {s}
    BY <1>2, <1>t DEF Launched, Counted
  <2>2. Cardinality(Counted') = Cardinality(Counted) + 1
    BY <2>1, OriginCounts
  <2>3. pending' = Cardinality(Counted') /\ (allDone' <=> pending' = 0)
    BY <1>2, <1>d, <1>n, <2>2 DEF Launched
  <2> QED BY <2>3 DEF DoneWhenDone, Counted
<1>3. ASSUME NEW s \in Site, RobotsCut(s) \/ OriginDone(s) \/ Closed(s) PROVE DoneWhenDone'
  BY <1>3, OriginLeaves DEF RobotsCut, OriginDone, Closed
<1>4. ASSUME Counted' = Counted, UNCHANGED <<pending, allDone>> PROVE DoneWhenDone'
  BY <1>4, <1>d DEF DoneWhenDone, Counted
<1>5. ASSUME NEW s \in Site, DiscoverIfNew(s) \/ AskedRobots(s) PROVE DoneWhenDone'
  <2>1. Counted' = Counted
    BY <1>5, <1>t DEF DiscoverIfNew, AskedRobots, Counted
  <2> QED BY <1>5, <1>4, <2>1 DEF DiscoverIfNew, AskedRobots
<1>6. ASSUME UNCHANGED <<task, pending, allDone>> PROVE DoneWhenDone'
  BY <1>4, <1>6 DEF Counted
<1>7. ReaderStep \/ StopSet \/ UNCHANGED sitemap => UNCHANGED <<task, pending, allDone>>
  BY DEF ReaderStep, FirstMet, Fetching, NotFetched, Fetched, Checked, LeafQueued, Quiet, StopSet, sitemap
<1> QED BY <1>1, <1>2, <1>3, <1>5, <1>6, <1>7 DEF SitemapNext, OriginStep

-----------------------------------------------------------------------------
\* Readers that begin take nothing with them but their sitemap and its depth.
LEMMA NewReadersTyped ==
  ASSUME NEW s \in Site, NEW docs \in SUBSET Doc, NEW depth \in 0 .. MaxRecursion + 1
  PROVE  NewReaders(s, docs, depth) \subseteq Reader /\ \A r \in NewReaders(s, docs, depth) : r.at = "begin"
  BY DEF NewReaders, Reader

\* What a step of a reader does to the readers
LEMMA ReadersMove ==
  ASSUME SitemapInv, NEW r \in readers, NEW q \in Reader, Turns(r, q), seenDocs \subseteq seenDocs',
         q.doc = r.doc, q.depth = r.depth, q.doc \in seenDocs', q.depth <= MaxRecursion,
         r.at # "begin" \/ r.doc \notin seenDocs,
         q.at \in {"check", "queue"} => Children[q.doc] = {},
         q.at = "queue" => q.left > 0
  PROVE  readers' \subseteq Reader /\ ReadersKnow'
<1> USE DEF SitemapInv, SitemapTypeOK, Turns
<1>1. readers' \subseteq Reader /\ \A p \in readers' : p = q \/ (p \in readers /\ p # r)
  OBVIOUS
<1>2. \A p \in readers : p.at # "begin" /\ p # r => p.doc # q.doc
  BY DEF ReadersKnow
<1>3. \A p \in readers' : p.at # "begin" => p.doc \in seenDocs' /\ p.depth <= MaxRecursion
  BY <1>1 DEF ReadersKnow
<1>4. \A p, o \in readers' : p.at # "begin" /\ o.at # "begin" /\ p.doc = o.doc => p = o
  BY <1>1, <1>2 DEF ReadersKnow
<1>5. \A p \in readers' : (p.at \in {"check", "queue"} => Children[p.doc] = {}) /\ (p.at = "queue" => p.left > 0)
  BY <1>1 DEF ReadersKnow
<1> QED BY <1>1, <1>3, <1>4, <1>5 DEF ReadersKnow

\* Readers go, and readers that begin come.
LEMMA ReadersGo ==
  ASSUME SitemapInv, NEW new \in SUBSET Reader, \A r \in new : r.at = "begin",
         readers' \subseteq readers \cup new, seenDocs \subseteq seenDocs'
  PROVE  readers' \subseteq Reader /\ ReadersKnow' /\ Queueing' \subseteq Queueing
<1> USE DEF SitemapInv, SitemapTypeOK
<1>1. readers' \subseteq Reader
  OBVIOUS
<1>2. \A p \in readers' : p.at # "begin" => p \in readers
  OBVIOUS
<1>3. ReadersKnow'
  <2>1. \A p \in readers' : p.at # "begin" => p.doc \in seenDocs' /\ p.depth <= MaxRecursion
    BY <1>2 DEF ReadersKnow
  <2>2. \A p, o \in readers' : p.at # "begin" /\ o.at # "begin" /\ p.doc = o.doc => p = o
    BY <1>2 DEF ReadersKnow
  <2>3. \A p \in readers' : (p.at \in {"check", "queue"} => Children[p.doc] = {}) /\ (p.at = "queue" => p.left > 0)
    BY <1>2 DEF ReadersKnow
  <2> QED BY <2>1, <2>2, <2>3 DEF ReadersKnow
<1> QED BY <1>1, <1>2, <1>3 DEF Queueing

\* A sitemap stays with the reader that met it first, and what was met stays known.
LEMMA ReadersKept == SitemapInv /\ [SitemapNext]_sitemap => readers' \subseteq Reader /\ ReadersKnow' /\ seenDocs \subseteq seenDocs' /\ seenDocs' \subseteq Doc
<1> SUFFICES ASSUME SitemapInv, [SitemapNext]_sitemap
    PROVE readers' \subseteq Reader /\ ReadersKnow' /\ seenDocs \subseteq seenDocs' /\ seenDocs' \subseteq Doc
  OBVIOUS
<1>t. readers \subseteq Reader /\ seenDocs \subseteq Doc /\ discovered \in Nat
  BY DEF SitemapInv, SitemapTypeOK
<1>m. MaxRecursion \in Nat
  BY SitemapConstants
<1>k. ReadersKnow
  BY DEF SitemapInv
<1>0. ASSUME NEW new \in SUBSET Reader, \A r \in new : r.at = "begin", readers' \subseteq readers \cup new, seenDocs' = seenDocs
      PROVE  readers' \subseteq Reader /\ ReadersKnow' /\ seenDocs \subseteq seenDocs' /\ seenDocs' \subseteq Doc
  BY <1>0, <1>t, ReadersGo
<1>1. ASSUME readers' \subseteq readers, seenDocs' = seenDocs
      PROVE  readers' \subseteq Reader /\ ReadersKnow' /\ seenDocs \subseteq seenDocs' /\ seenDocs' \subseteq Doc
  <2>1. {} \in SUBSET Reader /\ (\A r \in {} : r.at = "begin") /\ readers' \subseteq readers \cup {}
    BY <1>1
  <2> QED BY <1>0, <1>1, <2>1
<1>2. CASE StartDiscovery \/ StopSet \/ UNCHANGED sitemap
  BY <1>1, <1>2 DEF StartDiscovery, StopSet, sitemap
<1>3. ASSUME NEW s \in Site, DiscoverIfNew(s) \/ Closed(s) \/ Launched(s) \/ RobotsCut(s) \/ OriginDone(s)
      PROVE  readers' \subseteq Reader /\ ReadersKnow' /\ seenDocs \subseteq seenDocs' /\ seenDocs' \subseteq Doc
  BY <1>1, <1>3 DEF DiscoverIfNew, Closed, Launched, RobotsCut, OriginDone, OriginOver
<1>4. ASSUME NEW s \in Site, AskedRobots(s)
      PROVE  readers' \subseteq Reader /\ ReadersKnow' /\ seenDocs \subseteq seenDocs' /\ seenDocs' \subseteq Doc
  <2>1. PICK docs \in SUBSET Candidates[s] : readers' = readers \cup NewReaders(s, docs, 0)
    BY <1>4 DEF AskedRobots
  <2>2. docs \in SUBSET Doc /\ 0 \in 0 .. MaxRecursion + 1
    BY <1>m, SitemapConstants
  <2>3. NewReaders(s, docs, 0) \in SUBSET Reader /\ \A r \in NewReaders(s, docs, 0) : r.at = "begin"
    BY <2>2, NewReadersTyped
  <2> QED BY <1>0, <1>4, <2>1, <2>3 DEF AskedRobots
<1>5. ASSUME NEW r \in readers, FirstMet(r) \/ Fetching(r) \/ NotFetched(r) \/ Fetched(r) \/ Checked(r) \/ LeafQueued(r)
      PROVE  readers' \subseteq Reader /\ ReadersKnow' /\ seenDocs \subseteq seenDocs' /\ seenDocs' \subseteq Doc
  <2>t. r \in Reader /\ r.doc \in Doc /\ r.site \in Site /\ r.left \in Nat /\ r.depth \in 0 .. MaxRecursion + 1
    BY <1>t DEF Reader
  <2>k. r.at # "begin" => r.doc \in seenDocs /\ r.depth <= MaxRecursion
    BY <1>k DEF ReadersKnow
  <2>p. \A stop \in {"begin", "wait", "fetch", "check", "queue"} :
          LET q == [r EXCEPT !.at = stop] IN q \in Reader /\ q.at = stop /\ q.doc = r.doc /\ q.depth = r.depth /\ q.left = r.left
    BY <2>t DEF Reader
  <2>1. CASE FirstMet(r)
    <3>1. seenDocs' = seenDocs \cup {r.doc} /\ r.at = "begin"
      BY <2>1 DEF FirstMet
    <3>2. CASE Ended(r)
      <4>1. {} \in SUBSET Reader /\ (\A o \in {} : o.at = "begin") /\ readers' \subseteq readers \cup {}
        BY <3>2 DEF Ended
      <4>2. readers' \subseteq Reader /\ ReadersKnow'
        BY <3>1, <4>1, ReadersGo
      <4> QED BY <1>t, <2>t, <3>1, <4>2
    <3>3. CASE Goes(r, "wait") /\ ~(r.doc \in seenDocs \/ r.depth > MaxRecursion \/ stopping)
      <4> DEFINE q == [r EXCEPT !.at = "wait"]
      <4>1. q \in Reader /\ q.at = "wait" /\ q.doc = r.doc /\ q.depth = r.depth
        BY <2>p
      <4>2. Turns(r, q) /\ r.doc \notin seenDocs /\ q.depth <= MaxRecursion /\ q.doc \in seenDocs'
        BY <1>m, <2>t, <3>1, <3>3, <4>1 DEF Goes
      <4> HIDE DEF q
      <4>3. readers' \subseteq Reader /\ ReadersKnow'
        BY <3>1, <4>1, <4>2, ReadersMove
      <4> QED BY <1>t, <2>t, <3>1, <4>3
    <3> QED BY <2>1, <3>2, <3>3 DEF FirstMet
  <2>2. ASSUME NEW q \in Reader, Turns(r, q), r.at # "begin", q.doc = r.doc, q.depth = r.depth, seenDocs' = seenDocs,
               q.at \in {"check", "queue"} => Children[q.doc] = {}, q.at = "queue" => q.left > 0
        PROVE  readers' \subseteq Reader /\ ReadersKnow' /\ seenDocs \subseteq seenDocs' /\ seenDocs' \subseteq Doc
    <3>1. q.doc \in seenDocs' /\ q.depth <= MaxRecursion /\ seenDocs \subseteq seenDocs'
      BY <2>2, <2>k
    <3> QED BY <1>t, <2>2, <3>1, ReadersMove
  <2>3. CASE Fetching(r)
    <3>1. LET q == [r EXCEPT !.at = "fetch"] IN Turns(r, q) /\ q \in Reader /\ q.at = "fetch" /\ q.doc = r.doc /\ q.depth = r.depth
      BY <2>3, <2>p DEF Fetching, Goes
    <3> QED BY <2>2, <2>3, <3>1 DEF Fetching, Quiet
  <2>4. CASE NotFetched(r)
    BY <1>1, <2>4 DEF NotFetched, Ended, Quiet
  <2>5. CASE Fetched(r)
    <3>1. CASE Children[r.doc] # {}
      <4>1. readers' = (readers \ {r}) \cup NewReaders(r.site, Children[r.doc], r.depth + 1)
        BY <2>5, <3>1 DEF Fetched
      <4>2. Children[r.doc] \in SUBSET Doc /\ r.depth + 1 \in 0 .. MaxRecursion + 1
        BY <1>m, <2>t, <2>k, <2>5, SitemapConstants DEF Fetched
      <4>3. NewReaders(r.site, Children[r.doc], r.depth + 1) \in SUBSET Reader
        BY <2>t, <4>2, NewReadersTyped
      <4>4. \A o \in NewReaders(r.site, Children[r.doc], r.depth + 1) : o.at = "begin"
        BY <2>t, <4>2, NewReadersTyped
      <4> QED BY <1>0, <2>5, <4>1, <4>3, <4>4 DEF Fetched, Quiet
    <3>2. CASE Children[r.doc] = {}
      <4> DEFINE q == [r EXCEPT !.at = "check", !.left = Entries[r.doc]]
      <4>1. Turns(r, q) /\ r.at # "begin" /\ seenDocs' = seenDocs
        BY <2>5, <3>2 DEF Fetched, Quiet
      <4>2. Entries[r.doc] \in Nat
        BY <2>t, SitemapConstants
      <4>3. q \in Reader /\ q.at = "check" /\ q.doc = r.doc /\ q.depth = r.depth
        BY <2>t, <4>2 DEF Reader
      <4> HIDE DEF q
      <4> QED BY <2>2, <3>2, <4>1, <4>3
    <3> QED BY <3>1, <3>2
  <2>6. CASE Checked(r)
    <3>1. CASE Ended(r)
      BY <1>1, <2>6, <3>1 DEF Checked, Ended, Quiet
    <3>2. CASE Goes(r, "queue") /\ r.left # 0
      <4> DEFINE q == [r EXCEPT !.at = "queue"]
      <4>1. q \in Reader /\ q.at = "queue" /\ q.doc = r.doc /\ q.depth = r.depth /\ q.left = r.left
        BY <2>p
      <4>2. Turns(r, q) /\ r.at # "begin" /\ seenDocs' = seenDocs /\ Children[r.doc] = {}
        BY <1>k, <2>6, <3>2 DEF Checked, Goes, Quiet, ReadersKnow
      <4> HIDE DEF q
      <4>3. q.left > 0
        BY <2>t, <3>2, <4>1
      <4> QED BY <2>2, <4>1, <4>2, <4>3
    <3> QED BY <2>6, <3>1, <3>2 DEF Checked
  <2>7. CASE LeafQueued(r)
    <3> DEFINE q == [r EXCEPT !.at = "check", !.left = @ - 1]
    <3>1. Turns(r, q) /\ r.at # "begin" /\ seenDocs' = seenDocs
      BY <2>7 DEF LeafQueued, Quiet
    <3>2. Children[r.doc] = {} /\ r.left > 0
      BY <1>k, <2>7 DEF LeafQueued, ReadersKnow
    <3>3. r.left - 1 \in Nat
      BY <2>t, <3>2
    <3>4. q \in Reader /\ q.at = "check" /\ q.doc = r.doc /\ q.depth = r.depth
      BY <2>t, <3>3 DEF Reader
    <3> HIDE DEF q
    <3> QED BY <2>2, <3>1, <3>2, <3>4
  <2> QED BY <1>5, <2>1, <2>3, <2>4, <2>5, <2>6, <2>7
<1> QED BY <1>2, <1>3, <1>4, <1>5 DEF SitemapNext, OriginStep, ReaderStep
-----------------------------------------------------------------------------
\* The URLs handed out pass the limit by those the readers at work were already handing out.
LEMMA LimitKept == SitemapInv /\ [SitemapNext]_sitemap => LimitNearlyKept' /\ discovered' \in Nat
<1> SUFFICES ASSUME SitemapInv, [SitemapNext]_sitemap PROVE LimitNearlyKept' /\ discovered' \in Nat
  OBVIOUS
<1>t. readers \subseteq Reader /\ discovered \in Nat /\ MaxUrls \in Nat /\ MaxUrls > 0
  BY SitemapConstants DEF SitemapInv, SitemapTypeOK
<1>r. SitemapTypeOK /\ ReadersKnow /\ readers' \subseteq Reader /\ ReadersKnow' /\ seenDocs \subseteq seenDocs' /\ seenDocs' \subseteq Doc
  BY ReadersKept DEF SitemapInv
<1>f. /\ IsFiniteSet(AtLeaf) /\ Cardinality(AtLeaf) \in Nat /\ Cardinality(Leaves) \in Nat
      /\ IsFiniteSet(Queueing) /\ Cardinality(Queueing) \in Nat /\ Cardinality(AtLeaf) <= Cardinality(Leaves)
  BY <1>r, LeafReaders
<1>g. Cardinality(Leaves) <= Cardinality(Leaves') /\ Cardinality(Leaves') \in Nat
  <2>1. IsFiniteSet(Leaves') /\ Leaves \subseteq Leaves'
    BY <1>r, SitemapConstants, FS_Subset DEF Leaves
  <2> QED BY <2>1, FS_Subset, FS_CardinalityType
<1>d. discovered + Cardinality(Queueing) < MaxUrls + Cardinality(Leaves)
  BY DEF SitemapInv, LimitNearlyKept, Queueing, Leaves
<1>0. ASSUME Queueing' \subseteq Queueing, discovered' = discovered PROVE LimitNearlyKept' /\ discovered' \in Nat
  <2>1. Cardinality(Queueing') <= Cardinality(Queueing) /\ Cardinality(Queueing') \in Nat
    BY <1>0, <1>f, FS_Subset, FS_CardinalityType
  <2>2. discovered' + Cardinality(Queueing') < MaxUrls + Cardinality(Leaves')
    BY <1>0, <1>t, <1>f, <1>g, <1>d, <2>1
  <2> QED BY <1>0, <1>t, <2>2 DEF LimitNearlyKept, Queueing, Leaves
<1>1. CASE StartDiscovery \/ StopSet \/ UNCHANGED sitemap
  <2>1. Queueing' = Queueing /\ discovered' = discovered
    BY <1>1 DEF StartDiscovery, StopSet, sitemap, Queueing
  <2> QED BY <1>0, <2>1
<1>2. ASSUME NEW s \in Site, DiscoverIfNew(s) \/ Closed(s) \/ Launched(s) \/ RobotsCut(s) \/ OriginDone(s)
      PROVE  LimitNearlyKept' /\ discovered' \in Nat
  <2>1. readers' \subseteq readers /\ discovered' = discovered
    BY <1>2 DEF DiscoverIfNew, Closed, Launched, RobotsCut, OriginDone, OriginOver
  <2> QED BY <1>0, <2>1 DEF Queueing
<1>3. ASSUME NEW s \in Site, AskedRobots(s) PROVE LimitNearlyKept' /\ discovered' \in Nat
  <2>1. discovered' = discovered /\ \E docs \in SUBSET Candidates[s] : readers' = readers \cup NewReaders(s, docs, 0)
    BY <1>3 DEF AskedRobots
  <2>2. Queueing' \subseteq Queueing
    BY <2>1 DEF Queueing, NewReaders
  <2> QED BY <1>0, <2>1, <2>2
<1>4. ASSUME NEW r \in readers, FirstMet(r) \/ Fetching(r) \/ NotFetched(r) \/ Fetched(r)
      PROVE  LimitNearlyKept' /\ discovered' \in Nat
  <2>1. discovered' = discovered
    BY <1>4 DEF FirstMet, Fetching, NotFetched, Fetched
  <2>2. \A p \in readers' : p.at = "queue" => p \in readers
    <3>1. ASSUME NEW stop \in {"wait", "fetch"}, Goes(r, stop) PROVE \A p \in readers' : p.at = "queue" => p \in readers
      <4>1. [r EXCEPT !.at = stop].at = stop
        BY <1>t DEF Reader
      <4> QED BY <3>1, <4>1 DEF Goes, Turns
    <3>2. CASE Ended(r)
      BY <3>2 DEF Ended
    <3>3. CASE Fetched(r)
      <4>1. CASE Children[r.doc] # {}
        BY <3>3, <4>1 DEF Fetched, NewReaders
      <4>2. CASE Children[r.doc] = {}
        <5>1. [r EXCEPT !.at = "check", !.left = Entries[r.doc]].at = "check"
          BY <1>t DEF Reader
        <5> QED BY <3>3, <4>2, <5>1 DEF Fetched, Turns
      <4> QED BY <4>1, <4>2
    <3> QED BY <1>4, <3>1, <3>2, <3>3 DEF FirstMet, Fetching, NotFetched
  <2>3. Queueing' \subseteq Queueing
    BY <2>2 DEF Queueing
  <2> QED BY <1>0, <2>1, <2>3
<1>5. ASSUME NEW r \in readers, Checked(r) PROVE LimitNearlyKept' /\ discovered' \in Nat
  <2>1. discovered' = discovered /\ r.at = "check"
    BY <1>5 DEF Checked
  <2>2. CASE Ended(r)
    <3>1. Queueing' \subseteq Queueing
      BY <2>2 DEF Queueing, Ended
    <3> QED BY <1>0, <2>1, <3>1
  <2>3. CASE Goes(r, "queue") /\ ~(discovered >= MaxUrls)
    <3>1. Queueing' \subseteq Queueing \cup {[r EXCEPT !.at = "queue"]}
      BY <2>3 DEF Queueing, Goes, Turns
    <3>2. Cardinality(Queueing') <= Cardinality(Queueing) + 1 /\ Cardinality(Queueing') \in Nat
      <4>1. /\ IsFiniteSet(Queueing \cup {[r EXCEPT !.at = "queue"]})
            /\ Cardinality(Queueing \cup {[r EXCEPT !.at = "queue"]}) \in {Cardinality(Queueing), Cardinality(Queueing) + 1}
        BY <1>f, FS_AddElement
      <4>2. IsFiniteSet(Queueing') /\ Cardinality(Queueing') <= Cardinality(Queueing \cup {[r EXCEPT !.at = "queue"]})
        BY <3>1, <4>1, FS_Subset
      <4>3. Cardinality(Queueing') \in Nat
        BY <4>2, FS_CardinalityType
      <4> QED BY <1>f, <4>1, <4>2, <4>3
    <3>3. Cardinality(Queueing) + 1 <= Cardinality(AtLeaf)
      <4>1. r \notin Queueing /\ Queueing \cup {r} \subseteq AtLeaf
        BY <2>1 DEF Queueing, AtLeaf
      <4>2. Cardinality(Queueing \cup {r}) = Cardinality(Queueing) + 1
        BY <1>f, <4>1, FS_AddElement
      <4>3. Cardinality(Queueing \cup {r}) <= Cardinality(AtLeaf)
        BY <1>f, <4>1, FS_Subset
      <4> QED BY <4>2, <4>3
    <3>4. discovered < MaxUrls
      BY <1>t, <2>3
    <3>5. discovered' + Cardinality(Queueing') < MaxUrls + Cardinality(Leaves')
      BY <1>t, <1>f, <1>g, <2>1, <3>2, <3>3, <3>4
    <3> QED BY <1>t, <2>1, <3>5 DEF LimitNearlyKept, Queueing, Leaves
  <2> QED BY <1>5, <2>2, <2>3 DEF Checked
<1>6. ASSUME NEW r \in readers, LeafQueued(r) PROVE LimitNearlyKept' /\ discovered' \in Nat
  <2>1. discovered' \in {discovered, discovered + 1} /\ r.at = "queue"
    BY <1>6 DEF LeafQueued
  <2>2. Queueing' \subseteq Queueing \ {r}
    <3>1. [r EXCEPT !.at = "check", !.left = @ - 1].at = "check"
      BY <1>t DEF Reader
    <3> QED BY <1>6, <3>1 DEF LeafQueued, Queueing, Turns
  <2>3. r \in Queueing
    BY <2>1 DEF Queueing
  <2>4. Cardinality(Queueing \ {r}) = Cardinality(Queueing) - 1 /\ IsFiniteSet(Queueing \ {r})
    BY <1>f, <2>3, FS_RemoveElement
  <2>5. Cardinality(Queueing') <= Cardinality(Queueing) - 1 /\ Cardinality(Queueing') \in Nat
    BY <2>2, <2>4, FS_Subset, FS_CardinalityType
  <2>6. discovered' + Cardinality(Queueing') < MaxUrls + Cardinality(Leaves') /\ discovered' \in Nat
    BY <1>t, <1>f, <1>g, <1>d, <2>1, <2>5
  <2> QED BY <2>6 DEF LimitNearlyKept, Queueing, Leaves
<1> QED BY <1>1, <1>2, <1>3, <1>4, <1>5, <1>6 DEF SitemapNext, OriginStep, ReaderStep

\* Every step of an origin and a reader keeps the types.
LEMMA SitemapTypes == SitemapInv /\ [SitemapNext]_sitemap => SitemapTypeOK'
<1> SUFFICES ASSUME SitemapInv, [SitemapNext]_sitemap PROVE SitemapTypeOK'
  OBVIOUS
<1>1. readers' \subseteq Reader /\ seenDocs' \subseteq Doc /\ discovered' \in Nat
  BY ReadersKept, LimitKept
<1>2. task' \in [Site -> {"none", "launched", "robots", "reading", "over"}]
  <2>1. task \in [Site -> {"none", "launched", "robots", "reading", "over"}]
    BY DEF SitemapInv, SitemapTypeOK
  <2>2. CASE StartDiscovery
    BY <2>1, <2>2 DEF StartDiscovery
  <2>3. ASSUME NEW s \in Site, DiscoverIfNew(s) \/ Closed(s) \/ Launched(s) \/ AskedRobots(s) \/ RobotsCut(s) \/ OriginDone(s)
        PROVE  task' \in [Site -> {"none", "launched", "robots", "reading", "over"}]
    BY <2>1, <2>3 DEF DiscoverIfNew, Closed, Launched, AskedRobots, RobotsCut, OriginDone, OriginOver
  <2>4. ReaderStep \/ StopSet \/ UNCHANGED sitemap => task' = task
    BY DEF ReaderStep, FirstMet, Fetching, NotFetched, Fetched, Checked, LeafQueued, Quiet, StopSet, sitemap
  <2> QED BY <2>1, <2>2, <2>3, <2>4 DEF SitemapNext, OriginStep
<1>3. pending' \in 0 .. Cardinality(Site) /\ allDone' \in BOOLEAN
  <2>1. pending' = Cardinality(Counted') /\ (allDone' <=> pending' = 0)
    BY OriginsCounted DEF DoneWhenDone, Counted
  <2>2. Cardinality(Counted') \in 0 .. Cardinality(Site)
    <3>1. IsFiniteSet(Counted') /\ Cardinality(Counted') <= Cardinality(Site)
      BY SitemapConstants, FS_Subset DEF Counted
    <3> QED BY <3>1, SitemapConstants, FS_CardinalityType
  <2>3. allDone' \in BOOLEAN
    BY DEF SitemapInv, SitemapTypeOK, SitemapNext, OriginStep, StartDiscovery, DiscoverIfNew, Closed, Launched, AskedRobots, RobotsCut,
       OriginDone, OriginOver, ReaderStep, FirstMet, Fetching, NotFetched, Fetched, Checked, LeafQueued, Quiet, StopSet, sitemap
  <2> QED BY <2>1, <2>2, <2>3
<1>4. stopping' \in BOOLEAN
  BY DEF SitemapInv, SitemapTypeOK, SitemapNext, OriginStep, StartDiscovery, DiscoverIfNew, Closed, Launched, AskedRobots, RobotsCut,
     OriginDone, OriginOver, ReaderStep, FirstMet, Fetching, NotFetched, Fetched, Checked, LeafQueued, Quiet, StopSet, sitemap
<1> QED BY <1>1, <1>2, <1>3, <1>4 DEF SitemapTypeOK

\* For any sites and sitemaps, however they list each other: discovery_done is set when,
\* and only when, no origin is being discovered, and each list of URLs met takes the limit
\* over by one URL at most.
THEOREM DiscoveryCounts == SitemapSpec => []DiscoverySound
<1>1. SitemapInv /\ [SitemapNext]_sitemap => SitemapInv'
  BY SitemapTypes, ReadersKept, OriginsCounted, LimitKept DEF SitemapInv
<1>2. SitemapInv => DiscoverySound
  BY DEF SitemapInv, DiscoverySound
<1> QED BY <1>1, <1>2, SitemapStarts, PTL DEF SitemapSpec


-----------------------------------------------------------------------------
(* The shared fetches                                                        *)

\* Origins whose fetch is inside the semaphore
Loading == {o \in Origin : loads[o] > 0}

CacheInv == RobotsTypeOK /\ FetchSharedByAll

\* An origin more or less inside the semaphore
LEMMA LoadingCounts ==
  ASSUME NEW S \in SUBSET Origin, NEW o \in Origin
  PROVE  /\ Cardinality(S) \in Nat
         /\ o \notin S => Cardinality(S \cup {o}) = Cardinality(S) + 1
         /\ o \in S => Cardinality(S \ {o}) = Cardinality(S) - 1
<1>1. IsFiniteSet(S)
  BY RobotsAssumption, FS_Subset
<1> QED BY <1>1, FS_CardinalityType, FS_AddElement, FS_RemoveElement

\* What a fetch that ends, and a lookup that deletes an entry, leave in the cache
LEMMA CacheSmall ==
  ASSUME RobotsTypeOK
  PROVE  /\ \A o \in Origin :
              LET c == Restrict(cached, DOMAIN cached \ {o}) IN
              DOMAIN c \subseteq Origin /\ Cardinality(DOMAIN c) <= CacheMax /\ \A p \in DOMAIN c : c[p] \in 0 .. Ttl
         /\ \A o \in Origin :
              \A c \in Evicted([p \in DOMAIN cached \cup {o} |-> IF p = o THEN Ttl ELSE cached[p]], o) :
                DOMAIN c \subseteq Origin /\ Cardinality(DOMAIN c) <= CacheMax /\ \A p \in DOMAIN c : c[p] \in 0 .. Ttl
<1> DEFINE D == DOMAIN cached
<1>1. IsFiniteSet(D) /\ Cardinality(D) \in Nat /\ Cardinality(D) <= CacheMax /\ CacheMax \in Nat
  <2>1. IsFiniteSet(D)
    BY RobotsAssumption, FS_Subset DEF RobotsTypeOK
  <2> QED BY <2>1, RobotsAssumption, FS_CardinalityType DEF RobotsTypeOK
<1>2. D \subseteq Origin /\ \A o \in D : cached[o] \in 0 .. Ttl
  BY DEF RobotsTypeOK
<1>t. Ttl \in Nat
  BY RobotsAssumption
<1> HIDE DEF D
<1>3. ASSUME NEW o \in Origin
      PROVE  LET c == Restrict(cached, D \ {o}) IN
             DOMAIN c \subseteq Origin /\ Cardinality(DOMAIN c) <= CacheMax /\ \A p \in DOMAIN c : c[p] \in 0 .. Ttl
  <2>1. IsFiniteSet(D \ {o}) /\ Cardinality(D \ {o}) <= Cardinality(D)
    BY <1>1, FS_Subset
  <2>2. Cardinality(D \ {o}) \in Nat
    BY <2>1, FS_CardinalityType
  <2>3. Cardinality(D \ {o}) <= CacheMax
    BY <2>1, <2>2, <1>1
  <2> QED BY <2>3, <1>2 DEF Restrict
<1>4. ASSUME NEW o \in Origin, NEW c \in Evicted([p \in D \cup {o} |-> IF p = o THEN Ttl ELSE cached[p]], o)
      PROVE  DOMAIN c \subseteq Origin /\ Cardinality(DOMAIN c) <= CacheMax /\ \A p \in DOMAIN c : c[p] \in 0 .. Ttl
  <2> DEFINE E == D \cup {o}
             f == [p \in E |-> IF p = o THEN Ttl ELSE cached[p]]
  <2>1. IsFiniteSet(E) /\ Cardinality(E) <= Cardinality(D) + 1
    <3>1. CASE o \in D
      <4>1. E = D
        BY <3>1
      <4> HIDE DEF E
      <4> QED BY <4>1, <1>1
    <3>2. CASE o \notin D
      <4>1. IsFiniteSet(E) /\ Cardinality(E) = Cardinality(D) + 1
        BY <1>1, <3>2, FS_AddElement
      <4> HIDE DEF E
      <4> QED BY <4>1, <1>1
    <3> QED BY <3>1, <3>2
  <2>2. Cardinality(E) \in Nat
    BY <2>1, FS_CardinalityType
  <2>3. DOMAIN f = E /\ E \subseteq Origin /\ \A p \in E : f[p] \in 0 .. Ttl
    BY <1>2, <1>t
  <2>4. c \in Evicted(f, o)
    OBVIOUS
  <2> HIDE DEF f, E
  <2>5. CASE Cardinality(E) <= CacheMax
    BY <2>3, <2>4, <2>5 DEF Evicted
  <2>6. CASE ~(Cardinality(E) <= CacheMax)
    <3>1. PICK old \in E : c = Restrict(f, E \ {old})
      BY <2>3, <2>4, <2>6 DEF Evicted
    <3>2. DOMAIN c = E \ {old} /\ \A p \in E \ {old} : c[p] = f[p]
      BY <3>1 DEF Restrict
    <3>3. Cardinality(E \ {old}) = Cardinality(E) - 1
      BY <2>1, <3>1, FS_RemoveElement
    <3>4. Cardinality(E \ {old}) <= CacheMax
      BY <3>3, <2>1, <2>2, <1>1
    <3> QED BY <3>2, <3>4, <2>3
  <2> QED BY <2>5, <2>6
<1> QED BY <1>3, <1>4 DEF D

\* Nothing is fetched at first.
LEMMA CacheStarts == RobotsInit => CacheInv
<1> SUFFICES ASSUME RobotsInit PROVE CacheInv
  OBVIOUS
<1>1. Cardinality({}) = 0
  BY FS_EmptySet
<1>2. DOMAIN cached = {} /\ {o \in Origin : loads[o] > 0} = {}
  BY DEF RobotsInit
<1>3. RobotsTypeOK
  <2>1. (CHOOSE o \in Origin : TRUE) \in Origin
    BY RobotsAssumption
  <2> QED BY <1>1, <1>2, <2>1, RobotsAssumption DEF RobotsInit, RobotsTypeOK
<1>4. FetchSharedByAll
  <2>1. \A o \in Origin : waits[o] + loads[o] = IF shared[o] = "live" THEN 1 ELSE 0
    BY DEF RobotsInit
  <2>2. fetchPermits + Cardinality({o \in Origin : loads[o] > 0}) = FetchMax
    <3>1. fetchPermits = FetchMax /\ FetchMax \in Nat
      BY RobotsAssumption DEF RobotsInit
    <3>2. Cardinality({o \in Origin : loads[o] > 0}) = 0
      BY <1>1, <1>2
    <3> HIDE DEF RobotsInit
    <3> QED BY <3>1, <3>2
  <2>3. \A o \in Origin : Waiting(o) = {}
    BY DEF RobotsInit, Waiting
  <2> QED BY <2>1, <2>2, <2>3 DEF FetchSharedByAll
<1> QED BY <1>3, <1>4 DEF CacheInv

\* A lookup, a cancellation, a fetch that begins and one that ends keep one fetch per
\* origin, and its permit.
LEMMA CacheStep == CacheInv /\ [RobotsNext]_robots => CacheInv'
<1> SUFFICES ASSUME CacheInv, [RobotsNext]_robots PROVE CacheInv'
  OBVIOUS
<1> USE DEF CacheInv
<1>t. /\ shared \in [Origin -> {"none", "live", "dead"}] /\ waits \in [Origin -> Nat] /\ loads \in [Origin -> Nat]
      /\ fetchPermits \in Nat /\ caller \in [Caller -> {"out", "waits", "gone"}] /\ seeks \in [Caller -> Origin]
      /\ cancels \in 0 .. MaxCancels /\ FetchMax \in Nat /\ MaxCancels \in Nat /\ Ttl \in Nat
  BY RobotsAssumption DEF RobotsTypeOK
<1>f. /\ \A o \in Origin : waits[o] + loads[o] = IF shared[o] = "live" THEN 1 ELSE 0
      /\ fetchPermits + Cardinality(Loading) = FetchMax
      /\ \A c \in Caller : caller[c] = "waits" => shared[seeks[c]] = "live"
  BY <1>t DEF FetchSharedByAll, Waiting, Loading
<1>n. Loading \subseteq Origin /\ Cardinality(Loading) \in Nat
  BY RobotsAssumption, LoadingCounts DEF Loading
<1> DEFINE Small(c) == DOMAIN c \subseteq Origin /\ Cardinality(DOMAIN c) <= CacheMax /\ \A p \in DOMAIN c : c[p] \in 0 .. Ttl
\* What has to be shown of the fetches, the permits and the callers
<1> DEFINE One == \A o \in Origin : waits'[o] + loads'[o] = IF shared'[o] = "live" THEN 1 ELSE 0
           Permits == fetchPermits' \in Nat /\ fetchPermits' + Cardinality(Loading') = FetchMax
           Served == \A c \in Caller : caller'[c] = "waits" => shared'[seeks'[c]] = "live"
           Typed == /\ shared' \in [Origin -> {"none", "live", "dead"}] /\ waits' \in [Origin -> Nat]
                    /\ loads' \in [Origin -> Nat] /\ caller' \in [Caller -> {"out", "waits", "gone"}]
                    /\ seeks' \in [Caller -> Origin] /\ cancels' \in 0 .. MaxCancels
<1>q. ASSUME Small(cached'), One, Permits, Served, Typed PROVE CacheInv'
  <2>1. fetchPermits' \in 0 .. FetchMax
    <3>1. Loading' \subseteq Origin
      BY DEF Loading
    <3>2. IsFiniteSet(Loading')
      BY <3>1, RobotsAssumption, FS_Subset
    <3>3. Cardinality(Loading') \in Nat
      BY <3>2, FS_CardinalityType
    <3> QED BY <1>q, <1>t, <3>3
  <2>2. RobotsTypeOK'
    BY <1>q, <2>1 DEF RobotsTypeOK
  <2>3. FetchSharedByAll'
    BY <1>q DEF FetchSharedByAll, Waiting, Loading
  <2> QED BY <2>2, <2>3
<1>s. Small(cached)
  BY DEF RobotsTypeOK
<1>c. \A o \in Origin : Small(Restrict(cached, DOMAIN cached \ {o}))
  BY CacheSmall
<1>e. \A o \in Origin : \A c \in Evicted([p \in DOMAIN cached \cup {o} |-> IF p = o THEN Ttl ELSE cached[p]], o) : Small(c)
  BY CacheSmall
<1> HIDE DEF Small, CacheInv
<1>1. ASSUME NEW c \in Caller, NEW o \in Origin, Hit(c, o) PROVE CacheInv'
  <2>1. One /\ Typed
    BY <1>1, <1>t, <1>f DEF Hit, Ask
  <2>2. Loading' = Loading
    BY <1>1 DEF Hit, Loading
  <2>3. Permits
    BY <1>1, <1>t, <1>f, <2>2 DEF Hit
  <2>4. Served
    BY <1>1, <1>t, <1>f DEF Hit, Ask
  <2>5. Small(cached')
    BY <1>1, <1>s DEF Hit
  <2> QED BY <1>q, <2>1, <2>3, <2>4, <2>5
<1>2. ASSUME NEW c \in Caller, NEW o \in Origin, Miss(c, o) PROVE CacheInv'
  <2>1. Typed
    BY <1>2, <1>t DEF Miss, Ask
  <2>2. One
    <3>1. CASE shared[o] = "live"
      BY <1>2, <1>f, <3>1 DEF Miss
    <3>2. CASE shared[o] # "live"
      <4>1. waits[o] + loads[o] = 0 /\ waits[o] \in Nat /\ loads[o] \in Nat
        BY <1>t, <1>f, <3>2
      <4>2. waits[o] = 0 /\ loads[o] = 0
        BY <4>1
      <4>3. /\ waits' = [waits EXCEPT ![o] = waits[o] + 1] /\ shared' = [shared EXCEPT ![o] = "live"] /\ loads' = loads
        BY <1>2, <3>2 DEF Miss
      <4> QED BY <1>t, <1>f, <4>2, <4>3
    <3> QED BY <3>1, <3>2
  <2>3. Loading' = Loading
    BY <1>2 DEF Miss, Loading
  <2>4. Permits
    BY <1>2, <1>t, <1>f, <2>3 DEF Miss
  <2>5. shared'[o] = "live" /\ \A p \in Origin : shared[p] = "live" => shared'[p] = "live"
    BY <1>2, <1>t DEF Miss
  <2>6. Served
    <3> SUFFICES ASSUME NEW d \in Caller, caller'[d] = "waits" PROVE shared'[seeks'[d]] = "live"
      OBVIOUS
    <3>1. CASE d = c
      BY <1>2, <1>t, <2>5, <3>1 DEF Miss, Ask
    <3>2. CASE d # c
      BY <1>2, <1>t, <1>f, <2>5, <3>2 DEF Miss, Ask
    <3> QED BY <3>1, <3>2
  <2>7. Small(cached')
    BY <1>2, <1>c DEF Miss
  <2> QED BY <1>q, <2>1, <2>2, <2>4, <2>6, <2>7
<1>3. ASSUME NEW c \in Caller, NEW o \in Origin, DeadTask(c, o) PROVE CacheInv'
  <2>1. One /\ Typed
    BY <1>3, <1>t, <1>f DEF DeadTask, Ask
  <2>2. Loading' = Loading
    BY <1>3 DEF DeadTask, Loading
  <2>3. Permits
    BY <1>3, <1>t, <1>f, <2>2 DEF DeadTask
  <2>4. Served
    BY <1>3, <1>t, <1>f DEF DeadTask, Ask
  <2>5. Small(cached')
    BY <1>3, <1>c DEF DeadTask
  <2> QED BY <1>q, <2>1, <2>3, <2>4, <2>5
<1>4. ASSUME NEW c \in Caller, Cancelled(c) PROVE CacheInv'
  <2> DEFINE o == seeks[c]
  <2>o. o \in Origin /\ shared[o] = "live" /\ loads[o] \in 0 .. 1
    <3>1. o \in Origin /\ shared[o] = "live"
      BY <1>4, <1>t, <1>f DEF Cancelled
    <3>2. waits[o] + loads[o] = 1 /\ waits[o] \in Nat /\ loads[o] \in Nat
      BY <1>t, <1>f, <3>1
    <3> QED BY <3>1, <3>2
  <2>m. /\ cancels < MaxCancels /\ cancels' = cancels + 1 /\ shared' = [shared EXCEPT ![o] = "dead"]
        /\ waits' = [waits EXCEPT ![o] = 0] /\ loads' = [loads EXCEPT ![o] = 0]
        /\ fetchPermits' = fetchPermits + loads[o] /\ cached' = cached /\ seeks' = seeks
        /\ caller' = [d \in Caller |-> IF d = c THEN "out" ELSE IF d \in Waiting(o) THEN "gone" ELSE caller[d]]
    BY <1>4 DEF Cancelled
  <2>w. \A d \in Caller : caller'[d] = "waits" => caller[d] = "waits" /\ seeks[d] # o
    BY <2>m DEF Waiting
  <2> HIDE DEF o
  <2>1. One
    BY <1>t, <1>f, <2>o, <2>m
  <2>2. Typed
    BY <1>t, <2>o, <2>m
  <2>3. Permits
    <3>1. CASE loads[o] = 0
      <4>1. Loading' = Loading
        BY <1>t, <2>m, <2>o, <3>1 DEF Loading
      <4> QED BY <1>t, <1>f, <1>n, <2>m, <3>1, <4>1
    <3>2. CASE loads[o] = 1
      <4>1. Loading' = Loading \ {o} /\ o \in Loading
        BY <1>t, <2>m, <2>o, <3>2 DEF Loading
      <4>2. Cardinality(Loading \ {o}) = Cardinality(Loading) - 1
        BY <1>n, <2>o, <4>1, LoadingCounts
      <4> QED BY <1>t, <1>f, <1>n, <2>m, <3>2, <4>1, <4>2
    <3> QED BY <2>o, <3>1, <3>2
  <2>4. Served
    BY <1>t, <1>f, <2>m, <2>w
  <2>5. Small(cached')
    BY <1>s, <2>m
  <2> QED BY <1>q, <2>1, <2>2, <2>3, <2>4, <2>5
<1>5. ASSUME NEW o \in Origin, LoadRobots(o) PROVE CacheInv'
  <2>m. /\ waits[o] > 0 /\ fetchPermits > 0 /\ waits' = [waits EXCEPT ![o] = waits[o] - 1] /\ loads' = [loads EXCEPT ![o] = loads[o] + 1]
        /\ fetchPermits' = fetchPermits - 1 /\ UNCHANGED <<cached, shared, caller, seeks, cancels>>
    BY <1>5 DEF LoadRobots
  <2>o. shared[o] = "live" /\ loads[o] = 0 /\ waits[o] = 1
    <3>1. waits[o] + loads[o] = (IF shared[o] = "live" THEN 1 ELSE 0) /\ waits[o] \in Nat /\ loads[o] \in Nat
      BY <1>t, <1>f
    <3> QED BY <2>m, <3>1
  <2>1. One
    BY <1>t, <1>f, <2>o, <2>m
  <2>2. Typed
    BY <1>t, <2>o, <2>m
  <2>3. Permits
    <3>1. Loading' = Loading \cup {o} /\ o \notin Loading
      BY <1>t, <2>m, <2>o DEF Loading
    <3>2. Cardinality(Loading \cup {o}) = Cardinality(Loading) + 1
      BY <1>n, <3>1, LoadingCounts
    <3> QED BY <1>t, <1>f, <1>n, <2>m, <3>1, <3>2
  <2>4. Served
    BY <1>f, <2>m
  <2>5. Small(cached')
    BY <1>s, <2>m
  <2> QED BY <1>q, <2>1, <2>2, <2>3, <2>4, <2>5
<1>6. ASSUME NEW o \in Origin, RobotsLoaded(o) PROVE CacheInv'
  <2>m. /\ loads[o] > 0 /\ loads' = [loads EXCEPT ![o] = loads[o] - 1] /\ fetchPermits' = fetchPermits + 1
        /\ shared' = [shared EXCEPT ![o] = "none"] /\ UNCHANGED <<waits, seeks, cancels>>
        /\ caller' = [c \in Caller |-> IF c \in Waiting(o) THEN "out" ELSE caller[c]]
    BY <1>6 DEF RobotsLoaded, AnswerAll
  <2>o. shared[o] = "live" /\ loads[o] = 1 /\ waits[o] = 0
    <3>1. waits[o] + loads[o] = (IF shared[o] = "live" THEN 1 ELSE 0) /\ waits[o] \in Nat /\ loads[o] \in Nat
      BY <1>t, <1>f
    <3> QED BY <2>m, <3>1
  <2>w. \A d \in Caller : caller'[d] = "waits" => caller[d] = "waits" /\ seeks[d] # o
    BY <2>m DEF Waiting
  <2>1. One
    BY <1>t, <1>f, <2>o, <2>m
  <2>2. Typed
    BY <1>t, <2>o, <2>m
  <2>3. Permits
    <3>1. Loading' = Loading \ {o} /\ o \in Loading
      BY <1>t, <2>m, <2>o DEF Loading
    <3>2. Cardinality(Loading \ {o}) = Cardinality(Loading) - 1
      BY <1>n, <3>1, LoadingCounts
    <3> QED BY <1>t, <1>f, <1>n, <2>m, <3>1, <3>2
  <2>4. Served
    BY <1>t, <1>f, <2>m, <2>w
  <2>5. Small(cached')
    BY <1>6, <1>e DEF RobotsLoaded
  <2> QED BY <1>q, <2>1, <2>2, <2>3, <2>4, <2>5
<1>7. ASSUME RobotsTick PROVE CacheInv'
  <2>m. UNCHANGED <<shared, waits, loads, fetchPermits, caller, seeks, cancels>>
    BY <1>7 DEF RobotsTick
  <2>1. One /\ Typed /\ Served
    BY <1>t, <1>f, <2>m
  <2>2. Loading' = Loading
    BY <2>m DEF Loading
  <2>3. Permits
    BY <1>t, <1>f, <2>m, <2>2
  <2>5. Small(cached')
    BY <1>7, <1>s, <1>t DEF RobotsTick, Small
  <2> QED BY <1>q, <2>1, <2>3, <2>5
<1>8. ASSUME UNCHANGED robots PROVE CacheInv'
  BY <1>8 DEF robots, CacheInv, RobotsTypeOK, FetchSharedByAll, Waiting
<1> QED BY <1>1, <1>2, <1>3, <1>4, <1>5, <1>6, <1>7, <1>8 DEF RobotsNext

\* Origins are fetched once at a time, whatever expires, is evicted or cancelled, and
\* nobody waits for a fetch that is not under way.
THEOREM OneFetchForAll == RobotsSpec => []FetchSharedByAll
<1>1. CacheInv => FetchSharedByAll
  BY DEF CacheInv
<1> QED BY <1>1, CacheStarts, CacheStep, PTL DEF RobotsSpec

-----------------------------------------------------------------------------
(* The groups of a robots.txt                                                *)

Line == AgentLine \cup RuleLine \cup DelayLine \cup SitemapLine

\* Line h of s is the last of the user-agent lines up to line i.
Heads(s, i, h) == s[h].is = "agent" /\ \A k \in h + 1 .. i : s[k].is # "agent"

AgentsIn(s) == {s[i].of : i \in {j \in DOMAIN s : s[j].is = "agent"}}

\* The rules of a kind below the lines of an agent
RulesOf(s, kind, a) ==
  {s[i].of : i \in {j \in DOMAIN s : s[j].is = kind /\ \E h \in 1 .. j : Heads(s, j, h) /\ s[h].of = a}}

\* The agent whose lines are read at the end of s
Under(s, a) ==
  \/ a = "" /\ \A j \in DOMAIN s : s[j].is # "agent"
  \/ \E h \in DOMAIN s : Heads(s, Len(s), h) /\ a = s[h].of

\* The parser's groups are those of the lines it has read.
RulesInv ==
  /\ RulesTypeOK
  /\ lines \in Seq(Line) /\ sitemaps <= Len(lines) /\ Len(lines) <= MaxLines
  /\ DOMAIN groups = AgentsIn(lines) /\ Under(lines, current)
  /\ \A a \in DOMAIN groups \ {""} :
       /\ groups[a].allow = RulesOf(lines, "allow", a) /\ groups[a].disallow = RulesOf(lines, "disallow", a)
       /\ IsFiniteSet(groups[a].allow) /\ IsFiniteSet(groups[a].disallow)

\* No line is below two agents.
LEMMA OneHead ==
  ASSUME NEW s, NEW i \in Nat, NEW h \in 1 .. i, NEW g \in 1 .. i, Heads(s, i, h), Heads(s, i, g)
  PROVE  h = g
<1>1. ~(h < g)
  <2> SUFFICES ASSUME h < g PROVE FALSE
    OBVIOUS
  <2>1. g \in h + 1 .. i
    OBVIOUS
  <2> QED BY <2>1 DEF Heads
<1>2. ~(g < h)
  <2> SUFFICES ASSUME g < h PROVE FALSE
    OBVIOUS
  <2>1. h \in g + 1 .. i
    OBVIOUS
  <2> QED BY <2>1 DEF Heads
<1> QED BY <1>1, <1>2

\* What a line adds to those before it
LEMMA LineAdded ==
  ASSUME NEW s \in Seq(Line), NEW l \in Line
  PROVE  LET t == Append(s, l) IN
         /\ t \in Seq(Line) /\ Len(t) = Len(s) + 1
         /\ AgentsIn(t) = AgentsIn(s) \cup (IF l.is = "agent" THEN {l.of} ELSE {})
         /\ l.is = "agent" => Under(t, l.of)
         /\ \A a : l.is # "agent" /\ Under(s, a) => Under(t, a)
<1> DEFINE t == Append(s, l)
           n == Len(s)
<1>1. /\ n \in Nat /\ t \in Seq(Line) /\ Len(t) = n + 1 /\ DOMAIN s = 1 .. n /\ DOMAIN t = 1 .. n + 1
      /\ t[n + 1] = l /\ \A i \in 1 .. n : t[i] = s[i]
  BY AppendProperties, LenProperties
<1> HIDE DEF t, n
<1>2. AgentsIn(t) = AgentsIn(s) \cup (IF l.is = "agent" THEN {l.of} ELSE {})
  BY <1>1 DEF AgentsIn
<1>3. l.is = "agent" => Under(t, l.of)
  <2>1. n + 1 \in 1 .. n + 1 /\ (n + 1) + 1 .. n + 1 = {}
    BY <1>1
  <2> QED BY <1>1, <2>1 DEF Under, Heads
<1>5. ASSUME NEW h \in 1 .. n, l.is # "agent" PROVE Heads(t, n + 1, h) <=> Heads(s, n, h)
  <2>1. /\ \A k \in h + 1 .. n : k \in 1 .. n /\ k \in h + 1 .. n + 1
        /\ \A k \in h + 1 .. n + 1 : k = n + 1 \/ k \in h + 1 .. n
    BY <1>1
  <2> QED BY <1>1, <1>5, <2>1 DEF Heads
<1>6. ASSUME NEW a, l.is # "agent", Under(s, a) PROVE Under(t, a)
  <2>1. CASE a = "" /\ \A j \in DOMAIN s : s[j].is # "agent"
    <3>1. \A j \in 1 .. n + 1 : j = n + 1 \/ j \in 1 .. n
      BY <1>1
    <3> QED BY <1>1, <1>6, <2>1, <3>1 DEF Under
  <2>2. CASE \E h \in DOMAIN s : Heads(s, Len(s), h) /\ a = s[h].of
    <3>1. PICK h \in 1 .. n : Heads(s, n, h) /\ a = s[h].of
      BY <1>1, <2>2 DEF n
    <3>2. Heads(t, n + 1, h) /\ a = t[h].of /\ h \in 1 .. n + 1
      BY <1>1, <1>5, <1>6, <3>1
    <3> QED BY <1>1, <3>2 DEF Under
  <2> QED BY <1>6, <2>1, <2>2 DEF Under
<1> QED BY <1>1, <1>2, <1>3, <1>6 DEF t, n

\* A rule is added to those of the agent whose lines are read.
LEMMA RuleAdded ==
  ASSUME NEW s \in Seq(Line), NEW l \in Line, NEW kind \in {"allow", "disallow"}, NEW a
  PROVE  RulesOf(Append(s, l), kind, a) =
           RulesOf(s, kind, a) \cup
             (IF l.is = kind /\ \E h \in DOMAIN s : Heads(s, Len(s), h) /\ s[h].of = a THEN {l.of} ELSE {})
<1> DEFINE t == Append(s, l)
           n == Len(s)
<1>1. /\ n \in Nat /\ t \in Seq(Line) /\ Len(t) = n + 1 /\ DOMAIN s = 1 .. n /\ DOMAIN t = 1 .. n + 1
      /\ t[n + 1] = l /\ \A i \in 1 .. n : t[i] = s[i]
  BY AppendProperties, LenProperties
<1> HIDE DEF t, n
<1>4. ASSUME NEW i \in 1 .. n, NEW h \in 1 .. i PROVE Heads(t, i, h) <=> Heads(s, i, h)
  <2>1. h \in 1 .. n /\ \A k \in h + 1 .. i : k \in 1 .. n
    BY <1>1
  <2> QED BY <1>1, <2>1 DEF Heads
<1>5. ASSUME NEW h \in 1 .. n, l.is # "agent" PROVE Heads(t, n + 1, h) <=> Heads(s, n, h)
  <2>1. /\ \A k \in h + 1 .. n : k \in 1 .. n /\ k \in h + 1 .. n + 1
        /\ \A k \in h + 1 .. n + 1 : k = n + 1 \/ k \in h + 1 .. n
    BY <1>1
  <2> QED BY <1>1, <1>5, <2>1 DEF Heads
<1>7. RulesOf(t, kind, a) = RulesOf(s, kind, a) \cup
        (IF l.is = kind /\ \E h \in DOMAIN s : Heads(s, Len(s), h) /\ s[h].of = a THEN {l.of} ELSE {})
  <2> DEFINE RuleAt(q, j) == q[j].is = kind /\ \E h \in 1 .. j : Heads(q, j, h) /\ q[h].of = a
  <2>1. ASSUME NEW i \in 1 .. n PROVE RuleAt(t, i) <=> RuleAt(s, i)
    <3>1. \A h \in 1 .. i : h \in 1 .. n
      BY <1>1
    <3> QED BY <1>1, <1>4, <3>1
  <2>2. RuleAt(t, n + 1) <=> l.is = kind /\ \E h \in DOMAIN s : Heads(s, Len(s), h) /\ s[h].of = a
    <3>1. CASE l.is # kind
      BY <1>1, <3>1
    <3>2. CASE l.is = kind
      <4>1. l.is # "agent" /\ ~Heads(t, n + 1, n + 1)
        BY <1>1, <3>2 DEF Heads
      <4>2. \A h \in 1 .. n + 1 : h = n + 1 \/ h \in 1 .. n
        BY <1>1
      <4>3. (\E h \in 1 .. n + 1 : Heads(t, n + 1, h) /\ t[h].of = a) <=> \E h \in 1 .. n : Heads(s, n, h) /\ s[h].of = a
        <5>1. \A h \in 1 .. n : h \in 1 .. n + 1
          BY <1>1
        <5> QED BY <1>1, <1>5, <4>1, <4>2, <5>1
      <4> QED BY <1>1, <3>2, <4>3 DEF n
    <3> QED BY <3>1, <3>2
  <2>3. RulesOf(t, kind, a) = {t[i].of : i \in {j \in 1 .. n + 1 : RuleAt(t, j)}}
    BY <1>1 DEF RulesOf
  <2>4. RulesOf(s, kind, a) = {s[i].of : i \in {j \in 1 .. n : RuleAt(s, j)}}
    BY <1>1 DEF RulesOf
  <2>5. \A i \in 1 .. n + 1 : i = n + 1 \/ i \in 1 .. n
    BY <1>1
  <2>6. \A i \in 1 .. n : i \in 1 .. n + 1
    BY <1>1
  <2> HIDE DEF RuleAt
  <2>7. {t[i].of : i \in {j \in 1 .. n + 1 : RuleAt(t, j)}} = {s[i].of : i \in {j \in 1 .. n : RuleAt(s, j)}} \cup (IF RuleAt(t, n + 1) THEN {l.of} ELSE {})
    BY <1>1, <2>1, <2>5, <2>6
  <2> QED BY <2>2, <2>3, <2>4, <2>7
<1> QED BY <1>7 DEF t

\* No line has been read.
LEMMA RulesStart == RulesInit => RulesInv
<1> SUFFICES ASSUME RulesInit PROVE RulesInv
  OBVIOUS
<1>1. lines = <<>> /\ Len(lines) = 0 /\ DOMAIN lines = {} /\ lines \in Seq(Line)
  <2>1. lines = <<>>
    BY DEF RulesInit
  <2> QED BY <2>1, EmptySeq
<1>2. DOMAIN groups = {} /\ current = "" /\ sitemaps = 0
  BY DEF RulesInit
<1>3. MaxLines \in Nat
  BY RulesAssumption
<1>4. AgentsIn(lines) = {} /\ Under(lines, current)
  BY <1>1, <1>2 DEF AgentsIn, Under
<1>5. RulesTypeOK
  <2>1. sitemaps = 0 /\ 0 \in 0 .. MaxLines
    <3>1. 0 \in 0 .. MaxLines
      BY <1>3
    <3> QED BY <1>2, <3>1
  <2> QED BY <1>2, <2>1 DEF RulesTypeOK
<1>6. sitemaps <= Len(lines) /\ Len(lines) <= MaxLines
  <2>1. sitemaps = 0 /\ Len(lines) = 0
    BY <1>1, <1>2
  <2> HIDE DEF RulesInit
  <2> QED BY <1>3, <2>1
<1>7. \A a \in DOMAIN groups \ {""} : FALSE
  BY <1>2
<1>8. lines \in Seq(Line) /\ DOMAIN groups = AgentsIn(lines)
  BY <1>1, <1>2, <1>4
<1> HIDE DEF RulesInit
<1> QED BY <1>4, <1>5, <1>6, <1>7, <1>8 DEF RulesInv

\* Whatever line comes next, it is taken into the groups.
LEMMA RulesStep == RulesInv /\ [RulesNext]_rules => RulesInv'
<1> SUFFICES ASSUME RulesInv, [RulesNext]_rules PROVE RulesInv'
  OBVIOUS
<1>t. /\ DOMAIN groups \subseteq Agent /\ \A a \in DOMAIN groups : groups[a] \in Group
      /\ current \in DOMAIN groups \cup {""} /\ sitemaps \in 0 .. MaxLines /\ MaxLines \in Nat
  BY RulesAssumption DEF RulesInv, RulesTypeOK
<1>i. /\ lines \in Seq(Line) /\ Len(lines) \in Nat /\ sitemaps <= Len(lines) /\ Len(lines) <= MaxLines
      /\ DOMAIN groups = AgentsIn(lines) /\ Under(lines, current)
      /\ \A a \in DOMAIN groups \ {""} :
           /\ groups[a].allow = RulesOf(lines, "allow", a) /\ groups[a].disallow = RulesOf(lines, "disallow", a)
           /\ IsFiniteSet(groups[a].allow) /\ IsFiniteSet(groups[a].disallow)
  BY LenProperties DEF RulesInv
<1>d. DOMAIN lines = 1 .. Len(lines)
  BY <1>i, LenProperties
<1>m. /\ Len(lines) \in Nat /\ Len(lines) <= MaxLines /\ MaxLines \in Nat
      /\ sitemaps \in 0 .. Len(lines)
  <2>1. Len(lines) \in Nat /\ sitemaps \in 0 .. MaxLines /\ MaxLines \in Nat
    BY <1>i, <1>t
  <2>2. sitemaps <= Len(lines) /\ Len(lines) <= MaxLines
    BY <1>i
  <2> QED BY <2>1, <2>2
<1>n. NewGroup \in Group /\ NewGroup.allow = {} /\ NewGroup.disallow = {}
  BY DEF NewGroup, Group
\* Whose lines are read
<1>u. ASSUME NEW a, a # "" PROVE a = current <=> \E h \in DOMAIN lines : Heads(lines, Len(lines), h) /\ lines[h].of = a
  <2>1. \A h \in DOMAIN lines : h \in 1 .. Len(lines)
    BY <1>i, LenProperties
  <2>2. CASE current = "" /\ \A j \in DOMAIN lines : lines[j].is # "agent"
    BY <1>u, <2>2 DEF Heads
  <2>3. CASE \E h \in DOMAIN lines : Heads(lines, Len(lines), h) /\ current = lines[h].of
    <3>1. PICK h \in DOMAIN lines : Heads(lines, Len(lines), h) /\ current = lines[h].of
      BY <2>3
    <3>2. \A g \in DOMAIN lines : Heads(lines, Len(lines), g) => g = h
      BY <1>i, <2>1, <3>1, OneHead
    <3> QED BY <3>1, <3>2
  <2> QED BY <1>i, <2>2, <2>3 DEF Under
\* A line that is kept
<1> DEFINE Added(kind, a, l) == IF l.is = kind /\ a = current THEN {l.of} ELSE {}
<1>k. ASSUME NEW l \in Line, Keep(l), Len(lines) < MaxLines
      PROVE  /\ lines' \in Seq(Line) /\ Len(lines') = Len(lines) + 1 /\ Len(lines') <= MaxLines
             /\ AgentsIn(lines') = AgentsIn(lines) \cup (IF l.is = "agent" THEN {l.of} ELSE {})
             /\ l.is = "agent" => Under(lines', l.of)
             /\ l.is # "agent" => Under(lines', current)
             /\ \A a : a # "" => /\ RulesOf(lines', "allow", a) = RulesOf(lines, "allow", a) \cup Added("allow", a, l)
                                 /\ RulesOf(lines', "disallow", a) = RulesOf(lines, "disallow", a) \cup Added("disallow", a, l)
  <2>1. lines' = Append(lines, l)
    BY <1>k DEF Keep
  <2>2. /\ lines' \in Seq(Line) /\ Len(lines') = Len(lines) + 1
        /\ AgentsIn(lines') = AgentsIn(lines) \cup (IF l.is = "agent" THEN {l.of} ELSE {})
        /\ l.is = "agent" => Under(lines', l.of)
        /\ \A a : l.is # "agent" /\ Under(lines, a) => Under(lines', a)
    BY <1>i, <2>1, LineAdded
  <2>3. ASSUME NEW kind \in {"allow", "disallow"}, NEW a
        PROVE  RulesOf(lines', kind, a) =
                 RulesOf(lines, kind, a) \cup
                   (IF l.is = kind /\ \E h \in DOMAIN lines : Heads(lines, Len(lines), h) /\ lines[h].of = a THEN {l.of} ELSE {})
    <3>1. lines \in Seq(Line)
      BY <1>i
    <3> QED BY <2>1, <3>1, RuleAdded
  <2>4. Len(lines') <= MaxLines
    BY <1>m, <1>k, <2>2
  <2>5. \A a : a # "" => /\ RulesOf(lines', "allow", a) = RulesOf(lines, "allow", a) \cup Added("allow", a, l)
                         /\ RulesOf(lines', "disallow", a) = RulesOf(lines, "disallow", a) \cup Added("disallow", a, l)
    BY <1>u, <2>3
  <2> QED BY <1>i, <2>2, <2>4, <2>5
<1> HIDE DEF Added
<1>1. ASSUME NEW l \in AgentLine, AgentMet(l), Keep(l), Len(lines) < MaxLines PROVE RulesInv'
  <2>l. l \in Line /\ l.is = "agent" /\ l.of \in Agent
    BY DEF Line, AgentLine
  <2>k. /\ lines' \in Seq(Line) /\ Len(lines') = Len(lines) + 1 /\ Len(lines') <= MaxLines
        /\ AgentsIn(lines') = AgentsIn(lines) \cup {l.of} /\ Under(lines', l.of)
        /\ \A a : a # "" => /\ RulesOf(lines', "allow", a) = RulesOf(lines, "allow", a) \cup Added("allow", a, l)
                            /\ RulesOf(lines', "disallow", a) = RulesOf(lines, "disallow", a) \cup Added("disallow", a, l)
    BY <1>1, <1>k, <2>l
  <2>1. /\ groups' = [a \in DOMAIN groups \cup {l.of} |-> IF a \in DOMAIN groups THEN groups[a] ELSE NewGroup]
        /\ current' = l.of /\ sitemaps' = sitemaps
    BY <1>1 DEF AgentMet
  <2>2. RulesTypeOK'
    BY <1>t, <1>n, <2>l, <2>1 DEF RulesTypeOK
  <2>3. \A a : Added("allow", a, l) = {} /\ Added("disallow", a, l) = {}
    BY <2>l DEF Added
  <2>4. \A a : a \notin AgentsIn(lines) => RulesOf(lines, "allow", a) = {} /\ RulesOf(lines, "disallow", a) = {}
    <3>1. ASSUME NEW j \in DOMAIN lines, NEW h \in 1 .. j, Heads(lines, j, h) PROVE lines[h].of \in AgentsIn(lines)
      <4>1. h \in DOMAIN lines
        BY <1>m, <1>d
      <4> QED BY <3>1, <4>1 DEF Heads, AgentsIn
    <3> QED BY <3>1 DEF RulesOf
  <2>5. ASSUME NEW a \in DOMAIN groups' \ {""}
        PROVE  /\ groups'[a].allow = RulesOf(lines', "allow", a) /\ groups'[a].disallow = RulesOf(lines', "disallow", a)
               /\ IsFiniteSet(groups'[a].allow) /\ IsFiniteSet(groups'[a].disallow)
    <3>0. /\ RulesOf(lines', "allow", a) = RulesOf(lines, "allow", a)
          /\ RulesOf(lines', "disallow", a) = RulesOf(lines, "disallow", a)
      BY <2>k, <2>3, <2>5
    <3>1. CASE a \in DOMAIN groups
      BY <1>i, <2>1, <3>0, <3>1
    <3>2. CASE a \notin DOMAIN groups
      <4>1. groups'[a] = NewGroup
        BY <2>1, <3>2
      <4> QED BY <1>i, <1>n, <2>4, <3>0, <3>2, <4>1, FS_EmptySet
    <3> QED BY <3>1, <3>2
  <2>6. DOMAIN groups' = AgentsIn(lines') /\ Under(lines', current')
    BY <1>i, <2>k, <2>1
  <2>7. sitemaps' <= Len(lines')
    <3>1. Len(lines') = Len(lines) + 1 /\ sitemaps' = sitemaps
      BY <2>k, <2>1
    <3> QED BY <1>m, <3>1
  <2> QED BY <2>k, <2>2, <2>5, <2>6, <2>7 DEF RulesInv
<1>2. ASSUME NEW l \in RuleLine, RuleMet(l), Keep(l), Len(lines) < MaxLines PROVE RulesInv'
  <2>l. l \in Line /\ l.is \in {"allow", "disallow"} /\ l.is # "agent" /\ l.of \in Rule
    BY DEF Line, RuleLine
  <2>k. /\ lines' \in Seq(Line) /\ Len(lines') = Len(lines) + 1 /\ Len(lines') <= MaxLines
        /\ AgentsIn(lines') = AgentsIn(lines) /\ Under(lines', current)
        /\ \A a : a # "" => /\ RulesOf(lines', "allow", a) = RulesOf(lines, "allow", a) \cup Added("allow", a, l)
                            /\ RulesOf(lines', "disallow", a) = RulesOf(lines, "disallow", a) \cup Added("disallow", a, l)
    BY <1>2, <1>k, <2>l
  <2>1. current' = current /\ sitemaps' = sitemaps
    BY <1>2 DEF RuleMet
  <2>2. ASSUME NEW a \in DOMAIN groups
        PROVE  /\ groups'[a] \in Group
               /\ a # "" => /\ groups'[a].allow = groups[a].allow \cup Added("allow", a, l)
                            /\ groups'[a].disallow = groups[a].disallow \cup Added("disallow", a, l)
    <3>g. groups[a] \in Group
      BY <1>t
    <3>1. CASE current = "" \/ a # current
      <4>1. groups'[a] = groups[a]
        BY <1>2, <3>1 DEF RuleMet, SetGroup
      <4> QED BY <3>g, <3>1, <4>1 DEF Added
    <3>2. CASE current # "" /\ a = current /\ l.is = "allow"
      <4>1. groups'[a] = [groups[a] EXCEPT !.allow = groups[a].allow \cup {l.of}]
        BY <1>2, <3>2 DEF RuleMet, SetGroup
      <4>2. /\ Added("allow", a, l) = {l.of} /\ Added("disallow", a, l) = {}
        BY <2>l, <3>2 DEF Added
      <4> QED BY <2>l, <3>g, <4>1, <4>2 DEF Group
    <3>3. CASE current # "" /\ a = current /\ l.is # "allow"
      <4>1. groups'[a] = [groups[a] EXCEPT !.disallow = groups[a].disallow \cup {l.of}]
        BY <1>2, <3>3 DEF RuleMet, SetGroup
      <4>2. /\ Added("disallow", a, l) = {l.of} /\ Added("allow", a, l) = {}
        BY <2>l, <3>3 DEF Added
      <4> QED BY <2>l, <3>g, <4>1, <4>2 DEF Group
    <3> QED BY <3>1, <3>2, <3>3
  <2>3. DOMAIN groups' = DOMAIN groups
    BY <1>2 DEF RuleMet, SetGroup
  <2>4. \A X, a, kind : IsFiniteSet(X) => IsFiniteSet(X \cup Added(kind, a, l))
    BY FS_AddElement DEF Added
  <2>5. RulesTypeOK'
    BY <1>t, <2>1, <2>2, <2>3 DEF RulesTypeOK
  <2>6. ASSUME NEW a \in DOMAIN groups' \ {""}
        PROVE  /\ groups'[a].allow = RulesOf(lines', "allow", a) /\ groups'[a].disallow = RulesOf(lines', "disallow", a)
               /\ IsFiniteSet(groups'[a].allow) /\ IsFiniteSet(groups'[a].disallow)
    <3>1. a \in DOMAIN groups /\ a # ""
      BY <2>3
    <3>2. /\ groups[a].allow = RulesOf(lines, "allow", a) /\ groups[a].disallow = RulesOf(lines, "disallow", a)
          /\ IsFiniteSet(groups[a].allow) /\ IsFiniteSet(groups[a].disallow)
      BY <1>i, <3>1
    <3>3. /\ groups'[a].allow = groups[a].allow \cup Added("allow", a, l)
          /\ groups'[a].disallow = groups[a].disallow \cup Added("disallow", a, l)
      BY <2>2, <3>1
    <3>4. /\ RulesOf(lines', "allow", a) = RulesOf(lines, "allow", a) \cup Added("allow", a, l)
          /\ RulesOf(lines', "disallow", a) = RulesOf(lines, "disallow", a) \cup Added("disallow", a, l)
      BY <2>k, <3>1
    <3>5. /\ IsFiniteSet(groups[a].allow \cup Added("allow", a, l))
          /\ IsFiniteSet(groups[a].disallow \cup Added("disallow", a, l))
      BY <2>4, <3>2
    <3> QED BY <3>2, <3>3, <3>4, <3>5
  <2>7. DOMAIN groups' = AgentsIn(lines') /\ Under(lines', current')
    BY <1>i, <2>k, <2>1, <2>3
  <2>8. sitemaps' <= Len(lines')
    <3>1. Len(lines') = Len(lines) + 1 /\ sitemaps' = sitemaps
      BY <2>k, <2>1
    <3> QED BY <1>m, <3>1
  <2> QED BY <2>k, <2>5, <2>6, <2>7, <2>8 DEF RulesInv
<1>3. ASSUME NEW l \in DelayLine, DelayMet(l), Keep(l), Len(lines) < MaxLines PROVE RulesInv'
  <2>l. l \in Line /\ l.is = "delay" /\ l.of \in Delay
    BY DEF Line, DelayLine
  <2>k. /\ lines' \in Seq(Line) /\ Len(lines') = Len(lines) + 1 /\ Len(lines') <= MaxLines
        /\ AgentsIn(lines') = AgentsIn(lines) /\ Under(lines', current)
        /\ \A a : a # "" => /\ RulesOf(lines', "allow", a) = RulesOf(lines, "allow", a) \cup Added("allow", a, l)
                            /\ RulesOf(lines', "disallow", a) = RulesOf(lines, "disallow", a) \cup Added("disallow", a, l)
    BY <1>3, <1>k, <2>l
  <2>1. current' = current /\ sitemaps' = sitemaps
    BY <1>3 DEF DelayMet
  <2>2. /\ DOMAIN groups' = DOMAIN groups
        /\ \A a \in DOMAIN groups : groups'[a] \in Group /\ groups'[a].allow = groups[a].allow /\ groups'[a].disallow = groups[a].disallow
    <3>1. CASE groups' = groups
      BY <1>t, <3>1
    <3>2. CASE current # "" /\ groups' = [groups EXCEPT ![current] = [groups[current] EXCEPT !.delay = l.of]]
      <4>1. current \in DOMAIN groups /\ groups[current] \in Group
        BY <1>t, <3>2
      <4>2. [groups[current] EXCEPT !.delay = l.of] \in Group
        BY <2>l, <4>1 DEF Group
      <4> QED BY <1>t, <3>2, <4>1, <4>2 DEF Group
    <3> QED BY <1>3, <3>1, <3>2 DEF DelayMet, SetGroup
  <2>3. \A a, kind : kind \in {"allow", "disallow"} => Added(kind, a, l) = {}
    BY <2>l DEF Added
  <2>4. RulesTypeOK'
    BY <1>t, <2>1, <2>2 DEF RulesTypeOK
  <2>5. \A a : a # "" => RulesOf(lines', "allow", a) = RulesOf(lines, "allow", a) /\ RulesOf(lines', "disallow", a) = RulesOf(lines, "disallow", a)
    BY <2>k, <2>3
  <2>6. ASSUME NEW a \in DOMAIN groups' \ {""}
        PROVE  /\ groups'[a].allow = RulesOf(lines', "allow", a) /\ groups'[a].disallow = RulesOf(lines', "disallow", a)
               /\ IsFiniteSet(groups'[a].allow) /\ IsFiniteSet(groups'[a].disallow)
    BY <1>i, <2>2, <2>5
  <2>7. DOMAIN groups' = AgentsIn(lines') /\ Under(lines', current')
    BY <1>i, <2>k, <2>1, <2>2
  <2>8. sitemaps' <= Len(lines')
    <3>1. Len(lines') = Len(lines) + 1 /\ sitemaps' = sitemaps
      BY <2>k, <2>1
    <3> QED BY <1>m, <3>1
  <2> QED BY <2>k, <2>4, <2>6, <2>7, <2>8 DEF RulesInv
<1>4. ASSUME NEW l \in SitemapLine, SitemapMet, Keep(l), Len(lines) < MaxLines PROVE RulesInv'
  <2>l. l \in Line /\ l.is = "sitemap"
    BY DEF Line, SitemapLine
  <2>k. /\ lines' \in Seq(Line) /\ Len(lines') = Len(lines) + 1 /\ Len(lines') <= MaxLines
        /\ AgentsIn(lines') = AgentsIn(lines) /\ Under(lines', current)
        /\ \A a : a # "" => /\ RulesOf(lines', "allow", a) = RulesOf(lines, "allow", a) \cup Added("allow", a, l)
                            /\ RulesOf(lines', "disallow", a) = RulesOf(lines, "disallow", a) \cup Added("disallow", a, l)
    BY <1>4, <1>k, <2>l
  <2>1. current' = current /\ groups' = groups /\ sitemaps' \in 0 .. Len(lines) + 1
    <3>1. current' = current /\ groups' = groups /\ sitemaps' = sitemaps + (IF current = "" THEN 0 ELSE 1)
      BY <1>4 DEF SitemapMet
    <3>2. sitemaps' \in 0 .. Len(lines) + 1
      <4>1. CASE current = ""
        <5>1. sitemaps' = sitemaps + 0
          BY <3>1, <4>1
        <5> QED BY <1>m, <5>1
      <4>2. CASE current # ""
        <5>1. sitemaps' = sitemaps + 1
          BY <3>1, <4>2
        <5> QED BY <1>m, <5>1
      <4> QED BY <4>1, <4>2
    <3> QED BY <3>1, <3>2
  <2>2. \A a, kind : kind \in {"allow", "disallow"} => Added(kind, a, l) = {}
    BY <2>l DEF Added
  <2>3. \A a : a # "" => RulesOf(lines', "allow", a) = RulesOf(lines, "allow", a) /\ RulesOf(lines', "disallow", a) = RulesOf(lines, "disallow", a)
    BY <2>k, <2>2
  <2>5. sitemaps' <= Len(lines') /\ sitemaps' \in 0 .. MaxLines
    <3>1. Len(lines') = Len(lines) + 1 /\ Len(lines') <= MaxLines
      BY <2>k
    <3> QED BY <1>m, <2>1, <3>1
  <2>6. RulesTypeOK'
    BY <1>t, <2>1, <2>5 DEF RulesTypeOK
  <2>7. DOMAIN groups' = AgentsIn(lines') /\ Under(lines', current')
    BY <1>i, <2>k, <2>1
  <2>8. ASSUME NEW a \in DOMAIN groups' \ {""}
        PROVE  /\ groups'[a].allow = RulesOf(lines', "allow", a) /\ groups'[a].disallow = RulesOf(lines', "disallow", a)
               /\ IsFiniteSet(groups'[a].allow) /\ IsFiniteSet(groups'[a].disallow)
    BY <1>i, <2>1, <2>3
  <2> QED BY <2>k, <2>5, <2>6, <2>7, <2>8 DEF RulesInv
<1>5. ASSUME UNCHANGED rules PROVE RulesInv'
  BY <1>5 DEF rules, RulesInv, RulesTypeOK
<1> QED BY <1>1, <1>2, <1>3, <1>4, <1>5 DEF RulesNext

\* One set of rules has no better match than another just when each of its matches is
\* equalled by one of the other's.
LEMMA BestIs ==
  ASSUME NEW D \in SUBSET Rule, NEW A \in SUBSET Rule, IsFiniteSet(D), IsFiniteSet(A), NEW path \in Path
  PROVE  Best(D, path) <= Best(A, path) <=>
           \A d \in D : path \in Matches[d] => \E a \in A : path \in Matches[a] /\ Length[a] >= Length[d]
<1> DEFINE Lengths(S) == {Length[r] : r \in {q \in S : path \in Matches[q]}}
<1>1. ASSUME NEW S \in SUBSET Rule, IsFiniteSet(S)
      PROVE  /\ Best(S, path) \in Nat
             /\ Best(S, path) = 0 \/ \E r \in S : path \in Matches[r] /\ Best(S, path) = Length[r]
             /\ \A r \in S : path \in Matches[r] => Length[r] <= Best(S, path)
  <2>1. IsFiniteSet({q \in S : path \in Matches[q]})
    BY <1>1, FS_Subset
  <2>2. IsFiniteSet(Lengths(S))
    <3> DEFINE M == {q \in S : path \in Matches[q]}
               f == [r \in M |-> Length[r]]
    <3>1. f \in Surjection(M, Lengths(S))
      BY DEF Surjection
    <3> HIDE DEF f
    <3> QED BY <2>1, <3>1, FS_Surjection
  <2>3. IsFiniteSet(Lengths(S) \cup {0})
    BY <2>2, FS_AddElement
  <2>4. Lengths(S) \cup {0} \in SUBSET Nat
    BY RulesAssumption
  <2>5. /\ Max(Lengths(S) \cup {0}) \in Lengths(S) \cup {0}
        /\ \A y \in Lengths(S) \cup {0} : y <= Max(Lengths(S) \cup {0})
    <3> HIDE DEF Lengths
    <3> QED BY <2>3, <2>4, GreatestIs
  <2>6. Best(S, path) = Max(Lengths(S) \cup {0})
    BY DEF Best
  <2> QED BY <2>4, <2>5, <2>6
<1>2. \A r \in Rule : Length[r] \in Nat \ {0}
  BY RulesAssumption
<1> HIDE DEF Lengths
<1>3. ASSUME Best(D, path) <= Best(A, path), NEW d \in D, path \in Matches[d]
      PROVE  \E a \in A : path \in Matches[a] /\ Length[a] >= Length[d]
  <2>1. Length[d] <= Best(D, path) /\ Length[d] \in Nat \ {0} /\ Best(D, path) \in Nat /\ Best(A, path) \in Nat
    BY <1>1, <1>2, <1>3
  <2>2. Length[d] <= Best(A, path) /\ Best(A, path) # 0
    BY <1>3, <2>1
  <2>3. PICK a \in A : path \in Matches[a] /\ Best(A, path) = Length[a]
    BY <1>1, <2>2
  <2> QED BY <2>1, <2>2, <2>3
<1>4. ASSUME \A d \in D : path \in Matches[d] => \E a \in A : path \in Matches[a] /\ Length[a] >= Length[d]
      PROVE  Best(D, path) <= Best(A, path)
  <2>0. Best(D, path) \in Nat /\ Best(A, path) \in Nat
    BY <1>1
  <2>1. CASE Best(D, path) = 0
    BY <2>0, <2>1
  <2>2. CASE \E r \in D : path \in Matches[r] /\ Best(D, path) = Length[r]
    <3>1. PICK r \in D : path \in Matches[r] /\ Best(D, path) = Length[r]
      BY <2>2
    <3>2. PICK a \in A : path \in Matches[a] /\ Length[a] >= Length[r]
      BY <1>4, <3>1
    <3>3. Length[a] <= Best(A, path) /\ Length[a] \in Nat /\ Length[r] \in Nat
      BY <1>1, <1>2, <3>2
    <3> QED BY <2>0, <3>1, <3>2, <3>3
  <2> QED BY <1>1, <2>1, <2>2
<1> QED BY <1>3, <1>4

\* Where no two user-agent lines follow each other, a line is of the group that its last
\* user-agent line heads.
LEMMA GroupOfLine ==
  ASSUME RulesInv, OneAgentPerGroup, NEW i \in DOMAIN lines, NEW a
  PROVE  a \in AgentsOf(i) <=> \E h \in 1 .. i : Heads(lines, i, h) /\ lines[h].of = a
<1> DEFINE before == {j \in 1 .. i : lines[j].is = "agent"}
           run == {j \in before : \A k \in j .. Max(before) : lines[k].is = "agent"}
<1>0. i \in 1 .. Len(lines) /\ Len(lines) \in Nat
  BY LenProperties DEF RulesInv
<1>1. CASE before = {}
  <2>1. AgentsOf(i) = {}
    BY <1>1 DEF AgentsOf
  <2> QED BY <1>1, <2>1 DEF Heads
<1>2. CASE before # {}
  <2> DEFINE m == Max(before)
  <2>1. m \in before /\ \A y \in before : y <= m
    <3>1. before \in SUBSET Nat /\ before \subseteq 1 .. i /\ IsFiniteSet(1 .. i)
      <4>1. i \in Int /\ 1 \in Int
        BY <1>0
      <4> QED BY <4>1, FS_Interval
    <3>2. IsFiniteSet(before)
      BY <3>1, FS_Subset
    <3> HIDE DEF before
    <3> QED BY <1>2, <3>1, <3>2, GreatestIs
  <2> HIDE DEF m
  <2>2. m \in 1 .. i /\ Heads(lines, i, m)
    <3>1. \A k \in m + 1 .. i : k \in 1 .. i /\ ~(k <= m)
      BY <2>1
    <3> QED BY <2>1, <3>1 DEF Heads
  <2>3. run = {m}
    <3>1. m \in run
      <4>1. \A k \in m .. m : k = m
        BY <2>1
      <4> QED BY <2>1, <4>1 DEF m
    <3>2. ASSUME NEW j \in run, j # m PROVE FALSE
      <4>1. j \in before /\ \A k \in j .. m : lines[k].is = "agent"
        BY DEF m
      <4>2. j <= m /\ j \in 1 .. i /\ m \in 1 .. i
        BY <2>1, <4>1
      <4>3. j \in j .. m /\ j + 1 \in j .. m /\ j + 1 \in 2 .. Len(lines) /\ (j + 1) - 1 = j
        BY <1>0, <3>2, <4>2
      <4> QED BY <4>1, <4>3 DEF OneAgentPerGroup
    <3> QED BY <3>1, <3>2
  <2>4. AgentsOf(i) = {lines[j].of : j \in run}
    BY <1>2 DEF AgentsOf
  <2>5. \A h \in 1 .. i : Heads(lines, i, h) => h = m
    BY <1>0, <2>2, OneHead
  <2> HIDE DEF run
  <2> QED BY <2>2, <2>3, <2>4, <2>5
<1> QED BY <1>1, <1>2

\* The parser's verdict is that of RFC 9309 on the lines it has read.
LEMMA VerdictFollows == RulesInv => VerdictOfRFC
<1> SUFFICES ASSUME RulesInv, OneAgentPerGroup, NEW path \in Path PROVE CanFetch(path) <=> Allowed(path)
  BY DEF VerdictOfRFC
<1>1. ASSUME NEW kind PROVE Applies(kind) = RulesOf(lines, kind, Us)
  <2>1. \A j \in DOMAIN lines : Us \in AgentsOf(j) <=> \E h \in 1 .. j : Heads(lines, j, h) /\ lines[h].of = Us
    BY GroupOfLine
  <2> QED BY <2>1 DEF Applies, RulesOf
<1>2. Named = DOMAIN groups /\ Us # ""
  BY DEF RulesInv, Named, AgentsIn, Us
<1>3. CASE Us \in DOMAIN groups
  <2> DEFINE g == groups[Us]
  <2>1. OurGroup = {g}
    BY <1>2, <1>3 DEF OurGroup, Us
  <2>2. /\ g.disallow = Applies("disallow") /\ g.allow = Applies("allow")
        /\ IsFiniteSet(g.disallow) /\ IsFiniteSet(g.allow) /\ g.disallow \subseteq Rule /\ g.allow \subseteq Rule
    BY <1>1, <1>2, <1>3 DEF RulesInv, RulesTypeOK, Group
  <2> HIDE DEF g
  <2>3. CanFetch(path) <=> Best(g.disallow, path) <= Best(g.allow, path)
    BY <2>1 DEF CanFetch
  <2>4. CanFetch(path) <=> \A d \in g.disallow : path \in Matches[d] => \E a \in g.allow : path \in Matches[a] /\ Length[a] >= Length[d]
    BY <2>2, <2>3, BestIs
  <2> QED BY <2>2, <2>4 DEF Allowed
<1>4. CASE Us \notin DOMAIN groups
  <2>1. OurGroup = {}
    BY <1>2, <1>4 DEF OurGroup, Us
  <2>2. RulesOf(lines, "disallow", Us) = {}
    <3> SUFFICES ASSUME NEW j \in DOMAIN lines, NEW h \in 1 .. j, Heads(lines, j, h), lines[h].of = Us PROVE FALSE
      BY DEF RulesOf
    <3>1. h \in DOMAIN lines
      <4>1. lines \in Seq(Line)
        BY DEF RulesInv
      <4>2. DOMAIN lines = 1 .. Len(lines) /\ Len(lines) \in Nat
        BY <4>1, LenProperties
      <4> QED BY <4>2
    <3>2. Us \in AgentsIn(lines)
      BY <3>1 DEF AgentsIn, Heads
    <3> QED BY <1>4, <3>2 DEF RulesInv
  <2> QED BY <1>1, <2>1, <2>2 DEF CanFetch, Allowed
<1> QED BY <1>3, <1>4

\* What can_fetch says of a path is what the longest matching rule of the agent's
\* group says, whatever lines the file has and in whatever order.
THEOREM VerdictIsRFC == RulesSpec => []VerdictOfRFC
<1>1. RulesInit => RulesInv
  BY RulesStart
<1>2. RulesInv /\ [RulesNext]_rules => RulesInv'
  BY RulesStep
<1>3. RulesInv => VerdictOfRFC
  BY VerdictFollows
<1> QED BY <1>1, <1>2, <1>3, PTL DEF RulesSpec

\* Whoever asks for the rules of an origin gets the outcome of the one fetch all wait
\* for, and the rules say of a path what RFC 9309 has them say.
THEOREM RobotsAnswer == RobotsSpec /\ RulesSpec => []RobotsSound
<1>1. RobotsSpec => []FetchSharedByAll
  BY OneFetchForAll
<1>2. RulesSpec => []VerdictOfRFC
  BY VerdictIsRFC
<1>3. FetchSharedByAll /\ VerdictOfRFC => RobotsSound
  BY DEF RobotsSound
<1> QED BY <1>1, <1>2, <1>3, PTL
===============================================================================
