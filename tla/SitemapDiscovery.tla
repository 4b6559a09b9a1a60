--------------------------- MODULE SitemapDiscovery ---------------------------
(***************************************************************************)
(* class SitemapDiscovery of network/sitemap.py: a task per origin asks    *)
(* robots.txt for sitemaps, and a task per sitemap reads it: an index      *)
(* leads to more sitemaps, a list of URLs is queued through the engine.    *)
(* The crawl may not end before discovery_done, and the number of URLs     *)
(* taken is limited.                                                       *)
(*                                                                         *)
(* The bodies of _discovery_lock and _completion_lock do not really wait,  *)
(* so neither is found taken.  The tasks that an index waits for count as  *)
(* tasks of its origin.                                                    *)
(***************************************************************************)
EXTENDS Naturals, FiniteSets

CONSTANTS
  Site,           \* origins
  SeedSites,      \* those of the start URLs
  Doc,            \* sitemap URLs
  Candidates,     \* those robots.txt names and the default paths, per site
  Children,       \* what an index lists; a list of URLs has none
  Entries,        \* how many URLs a list has
  MaxRecursion,   \* sitemap_max_recursion
  MaxUrls,        \* sitemap_max_urls
  FetchSlots      \* sitemap_fetch_concurrency

ASSUME SitemapAssumption ==
  /\ IsFiniteSet(Site) /\ SeedSites \subseteq Site /\ SeedSites # {} /\ IsFiniteSet(Doc)
  /\ Candidates \in [Site -> SUBSET Doc] /\ Children \in [Doc -> SUBSET Doc] /\ Entries \in [Doc -> Nat]
  /\ MaxRecursion \in Nat /\ MaxUrls \in Nat \ {0} /\ FetchSlots \in Nat \ {0}

VARIABLES
  task,        \* the task of each origin: none, launched, asking robots.txt, reading, or over
  seenDocs,    \* _seen_sitemap_urls
  readers,     \* tasks that read sitemaps
  pending,     \* _pending_origins
  allDone,     \* discovery_done
  discovered,  \* URLs queued
  stopping     \* _stop_event

sitemap == <<task, seenDocs, readers, pending, allDone, discovered, stopping>>

Reader == [site : Site, doc : Doc, depth : 0 .. MaxRecursion + 1,
           at : {"begin", "wait", "fetch", "check", "queue"}, left : Nat]

SitemapTypeOK ==
  /\ task \in [Site -> {"none", "launched", "robots", "reading", "over"}]
  /\ seenDocs \subseteq Doc /\ readers \subseteq Reader
  /\ pending \in 0 .. Cardinality(Site) /\ allDone \in BOOLEAN
  /\ discovered \in Nat /\ stopping \in BOOLEAN

Of(s) == {r \in readers : r.site = s}
NewReaders(s, docs, depth) ==
  {[site |-> s, doc |-> d, depth |-> depth, at |-> "begin", left |-> 0] : d \in docs}

Ended(r) == readers' = readers \ {r}
Turns(r, q) == readers' = (readers \ {r}) \cup {q}
Goes(r, phase) == Turns(r, [r EXCEPT !.at = phase])

\* _decrement_pending, shielded from the cancellation it may be called under
OriginOver(s) ==
  /\ task' = [task EXCEPT ![s] = "over"]
  /\ pending' = pending - 1 /\ allDone' = (pending = 1 \/ allDone)

-----------------------------------------------------------------------------
(* Origins                                                                   *)

\* start_discovery counts all of them before any task runs.
StartDiscovery ==
  /\ \A s \in SeedSites : task[s] = "none"
  /\ task' = [s \in Site |-> IF s \in SeedSites THEN "robots" ELSE task[s]]
  /\ pending' = pending + Cardinality(SeedSites) /\ allDone' = FALSE
  /\ UNCHANGED <<seenDocs, readers, discovered, stopping>>

\* A worker meets a new origin: the task that will count it is only created.
DiscoverIfNew(s) ==
  /\ ~stopping /\ task[s] = "none" /\ s \notin SeedSites
  /\ task' = [task EXCEPT ![s] = "launched"]
  /\ UNCHANGED <<seenDocs, readers, pending, allDone, discovered, stopping>>

\* Mutant: the event is not cleared for an origin met during the crawl.
MutLaunched(s) ==
  /\ task[s] = "launched" /\ task' = [task EXCEPT ![s] = "robots"]
  /\ pending' = pending + 1 /\ UNCHANGED <<seenDocs, readers, allDone, discovered, stopping>>

Launched(s) ==
  /\ task[s] = "launched" /\ task' = [task EXCEPT ![s] = "robots"]
  /\ pending' = pending + 1 /\ allDone' = FALSE
  /\ UNCHANGED <<seenDocs, readers, discovered, stopping>>

\* What robots.txt names comes before the default paths.
AskedRobots(s) ==
  /\ task[s] = "robots" /\ task' = [task EXCEPT ![s] = "reading"]
  /\ \E docs \in SUBSET Candidates[s] : readers' = readers \cup NewReaders(s, docs, 0)
  /\ UNCHANGED <<seenDocs, pending, allDone, discovered, stopping>>

\* The shared fetch of robots.txt was cancelled by another of its waiters.
RobotsCut(s) ==
  /\ task[s] = "robots" /\ OriginOver(s)
  /\ UNCHANGED <<seenDocs, readers, discovered, stopping>>

\* All candidates are read and the statistics recorded.
OriginDone(s) ==
  /\ task[s] = "reading" /\ Of(s) = {} /\ OriginOver(s)
  /\ UNCHANGED <<seenDocs, readers, discovered, stopping>>

\* aclose, or the end of the task that runs start_discovery
Closed(s) ==
  /\ stopping /\ task[s] \in {"robots", "reading"}
  /\ readers' = readers \ Of(s) /\ OriginOver(s)
  /\ UNCHANGED <<seenDocs, discovered, stopping>>

StopSet == ~stopping /\ stopping' = TRUE /\ UNCHANGED <<task, seenDocs, readers, pending, allDone, discovered>>

-----------------------------------------------------------------------------
(* Sitemaps                                                                  *)

\* Mutant: an index that lists itself is read again.
MutFirstMet(r) ==
  /\ r.at = "begin"
  /\ IF r.depth > MaxRecursion \/ stopping THEN Ended(r) ELSE Goes(r, "wait")
  /\ seenDocs' = seenDocs \cup {r.doc}
  /\ UNCHANGED <<task, pending, allDone, discovered, stopping>>

\* A sitemap met too deep counts as seen, though it is not read.
FirstMet(r) ==
  /\ r.at = "begin"
  /\ IF r.doc \in seenDocs \/ r.depth > MaxRecursion \/ stopping THEN Ended(r) ELSE Goes(r, "wait")
  /\ seenDocs' = seenDocs \cup {r.doc}
  /\ UNCHANGED <<task, pending, allDone, discovered, stopping>>

Quiet == UNCHANGED <<task, seenDocs, pending, allDone, stopping>>

Fetching(r) ==
  /\ r.at = "wait" /\ Cardinality({q \in readers : q.at = "fetch"}) < FetchSlots
  /\ Goes(r, "fetch") /\ Quiet /\ UNCHANGED discovered

NotFetched(r) == r.at = "fetch" /\ Ended(r) /\ Quiet /\ UNCHANGED discovered

Fetched(r) ==
  /\ r.at = "fetch"
  /\ IF Children[r.doc] # {} THEN readers' = (readers \ {r}) \cup NewReaders(r.site, Children[r.doc], r.depth + 1)
     ELSE Turns(r, [r EXCEPT !.at = "check", !.left = Entries[r.doc]])
  /\ Quiet /\ UNCHANGED discovered

\* The next URL: the limit is looked at under the lock and the URL queued after.
Checked(r) ==
  /\ r.at = "check"
  /\ IF r.left = 0 \/ stopping \/ discovered >= MaxUrls THEN Ended(r) ELSE Goes(r, "queue")
  /\ Quiet /\ UNCHANGED discovered

\* _on_sitemap_url_enqueued: refused URLs, known ones and a full queue do not count.
LeafQueued(r) ==
  /\ r.at = "queue" /\ Turns(r, [r EXCEPT !.at = "check", !.left = @ - 1])
  /\ discovered' \in {discovered, discovered + 1}
  /\ Quiet

-----------------------------------------------------------------------------
SitemapInit ==
  /\ task = [s \in Site |-> "none"] /\ seenDocs = {} /\ readers = {}
  /\ pending = 0 /\ allDone = TRUE /\ discovered = 0 /\ stopping = FALSE

ReaderStep ==
  \E r \in readers : FirstMet(r) \/ Fetching(r) \/ NotFetched(r) \/ Fetched(r) \/ Checked(r) \/ LeafQueued(r)
OriginStep == \E s \in Site : Launched(s) \/ AskedRobots(s) \/ RobotsCut(s) \/ OriginDone(s)

SitemapNext ==
  \/ StartDiscovery \/ (\E s \in Site : DiscoverIfNew(s) \/ Closed(s)) \/ StopSet
  \/ OriginStep \/ ReaderStep

SitemapSpec == SitemapInit /\ [][SitemapNext]_sitemap

\* The tasks run, and each of their requests and queueings ends.
FairSitemapSpec == SitemapSpec /\ WF_sitemap(OriginStep \/ ReaderStep)

-----------------------------------------------------------------------------
\* While an origin is being discovered discovery_done is not set, and it is set
\* again when none is, whatever ended them: the crawl does not stop early, and is
\* not kept from stopping.
DoneWhenDone ==
  /\ pending = Cardinality({s \in Site : task[s] \in {"robots", "reading"}})
  /\ allDone <=> pending = 0

\* Each sitemap that is being read takes the limit over by one URL at most.
LimitNearlyKept ==
  discovered + Cardinality({r \in readers : r.at = "queue"})
    < MaxUrls + Cardinality({d \in seenDocs : Children[d] = {}})

\* Both, of every state of a discovery
DiscoverySound == DoneWhenDone /\ LimitNearlyKept

\* Indexes that list each other do not keep the crawl going.
DiscoveryEnds == ~allDone ~> allDone
=============================================================================
