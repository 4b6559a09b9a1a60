---------------------------- MODULE MCCrawlEngine ----------------------------
(***************************************************************************)
(* Two small sites.  In the first, page a links to b and c, b may redirect *)
(* to c and links back to a, and b and c share a host.  The second is a    *)
(* and b alone, where b may redirect to a.                                 *)
(***************************************************************************)
EXTENDS CrawlEngine, TLC

CONSTANTS a, b, c

Site == {a, b, c}
Host == [u \in Site |-> IF u = a THEN "other" ELSE "host"]
PageLinks == (a :> {b, c}) @@ (b :> {a}) @@ (c :> {})
PageRedirects == (a :> {a}) @@ (b :> {b, c}) @@ (c :> {c})

Pair == {a, b}
PairHost == [u \in Pair |-> "host"]
PairLinks == (a :> {b}) @@ (b :> {a})
PairRedirects == (a :> {a}) @@ (b :> {b, a})

JustA == {a}
JustB == {b}
NoUrl == {}

=============================================================================
