------------------------------ MODULE PlainFetch ------------------------------
(***************************************************************************)
(* aiohttp_retry_fetch of network/_fetch.py, by which robots.txt and       *)
(* sitemaps are fetched: one loop over tries, proxies and the two paths of *)
(* PathSwitch.  The call is all there is of its state, so a step is one    *)
(* request and what the loop makes of its outcome.  Which proxies the      *)
(* session offers is a free choice.                                        *)
(***************************************************************************)
EXTENDS Naturals

CONSTANTS
  Proxy,       \* proxies of the session
  NoProxy,     \* get_proxy has none to offer; a direct request
  PlainRetries \* max_retries

ASSUME PlainAssumption == NoProxy \notin Proxy /\ PlainRetries \in Nat

VARIABLES
  proxyMode, \* proxy_mode
  doing,     \* "idle", before a "request", or about to "turn" to another proxy
  proxy,     \* proxy_url
  left,      \* retries_remaining
  switched,  \* path_switched
  result,    \* of the last call: "content", an HTTP "status", or "nothing"
  error,     \* category of its last failed request
  used,      \* history: the paths its requests took
  dry        \* history: get_proxy had none to offer

plain == <<proxyMode, doing, proxy, left, switched, result, error, used, dry>>

Policies == {"direct_only", "proxy_only", "prefer_direct", "prefer_proxy"}
Errors == {"TIMEOUT", "SSL", "CONNECTION_REFUSED", "CONNECTION_RESET", "GENERIC"}

PlainTypeOK ==
  /\ proxyMode \in Policies /\ doing \in {"idle", "request", "turn"}
  /\ proxy \in Proxy \cup {NoProxy} /\ left \in 0 .. PlainRetries + 1 /\ switched \in BOOLEAN
  /\ result \in {"content", "status", "nothing"} /\ error \in Errors \cup {"none"}
  /\ used \in SUBSET {"direct", "proxy"} /\ dry \in BOOLEAN

PathOf(p) == IF p = NoProxy THEN "direct" ELSE "proxy"

\* classify_from_category over what _classify_aiohttp_error returns
Strategy(e) ==
  CASE e = "SSL" -> "FATAL"
    [] e = "CONNECTION_REFUSED" -> IF proxy = NoProxy THEN "FATAL" ELSE "ROTATE_PROXY"
    [] e = "TIMEOUT" -> IF proxy = NoProxy THEN "TRANSIENT" ELSE "ROTATE_PROXY"
    [] OTHER -> "TRANSIENT"

\* should_fallback_for_error and should_fallback_for_proxy_exhaustion: neither
\* for an error of the site itself
WorthOtherPath(e) ==
  /\ ~switched /\ e # "SSL"
  /\ proxyMode = (IF proxy = NoProxy THEN "prefer_direct" ELSE "prefer_proxy")

-----------------------------------------------------------------------------
\* Without a proxy to start with, proxy_only and prefer_proxy go direct.
Call ==
  /\ doing = "idle" /\ doing' = "request"
  /\ left' = (IF PlainRetries = 0 THEN 1 ELSE PlainRetries)
  /\ proxy' \in (IF proxyMode \in {"proxy_only", "prefer_proxy"} THEN Proxy ELSE {}) \cup {NoProxy}
  /\ dry' = (proxyMode \in {"proxy_only", "prefer_proxy"} /\ proxy' = NoProxy)
  /\ switched' = FALSE /\ result' = "nothing" /\ error' = "none" /\ used' = {}
  /\ UNCHANGED proxyMode

SendRequest == doing = "request" /\ used' = used \cup {PathOf(proxy)} /\ UNCHANGED proxyMode
EndWith(what) == doing' = "idle" /\ result' = what /\ UNCHANGED left

\* One try less; the backoff before the next is left out.
CountTry(what) ==
  IF left > 1 THEN doing' = "request" /\ left' = left - 1 /\ UNCHANGED result
  ELSE doing' = "idle" /\ left' = 0 /\ result' = what

\* An HTTP status changes neither the path nor the proxy.
Answered ==
  /\ SendRequest
  /\ EndWith("content") \/ EndWith("status") \/ CountTry("status")
  /\ error' = "none" /\ UNCHANGED <<proxy, switched, dry>>

\* Mutant: the switch of path costs a try like any other failure.
MutSwitchPath(e) ==
  /\ WorthOtherPath(e)
  /\ proxy' \in (IF proxy = NoProxy THEN Proxy ELSE {NoProxy})
  /\ switched' = TRUE /\ CountTry("nothing") /\ UNCHANGED dry

\* The switch of path costs no try, so that one is always left for it.
SwitchPath(e) ==
  /\ WorthOtherPath(e)
  /\ proxy' \in (IF proxy = NoProxy THEN Proxy ELSE {NoProxy})
  /\ switched' = TRUE /\ doing' = "request" /\ UNCHANGED <<left, result, dry>>

StayOnPath(e) ==
  /\ WorthOtherPath(e) => proxy = NoProxy
  /\ dry' = (dry \/ WorthOtherPath(e))
  /\ IF Strategy(e) = "FATAL" THEN EndWith("nothing") ELSE CountTry("nothing")
  /\ UNCHANGED <<proxy, switched>>

RequestFails(e) ==
  /\ SendRequest /\ error' = e
  /\ IF Strategy(e) = "ROTATE_PROXY"
     THEN doing' = "turn" /\ UNCHANGED <<proxy, left, switched, result, dry>>
     ELSE SwitchPath(e) \/ StayOnPath(e)

\* After mark_failure: another proxy costs no try either.
Rotated ==
  /\ doing = "turn" /\ doing' = "request"
  /\ proxy' \in Proxy \ {proxy}
  /\ UNCHANGED <<proxyMode, left, switched, result, error, used, dry>>

\* get_proxy knows none, or only the same.
NotRotated ==
  /\ doing = "turn"
  /\ SwitchPath(error) \/ StayOnPath(error)
  /\ UNCHANGED <<proxyMode, error, used>>

-----------------------------------------------------------------------------
PlainInit ==
  /\ proxyMode \in Policies
  /\ doing = "idle" /\ proxy = NoProxy /\ left = 0 /\ switched = FALSE
  /\ result = "nothing" /\ error = "none" /\ used = {} /\ dry = FALSE

PlainStep == Answered \/ (\E e \in Errors : RequestFails(e)) \/ Rotated \/ NotRotated

PlainNext == Call \/ PlainStep

PlainSpec == PlainInit /\ [][PlainNext]_plain

\* Every request is under its timeout.
FairPlainSpec == PlainSpec /\ WF_plain(PlainStep)

-----------------------------------------------------------------------------
\* A fetch of a mode with a fallback that ends without an answer, on an error that
\* may be the path's, has sent a request over both paths, unless no proxy was to
\* be had: the promise BrowserPool makes and, with contexts to replace, breaks.
BothPathsTried ==
  doing = "idle" /\ result = "nothing" /\ error \notin {"none", "SSL"}
    /\ proxyMode \in {"prefer_direct", "prefer_proxy"} /\ ~dry
    => used = {"direct", "proxy"}

\* Each fetch ends or comes to another rotation, the one step without a count.
EveryPlainFetchEnds == doing = "request" ~> doing # "request"
=============================================================================
