------------------------------ MODULE PageFetch ------------------------------
(***************************************************************************)
(* One slot of the browser pool and the fetches that follow one another in *)
(* it: BrowserPool._do_fetch with its retry loop, the dispatch of retry    *)
(* strategies, ContextPool.scoped_path, and the contexts and pages they    *)
(* open, replace and close.  The browser may be restarted underneath, and  *)
(* the pool may stop accepting.                                            *)
(*                                                                         *)
(* A step runs from one await to the next that matters here.  Errors are   *)
(* reduced to the retry strategy they map to, proxies to the path "proxy". *)
(***************************************************************************)
EXTENDS Naturals

CONSTANTS MaxRetries   \* max_retries

ASSUME FetchAssumption == MaxRetries \in Nat \ {0}

VARIABLES
  mode,     \* proxy_mode
  at,       \* what the fetch is about to do
  section,  \* the remembered path, the main path, or the fallback
  scoped,   \* scoped_path has switched the slot and will switch it back
  via,      \* the path of the slot's context (_proxy_map)
  flag,     \* what the retry loop takes it to be (slot_has_proxy)
  page,     \* the page in its hands; a dead one has gone with its context
  pool,     \* its PagePool is that of the slot's context, or a closed one
  retries,  \* retries_remaining
  got,      \* the outcome
  shut,     \* SlotPool._closed
  gone,     \* the contexts went with their browser
  tried,    \* history: paths a live page was sent over in this fetch
  spoilt,   \* history: it met a page or context that could not be made, or shut
  astray    \* history: the slot could not be switched back

context == <<via, shut, gone, astray>>
hands == <<page, pool>>
progress == <<at, section, scoped, flag, retries, got>>
history == <<tried, spoilt>>
fetch == <<mode, context, hands, progress, history>>

Way == {"direct", "proxy"}
Mode == {"direct_only", "proxy_only", "prefer_direct", "prefer_proxy"}

FetchTypeOK ==
  /\ mode \in Mode /\ via \in Way /\ flag \in Way /\ tried \in SUBSET Way
  /\ at \in {"idle", "page", "enter", "loop", "attempt", "rotate", "replace", "over", "exit", "tidy"}
  /\ section \in {"memory", "main", "fallback"}
  /\ page \in {"none", "live", "dead"} /\ pool \in {"live", "dead"}
  /\ retries \in 0 .. MaxRetries /\ got \in {"none", "page", "error"}
  /\ {scoped, shut, gone, spoilt, astray} \subseteq BOOLEAN

\* PathSwitch
Main == IF mode \in {"proxy_only", "prefer_proxy"} THEN "proxy" ELSE "direct"
OtherPath == IF Main = "proxy" THEN "direct" ELSE "proxy"
HasFallback == mode \in {"prefer_direct", "prefer_proxy"}

BeginLoop(sec, path) ==
  /\ at' = "loop" /\ section' = sec /\ retries' = MaxRetries /\ flag' = path

\* SlotPool.replace: the new context takes the place of the old one, which is
\* closed with all its pages.
Swap(path) ==
  /\ ~shut
  /\ via' = path /\ astray' = (astray /\ path # Main)
  /\ page' = (IF page = "live" THEN "dead" ELSE page)
  /\ UNCHANGED <<shut, gone>>

\* It returns silently once the pool is shut.
NoSwap == shut /\ UNCHANGED <<context, page>>

End(outcome) ==
  /\ got' = outcome
  /\ at' = IF scoped THEN "exit" ELSE "tidy"

-----------------------------------------------------------------------------
(* _handle and _do_fetch                                                     *)

Start ==
  /\ at = "idle"
  /\ at' = "page" /\ got' = "none" /\ tried' = {} /\ spoilt' = shut
  /\ UNCHANGED <<mode, context, hands, section, scoped, flag, retries>>

\* DomainPathMemory may send the domain to the other path first.
OpenPage ==
  /\ at = "page" /\ ~gone
  /\ page' = "live" /\ pool' = "live"
  /\ \/ BeginLoop("main", via)
     \/ HasFallback /\ at' = "enter" /\ section' = "memory" /\ UNCHANGED <<retries, flag>>
  /\ UNCHANGED <<mode, context, scoped, got, history>>

NoPage ==
  /\ at = "page" /\ at' = "idle" /\ got' = "error"
  /\ UNCHANGED <<mode, context, hands, section, scoped, flag, retries, history>>

\* Entering scoped_path
SwitchOver ==
  /\ at = "enter"
  /\ \/ /\ via = OtherPath
        /\ scoped' = FALSE /\ UNCHANGED <<context, hands>>
     \/ /\ via # OtherPath /\ scoped' = TRUE
        /\ \/ Swap(OtherPath) /\ pool' = "dead"
           \/ NoSwap /\ UNCHANGED pool
  /\ BeginLoop(section, via')
  /\ UNCHANGED <<mode, got, history>>

CannotSwitch ==
  /\ at = "enter" /\ via # OtherPath /\ ~shut
  /\ at' = "tidy" /\ got' = "error" /\ spoilt' = TRUE
  /\ UNCHANGED <<mode, context, hands, section, scoped, flag, retries, tried>>

\* The loop ended without a response; it looks at _closed as well, which is
\* set after the slots were told to stop.
Over == at = "over" \/ (at = "loop" /\ (retries = 0 \/ shut))

ToMain ==
  /\ Over /\ section = "memory"
  /\ IF scoped THEN at' = "exit" /\ UNCHANGED <<section, retries, flag>> ELSE BeginLoop("main", via)
  /\ UNCHANGED <<mode, context, hands, scoped, got, history>>

\* The error decides whether the other path is worth trying.
ToFallback ==
  /\ Over /\ section = "main" /\ HasFallback
  /\ at' = "enter" /\ section' = "fallback"
  /\ \/ /\ page = "none" /\ pool = "live"
        /\ page' = "live" /\ UNCHANGED spoilt
     \/ /\ UNCHANGED page
        /\ spoilt' = (spoilt \/ (page = "none" /\ pool = "live"))
  /\ UNCHANGED <<mode, context, pool, scoped, flag, retries, got, tried>>

FetchFails ==
  /\ Over /\ section # "memory"
  /\ End("error")
  /\ UNCHANGED <<mode, context, hands, section, scoped, flag, retries, history>>

\* Mutant: the slot is switched back only when the fetch went well.
MutSwitchBack ==
  /\ at = "exit" /\ scoped' = FALSE
  /\ \/ got = "page" /\ Swap(Main) /\ pool' = "dead"
     \/ (got # "page" \/ shut) /\ UNCHANGED <<context, hands>>
  /\ IF got = "none" THEN BeginLoop("main", via') ELSE at' = "tidy" /\ UNCHANGED <<section, retries, flag>>
  /\ UNCHANGED <<mode, got, history>>

\* Leaving scoped_path: a switch back that fails is logged.
SwitchBack ==
  /\ at = "exit" /\ scoped' = FALSE
  /\ \/ Swap(Main) /\ pool' = "dead" /\ UNCHANGED spoilt
     \/ NoSwap /\ UNCHANGED <<pool, spoilt>>
     \/ /\ ~shut /\ astray' = TRUE /\ spoilt' = TRUE
        /\ UNCHANGED <<via, shut, gone, hands>>
  /\ IF got = "none" THEN BeginLoop("main", via') ELSE at' = "tidy" /\ UNCHANGED <<section, retries, flag>>
  /\ UNCHANGED <<mode, got, tried>>

\* _handle closes the page it opened itself.
Tidy ==
  /\ at = "tidy" /\ at' = "idle"
  /\ page' = "none" /\ UNCHANGED pool
  /\ UNCHANGED <<mode, via, shut, gone, astray, section, scoped, flag, retries, got, history>>

-----------------------------------------------------------------------------
(* _retry_loop and _dispatch_retry_strategy                                  *)

\* Mutant: the retries left are not looked at.
MutNextTry ==
  /\ at = "loop"
  /\ \/ page # "none" /\ UNCHANGED page
     \/ page = "none" /\ pool = "live" /\ page' = "live"
  /\ at' = "attempt"
  /\ UNCHANGED <<mode, context, pool, section, scoped, flag, retries, got, history>>

NextTry ==
  /\ at = "loop" /\ retries > 0
  /\ \/ page # "none" /\ UNCHANGED page
     \/ page = "none" /\ pool = "live" /\ page' = "live"
  /\ at' = "attempt"
  /\ UNCHANGED <<mode, context, pool, section, scoped, flag, retries, got, history>>

\* Mutant: a page that cannot be opened costs no retry.
MutNoNewPage ==
  /\ at = "loop" /\ retries > 0 /\ page = "none"
  /\ spoilt' = (spoilt \/ pool = "live")
  /\ UNCHANGED <<mode, context, hands, progress, tried>>

NoNewPage ==
  /\ at = "loop" /\ retries > 0 /\ page = "none"
  /\ retries' = retries - 1
  /\ spoilt' = (spoilt \/ pool = "live")
  /\ UNCHANGED <<mode, context, hands, at, section, scoped, flag, got, tried>>

Loads ==
  /\ at = "attempt" /\ page = "live"
  /\ tried' = tried \cup {via}
  /\ End("page")
  /\ UNCHANGED <<mode, context, hands, section, scoped, flag, retries, spoilt>>

\* Whatever fails on a dead page, its target was closed.
LoadFails ==
  /\ at = "attempt"
  /\ tried' = IF page = "live" THEN tried \cup {via} ELSE tried
  /\ \/ page = "live" /\ at' = "over" /\ UNCHANGED <<page, retries>>              \* FATAL
     \/ /\ page = "live" /\ at' = "loop"                                         \* TRANSIENT
        /\ page' = "none" /\ retries' = retries - 1
     \/ /\ page = "live" /\ flag = "proxy" /\ at' = "rotate"                     \* ROTATE_PROXY
        /\ page' = "none" /\ UNCHANGED retries
     \/ at' = "replace" /\ page' = "none" /\ UNCHANGED retries                   \* REPLACE_CONTEXT
  /\ UNCHANGED <<mode, context, pool, section, scoped, flag, got, spoilt>>

Rotate ==
  /\ at = "rotate" /\ Swap("proxy")
  /\ at' = "loop" /\ pool' = "live" /\ flag' = via'
  /\ UNCHANGED <<mode, section, scoped, retries, got, history>>

\* The context was made anew, but for the same proxy: the loop gives up with
\* the pool of the context that has been closed.
SameProxy ==
  /\ at = "rotate" /\ Swap("proxy")
  /\ at' = "over" /\ pool' = "dead"
  /\ UNCHANGED <<mode, section, scoped, flag, retries, got, history>>

\* No proxy is healthy, or the pool is shut.
NoRotation ==
  /\ at = "rotate" /\ at' = "over"
  /\ UNCHANGED <<mode, context, hands, section, scoped, flag, retries, got, history>>

\* A SlotCreateError in rotate_proxy is caught by _handle only.
RotationFails ==
  /\ at = "rotate" /\ ~shut
  /\ End("error") /\ spoilt' = TRUE
  /\ UNCHANGED <<mode, context, hands, section, scoped, flag, retries, tried>>

\* Mutant: replace_context takes the path of the mode, not of the slot.
MutReplacePath ==
  /\ at = "replace"
  /\ Swap(Main) \/ NoSwap
  /\ pool' = (IF gone THEN "dead" ELSE "live")
  /\ at' = "loop" /\ retries' = retries - 1
  /\ UNCHANGED <<mode, flag, section, scoped, got, history>>

ReplaceContext ==
  /\ at = "replace"
  /\ Swap(via) \/ NoSwap
  /\ pool' = (IF gone THEN "dead" ELSE "live")
  /\ at' = "loop" /\ flag' = via' /\ retries' = retries - 1
  /\ UNCHANGED <<mode, section, scoped, got, history>>

CannotReplace ==
  /\ at = "replace" /\ ~shut
  /\ at' = "over" /\ spoilt' = TRUE
  /\ UNCHANGED <<mode, context, hands, section, scoped, flag, retries, got, tried>>

-----------------------------------------------------------------------------
(* The browser underneath                                                    *)

\* BrowserInstance.restart closes all contexts; a fetch under way goes on with
\* the ContextPool it had.
BrowserGoes ==
  /\ ~gone
  /\ shut' = TRUE /\ gone' = TRUE /\ spoilt' = TRUE
  /\ page' = (IF page = "live" THEN "dead" ELSE page) /\ pool' = "dead"
  /\ UNCHANGED <<mode, via, astray, progress, tried>>

BrowserBack ==
  /\ gone /\ at = "idle"
  /\ shut' = FALSE /\ gone' = FALSE /\ via' = Main /\ astray' = FALSE
  /\ UNCHANGED <<mode, hands, progress, history>>

StopAccepting ==
  /\ ~shut
  /\ shut' = TRUE /\ spoilt' = TRUE
  /\ UNCHANGED <<mode, via, gone, astray, hands, progress, tried>>

-----------------------------------------------------------------------------
FetchInit ==
  /\ mode \in Mode /\ via = Main /\ flag = Main
  /\ at = "idle" /\ section = "main" /\ got = "none" /\ retries = 0
  /\ page = "none" /\ pool = "dead"
  /\ scoped = FALSE
  /\ shut = FALSE /\ gone = FALSE /\ spoilt = FALSE /\ astray = FALSE /\ tried = {}

FetchStep ==
  \/ OpenPage \/ NoPage \/ SwitchOver \/ CannotSwitch
  \/ ToMain \/ ToFallback \/ FetchFails \/ SwitchBack \/ Tidy
  \/ NextTry \/ NoNewPage \/ Loads \/ LoadFails
  \/ Rotate \/ SameProxy \/ NoRotation \/ RotationFails \/ ReplaceContext \/ CannotReplace

FetchNext == Start \/ FetchStep \/ BrowserGoes \/ BrowserBack \/ StopAccepting

FetchSpec == FetchInit /\ [][FetchNext]_fetch

\* Every await of a fetch is under a timeout.
FairFetchSpec == FetchSpec /\ WF_fetch(FetchStep)

-----------------------------------------------------------------------------
\* Between fetches the slot is on the main path, whatever happened in
\* scoped_path, unless it could not be switched back or the pool is shut.
PathRestored == at = "idle" => via = Main \/ astray \/ shut

\* Failures are classified by the path the page really took: slot_has_proxy
\* is never behind the switches, rotations and replacements of the slot.
FlagFresh == at = "attempt" => flag = via

\* Both: neither the slot nor the flag carried along stays on the path of another fetch.
PathKept == PathRestored /\ FlagFresh

\* Each fetch ends or comes to another rotation of proxies, the one step that
\* does not count as a retry.
EveryFetchEnds == at \notin {"idle", "rotate"} ~> at \in {"idle", "rotate"}

\* A fetch that gives up on the fallback has tried it with a live page.
FallbackTried ==
  at = "tidy" /\ got = "error" /\ section = "fallback" /\ ~spoilt => OtherPath \in tried

=============================================================================
