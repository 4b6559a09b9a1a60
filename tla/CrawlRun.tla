------------------------------- MODULE CrawlRun -------------------------------
(***************************************************************************)
(* AsyncCrawler.run around the crawl: what it opens on the way, the report *)
(* of Phase B, and the AsyncExitStack that closes everything in the        *)
(* reverse of the order of registration.  Opening may fail at any point,   *)
(* the crawl may raise, closing may raise or run into its timeout, and the *)
(* task may be cancelled at any await.                                     *)
(*                                                                         *)
(* What the crawl does to the tables is the subject of CrawlEngine, what   *)
(* is counted of it that of CrawlTally.                                    *)
(***************************************************************************)
EXTENDS Naturals, Sequences

CONSTANTS
  Optional,  \* resources the configuration may leave out: probes, sitemaps, pool
  MaxUpsets  \* bound: failures, timeouts and cancellations

\* In the order in which run() opens them
Order == <<"db", "probes", "http", "sitemaps", "writer", "diagnostics", "monitor", "pool">>
Resource == {Order[k] : k \in DOMAIN Order}
SetUp == Len(Order) - 1    \* all but the pool, which Phase A starts

ASSUME RunAssumption == Optional \subseteq {"probes", "sitemaps", "diagnostics", "pool"}

VARIABLES
  point,     \* "begin", "opening", "crawl", "report", "register", "close" or "over"
  opened,    \* how far the opening got
  opens,     \* what is open
  bgTasks,   \* _background_tasks: "none", "live", "cancelled" or "gone"
  stack,     \* callbacks of the exit stack, to be run in the reverse order of registration
  kept,      \* meta rows written at the end: "stats", "layers"
  told,      \* signals of the report: "error", "finished"
  upsets,
  crawlEnd,  \* history: the crawl ended "well", in an "error", or was "cut"; "going" before
  stuck      \* history: callbacks that failed, timed out or were cancelled

runState == <<point, opened, opens, bgTasks, stack, kept, told, upsets, crawlEnd, stuck>>

\* Callbacks that every run registers; the others close what is open.
Always == {"flush", "stats", "layers", "connector", "tasks"}

RunTypeOK ==
  /\ point \in {"begin", "opening", "crawl", "report", "register", "close", "over"}
  /\ opened \in 0 .. SetUp /\ opens \subseteq Resource
  /\ bgTasks \in {"none", "live", "cancelled", "gone"}
  /\ stack \subseteq Resource \cup Always
  /\ kept \subseteq {"stats", "layers"} /\ told \subseteq {"error", "finished"}

Upset == upsets < MaxUpsets /\ upsets' = upsets + 1
Calm == UNCHANGED upsets

-----------------------------------------------------------------------------
(* Opening                                                                   *)

Begin ==
  /\ point = "begin" /\ point' = "opening" /\ Calm
  /\ UNCHANGED <<opened, opens, bgTasks, stack, kept, told, crawlEnd, stuck>>

\* The reporter is a background task of every crawl; it starts next to the writer.
OpenNext ==
  LET next == Order[opened + 1] IN
  /\ point = "opening" /\ opened < SetUp
  /\ opened' = opened + 1
  /\ \/ opens' = opens \cup {next}
     \/ next \in Optional /\ UNCHANGED opens    \* left out, or the port of the diagnostics is taken
  /\ bgTasks' = IF next = "writer" THEN "live" ELSE bgTasks
  /\ UNCHANGED <<point, stack, kept, told, crawlEnd, stuck>> /\ Calm

\* Conflicting rules, a database error, a file that cannot be written, a cancellation:
\* no handler is around the opening.
OpeningFails ==
  /\ point = "opening" /\ opened < SetUp
  /\ point' = "over" /\ Upset
  /\ UNCHANGED <<opened, opens, bgTasks, stack, kept, told, crawlEnd, stuck>>

-----------------------------------------------------------------------------
(* Phase A and Phase B                                                       *)

StartCrawl ==
  /\ point = "opening" /\ opened = SetUp
  /\ point' = "crawl"
  /\ opens' \in {opens \cup {"pool"}} \cup (IF "pool" \in Optional THEN {opens} ELSE {})
  /\ UNCHANGED <<opened, bgTasks, stack, kept, told, crawlEnd, stuck>> /\ Calm

\* except Exception keeps the message, for the report.
CrawlOver ==
  /\ point = "crawl" /\ point' = "report"
  /\ \/ crawlEnd' = "well" /\ Calm
     \/ crawlEnd' = "error" /\ Upset
  /\ UNCHANGED <<opened, opens, bgTasks, stack, kept, told, stuck>>

\* A CancelledError is no Exception, and the finally begins after Phase A.
CrawlCut ==
  /\ point = "crawl" /\ point' = "over" /\ crawlEnd' = "cut" /\ Upset
  /\ UNCHANGED <<opened, opens, bgTasks, stack, kept, told, stuck>>

\* The report is made and told, with the error before it; or it fails, and that is
\* told; or run() is cancelled.  The webhook has a handler of its own.
Reported ==
  /\ point = "report" /\ point' = "register"
  /\ \/ told' = (IF crawlEnd = "error" THEN {"error", "finished"} ELSE {"finished"}) /\ Calm /\ UNCHANGED stuck
     \/ told' = {"error"} /\ Upset /\ UNCHANGED stuck
     \/ told' = {} /\ Upset /\ stuck' = stuck \cup {"report"}
  /\ UNCHANGED <<opened, opens, bgTasks, stack, kept, crawlEnd>>

-----------------------------------------------------------------------------
(* The exit stack                                                            *)

\* In the order in which run() registers them
Registered == <<"pool", "tasks", "probes", "writer", "http", "sitemaps", "connector", "monitor",
                "db", "layers", "stats", "flush", "diagnostics">>

\* The callback that was registered after all that are left
Top(c) ==
  \A d \in stack \ {c} : \E j, k \in DOMAIN Registered : j < k /\ Registered[j] = d /\ Registered[k] = c

\* While the callbacks are registered the background tasks are cancelled.
RegisterAll ==
  /\ point = "register" /\ point' = "close"
  /\ stack' = opens \cup Always /\ bgTasks' = "cancelled"
  /\ UNCHANGED <<opened, opens, kept, told, crawlEnd, stuck>> /\ Calm

Popped(c) == /\ point = "close" /\ Top(c) /\ stack' = stack \ {c}
             /\ UNCHANGED <<point, opened, told, crawlEnd>>

\* A callback does what it is there for.  Closing the HTTP session closes its
\* connector, which was closed before.
Callback(c) ==
  /\ Popped(c) /\ opens' = opens \ {c}
  /\ kept' = IF c \in {"stats", "layers"} /\ "db" \in opens THEN kept \cup {c} ELSE kept
  /\ bgTasks' = IF c = "tasks" THEN "gone" ELSE bgTasks
  /\ UNCHANGED stuck /\ Calm

\* Mutant: the exit stack ends with the first callback that raises.
MutCallbackFails(c) ==
  /\ point = "close" /\ Top(c) /\ Upset
  /\ stack' = {} /\ stuck' = stuck \cup {c}
  /\ UNCHANGED <<point, opened, opens, told, crawlEnd, kept, bgTasks>>

\* It raises, is cancelled, or runs out of time: the exit stack goes on to the next.
CallbackFails(c) ==
  /\ Popped(c) /\ Upset
  /\ stuck' = stuck \cup {c}
  /\ UNCHANGED <<opens, kept, bgTasks>>

StackEmpty ==
  /\ point = "close" /\ stack = {} /\ point' = "over"
  /\ UNCHANGED <<opened, opens, bgTasks, stack, kept, told, crawlEnd, stuck>> /\ Calm

RunInit ==
  /\ point = "begin" /\ opened = 0 /\ opens = {} /\ bgTasks = "none" /\ stack = {}
  /\ kept = {} /\ told = {} /\ upsets = 0 /\ crawlEnd = "going" /\ stuck = {}

RunNext ==
  \/ Begin \/ OpenNext \/ OpeningFails \/ StartCrawl \/ CrawlOver \/ CrawlCut \/ Reported
  \/ RegisterAll \/ (\E c \in stack : Callback(c) \/ CallbackFails(c)) \/ StackEmpty

RunSpec == RunInit /\ [][RunNext]_runState

-----------------------------------------------------------------------------
\* A crawl that came to an end by itself or in an error
Ended0 == point = "over" /\ crawlEnd \in {"well", "error"}

\* Such a run leaves nothing open but what would not close, whatever else went wrong
\* on the way; its counts are in the database, written before that was closed.
ClosesUp ==
  Ended0 =>
    /\ opens \subseteq stuck
    /\ bgTasks = "gone" \/ "tasks" \in stuck
    /\ {"stats", "layers"} \subseteq kept \cup stuck

\* And whoever waits for its signals is told: of an error if there was one, and of
\* the report if there is one.
TellsItsEnd ==
  Ended0 /\ "report" \notin stuck => told # {} /\ (crawlEnd = "error" => "error" \in told)

\* Both: a run leaves behind what it owes to the next one and to who waits for it.
RunClosesUp == ClosesUp /\ TellsItsEnd
=============================================================================
