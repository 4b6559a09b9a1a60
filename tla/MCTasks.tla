------------------------------- MODULE MCTasks -------------------------------
(***************************************************************************)
(* Parts whose tasks have to come to an end, or whose sessions start over, *)
(* each by itself: what a crawl counts from session to session, the watch  *)
(* over the workers, the processes of plugins, the fetches in one slot of  *)
(* the browser pool, those without a browser, the discovery of sitemaps,   *)
(* the writer of the output file, the window over its crawl, and the       *)
(* threads of a dialog.  They share no state, so one run explores all: the *)
(* part that takes the first step is the one that takes them all, and the  *)
(* one that fairness is owed to.                                           *)
(***************************************************************************)
EXTENDS WorkerWatch, PluginProcess, PageFetch, PlainFetch, SitemapDiscovery, PageOutput, GuiCrawl,
        CrawlTally, DialogWorkers

VARIABLE part

OneDomain == [u \in Url |-> "host"]

\* A page may be reached under either URL.
AnyLanding == [u \in Url |-> Url]

\* Two sites whose indexes lead to each other's, and each back to itself
SomeCandidates == [s \in {"a", "b"} |-> IF s = "a" THEN {"i", "x"} ELSE {"y"}]
SomeChildren == [d \in {"i", "j", "x", "y"} |-> CASE d = "i" -> {"x", "j"} [] d = "j" -> {"i", "y"} [] OTHER -> {}]
SomeEntries == [d \in {"i", "j", "x", "y"} |-> IF d \in {"x", "y"} THEN 2 ELSE 0]

\* A page with text and one without any
Texts == [p \in {"p", "r"} |-> IF p = "r" THEN "blank" ELSE "x"]

\* A page whose threads share the permit, and one that asks whether its thread runs
DialogPages == <<"custom", "proxy">>
DialogKinds == [p \in {"custom", "proxy"} |-> [ends |-> p = "proxy", again |-> p = "proxy", permit |-> p = "custom"]]

tasks == <<watch, plugins, fetch, plain, sitemap, output, gui, tally, dialogs>>

TasksInit ==
  /\ part \in {"watch", "plugin", "fetch", "plain", "sitemap", "output", "gui", "tally", "dialogs"}
  /\ WatchInit /\ PluginInit /\ FetchInit /\ PlainInit /\ SitemapInit /\ OutputInit /\ GuiInit
  /\ TallyInit /\ DialogsInit /\ maxRequeue = 0
  /\ part # "fetch" => mode = "direct_only"
  /\ part # "plain" => proxyMode = "direct_only"

TasksNext ==
  /\ UNCHANGED part
  /\ \/ part = "watch" /\ WatchNext
        /\ UNCHANGED <<plugins, fetch, plain, sitemap, output, gui, tally, dialogs>>
     \/ part = "plugin" /\ PluginNext
        /\ UNCHANGED <<watch, fetch, plain, sitemap, output, gui, tally, dialogs>>
     \/ part = "fetch" /\ FetchNext
        /\ UNCHANGED <<watch, plugins, plain, sitemap, output, gui, tally, dialogs>>
     \/ part = "plain" /\ PlainNext
        /\ UNCHANGED <<watch, plugins, fetch, sitemap, output, gui, tally, dialogs>>
     \/ part = "sitemap" /\ SitemapNext
        /\ UNCHANGED <<watch, plugins, fetch, plain, output, gui, tally, dialogs>>
     \/ part = "output" /\ OutputNext
        /\ UNCHANGED <<watch, plugins, fetch, plain, sitemap, gui, tally, dialogs>>
     \/ part = "gui" /\ GuiNext
        /\ UNCHANGED <<watch, plugins, fetch, plain, sitemap, output, tally, dialogs>>
     \/ part = "tally" /\ TallyNext
        /\ UNCHANGED <<watch, plugins, fetch, plain, sitemap, output, gui, dialogs>>
     \/ part = "dialogs" /\ DialogsNext
        /\ UNCHANGED <<watch, plugins, fetch, plain, sitemap, output, gui, tally>>

\* The Fair...Spec of each.
FairTasksSpec ==
  /\ TasksInit /\ [][TasksNext]_<<part, tasks>>
  /\ WF_watch(part = "watch" /\ WatchTick)
  /\ WF_watch(part = "watch" /\ MainStep)
  /\ \A t \in Task : SF_plugins(part = "plugin" /\ TaskStep(t))
  /\ WF_fetch(part = "fetch" /\ FetchStep)
  /\ WF_plain(part = "plain" /\ PlainStep)
  /\ WF_sitemap(part = "sitemap" /\ (OriginStep \/ ReaderStep))
  /\ WF_output(part = "output" /\ WriterStep)
  /\ WF_gui(part = "gui" /\ ThreadStep)
  /\ WF_gui(part = "gui" /\ Slot)
  /\ WF_gui(part = "gui" /\ stopAsked /\ CrawlReturns)
  /\ WF_dialogs(part = "dialogs" /\ Handle)
  /\ WF_dialogs(part = "dialogs" /\ Clean)
  /\ \A w \in DialogWorker : WF_dialogs(part = "dialogs" /\ WorkerStep(w))

\* Every part keeps its types: no counter leaves its range, no state is one that the
\* code does not know.
TasksTypeOK ==
  CASE part = "watch" -> WatchTypeOK
    [] part = "plugin" -> PluginTypeOK
    [] part = "fetch" -> FetchTypeOK
    [] part = "plain" -> PlainTypeOK
    [] part = "sitemap" -> SitemapTypeOK
    [] part = "output" -> OutputTypeOK
    [] part = "gui" -> GuiTypeOK
    [] part = "tally" -> TallyTypeOK
    [] part = "dialogs" -> DialogsTypeOK

\* A fetch with or without a browser is under way, an origin is searched for sitemaps,
\* a record is in memory, the window waits for a crawl it has stopped, a crawl goes
\* on without a worker, or a dialog waits for its threads.
Awaited ==
  \/ at \notin {"idle", "rotate"} \/ doing = "request"
  \/ ~allDone \/ (buffer # <<>> /\ ~broken)
  \/ StopAwaited \/ Deserted \/ Unsettled

\* EveryFetchEnds, EveryPlainFetchEnds, DiscoveryEnds, BufferDrains, StopIsAnswered,
\* WatchEnds and DialogsEnd in one, each for its part: no fetch, no search for sitemaps,
\* no record, no stop of the user, no crawl that lost its workers and no dialog hangs
\* for ever.
NothingHangs == Awaited ~> ~Awaited
=============================================================================
