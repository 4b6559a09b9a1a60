------------------------------- MODULE GuiCrawl -------------------------------
(***************************************************************************)
(* The main window and its crawl: gui/main_window.py, gui/crawl_session.py *)
(* and gui/thread.py.  The window starts a thread with an event loop of    *)
(* its own, reaches it through call_soon_threadsafe, and hears of it       *)
(* through queued signals, which arrive in the order they were sent but    *)
(* some time later.  The user may press any enabled button meanwhile,      *)
(* close the window, or close it twice; a watchdog limits the wait.        *)
(*                                                                         *)
(* Slots run to their end in the thread of the window.  Dialogs run the    *)
(* event loop, and nothing of a slot is left to do after one.              *)
(***************************************************************************)
EXTENDS Naturals, Sequences, SequencesExt

CONSTANTS
  MaxCrawls,  \* bound: crawls started
  MaxClicks   \* bound: pauses, resumes and closes

ASSUME GuiAssumption == MaxCrawls \in Nat /\ MaxClicks \in Nat

VARIABLES
  thread,    \* CrawlerThread: "none", "starting", "loop", "ending", "over"
  calls,     \* callbacks on their way to its loop: "stop", "pause", "resume"
  stopAsked, \* _stop_event of the engine
  onHold,    \* not _pause_event
  signals,   \* signals on their way to the window: "paused", "resumed", "finished", "error", "done"
  session,   \* _session of the window is set
  buttons,   \* which of "run", "pause", "stop" are enabled
  label,     \* _paused, the label of the pause button
  closing,   \* _closing, with the window disabled and the watchdog armed
  window,    \* "open" or "closed"
  crawls, clicks,
  lost,      \* history of the crawl: a click on stop came before the loop
  forced     \* history: the window was closed over a running thread

gui == <<thread, calls, stopAsked, onHold, signals, session, buttons, label, closing, window, crawls, clicks, lost, forced>>
inThread == <<calls, stopAsked, onHold>>
inWindow == <<session, buttons, label, closing, window, forced>>

GuiTypeOK ==
  /\ thread \in {"none", "starting", "loop", "ending", "over"}
  /\ calls \in Seq({"stop", "pause", "resume"}) /\ stopAsked \in BOOLEAN /\ onHold \in BOOLEAN
  /\ signals \in Seq({"paused", "resumed", "finished", "error", "done"})
  /\ session \in BOOLEAN /\ buttons \subseteq {"run", "pause", "stop"} /\ label \in BOOLEAN
  /\ closing \in BOOLEAN /\ window \in {"open", "closed"}

\* QThread.isRunning, and is_running of its loop
ThreadRuns == thread \in {"starting", "loop", "ending"}
LoopRuns == thread = "loop"

\* thread.stop, pause and resume: nothing is sent before the loop runs.
SendTo(what) == calls' = IF LoopRuns THEN Append(calls, what) ELSE calls

Click == window = "open" /\ ~closing /\ clicks < MaxClicks /\ clicks' = clicks + 1

\* _cleanup_session
CleanUp ==
  /\ session' = FALSE /\ label' = FALSE /\ closing' = FALSE
  /\ buttons' = {"run"}

-----------------------------------------------------------------------------
(* The user                                                                  *)

\* Mutant: the buttons are not switched.
MutRunCrawler ==
  /\ window = "open" /\ ~closing /\ "run" \in buttons /\ crawls < MaxCrawls
  /\ crawls' = crawls + 1
  /\ thread' = "starting" /\ signals' = <<>>
  /\ session' = TRUE /\ buttons' = buttons \cup {"pause", "stop"} /\ label' = FALSE
  /\ calls' = <<>> /\ stopAsked' = FALSE /\ onHold' = FALSE /\ lost' = FALSE
  /\ UNCHANGED <<closing, window, clicks, forced>>

\* _run_crawler, with the old session disposed
RunCrawler ==
  /\ window = "open" /\ ~closing /\ "run" \in buttons /\ crawls < MaxCrawls
  /\ crawls' = crawls + 1
  /\ thread' = "starting" /\ signals' = <<>>
  /\ session' = TRUE /\ buttons' = {"pause", "stop"} /\ label' = FALSE
  /\ calls' = <<>> /\ stopAsked' = FALSE /\ onHold' = FALSE /\ lost' = FALSE
  /\ UNCHANGED <<closing, window, clicks, forced>>

\* _toggle_pause goes by the label, which follows the engine's signals.
TogglePause ==
  /\ Click /\ "pause" \in buttons /\ session /\ ThreadRuns
  /\ SendTo(IF label THEN "resume" ELSE "pause")
  /\ UNCHANGED <<thread, stopAsked, onHold, signals, session, buttons, label, closing, window, crawls, lost, forced>>

\* The button is disabled whether or not the request was sent.
StopCrawler ==
  /\ window = "open" /\ ~closing /\ "stop" \in buttons /\ session /\ ThreadRuns
  /\ SendTo("stop")
  /\ lost' = (lost \/ ~LoopRuns)
  /\ buttons' = buttons \ {"stop"}
  /\ UNCHANGED <<thread, stopAsked, onHold, signals, session, label, closing, window, crawls, clicks, forced>>

CloseWindow ==
  /\ Click
  /\ IF session /\ ThreadRuns
     THEN /\ closing' = TRUE /\ SendTo("stop") /\ lost' = (lost \/ ~LoopRuns)
          /\ UNCHANGED <<session, buttons, label, window>>
     ELSE /\ CleanUp /\ window' = "closed" /\ UNCHANGED <<calls, lost>>
  /\ UNCHANGED <<thread, stopAsked, onHold, signals, crawls, forced>>

\* A second close event, or the watchdog after 10 s
CloseAtOnce ==
  /\ window = "open" /\ closing
  /\ forced' = (forced \/ ThreadRuns)
  /\ CleanUp /\ window' = "closed"
  /\ UNCHANGED <<thread, inThread, signals, crawls, clicks, lost>>

-----------------------------------------------------------------------------
(* The thread                                                                *)

LoopStarts ==
  /\ thread = "starting" /\ thread' = "loop"
  /\ UNCHANGED <<inThread, signals, inWindow, crawls, clicks, lost>>

\* request_stop also ends a pause, without a signal.  What the loop has not run when
\* the crawl returns it may still run while the thread cleans up.
Called ==
  /\ thread \in {"loop", "ending"} /\ calls # <<>> /\ calls' = Tail(calls)
  /\ LET what == Head(calls) IN
     /\ stopAsked' = (stopAsked \/ what = "stop")
     /\ onHold' = (what = "pause")
     /\ signals' = IF what = "stop" THEN signals
                   ELSE Append(signals, IF what = "pause" THEN "paused" ELSE "resumed")
  /\ UNCHANGED <<thread, inWindow, crawls, clicks, lost>>

\* run() returns and has told what it has to tell, raises, or is cancelled.
CrawlReturns ==
  /\ thread = "loop" /\ thread' = "ending"
  /\ \E last \in {<<>>, <<"finished">>, <<"error">>, <<"error", "finished">>} : signals' = signals \o last
  /\ UNCHANGED <<inThread, inWindow, crawls, clicks, lost>>

\* The tasks that are left, the executor and the generators end in their time.
ThreadEnds ==
  /\ thread = "ending" /\ thread' = "over"
  /\ signals' = Append(signals, "done") /\ calls' = <<>>
  /\ UNCHANGED <<stopAsked, onHold, inWindow, crawls, clicks, lost>>

-----------------------------------------------------------------------------
(* The slots of the window                                                   *)

Heard(what) == window = "open" /\ signals # <<>> /\ Head(signals) = what /\ signals' = Tail(signals)

PauseState ==
  /\ \/ Heard("paused") /\ label' = TRUE
     \/ Heard("resumed") /\ label' = FALSE
  /\ UNCHANGED <<thread, inThread, session, buttons, closing, window, crawls, clicks, lost, forced>>

\* _on_finished and _on_error show a dialog and change nothing.
Shown ==
  /\ Heard("finished") \/ Heard("error")
  /\ UNCHANGED <<thread, inThread, inWindow, crawls, clicks, lost>>

\* session_done: _on_thread_finished, then close() if closeEvent connected it
SessionDone ==
  /\ Heard("done")
  /\ CleanUp /\ window' = IF closing THEN "closed" ELSE "open"
  /\ UNCHANGED <<thread, inThread, crawls, clicks, lost, forced>>

GuiInit ==
  /\ thread = "none" /\ calls = <<>> /\ stopAsked = FALSE /\ onHold = FALSE /\ signals = <<>>
  /\ session = FALSE /\ buttons = {"run"} /\ label = FALSE /\ closing = FALSE /\ window = "open"
  /\ crawls = 0 /\ clicks = 0 /\ lost = FALSE /\ forced = FALSE

ThreadStep == LoopStarts \/ Called \/ ThreadEnds
Slot == PauseState \/ Shown \/ SessionDone

GuiNext ==
  \/ RunCrawler \/ TogglePause \/ StopCrawler \/ CloseWindow \/ CloseAtOnce
  \/ ThreadStep \/ CrawlReturns \/ Slot

GuiSpec == GuiInit /\ [][GuiNext]_gui

\* The loop runs its callbacks, the window its slots, and a crawl that was stopped
\* returns (StopEnds of CrawlEngine).
FairGuiSpec ==
  GuiSpec /\ WF_gui(ThreadStep) /\ WF_gui(Slot) /\ WF_gui(stopAsked /\ CrawlReturns)

-----------------------------------------------------------------------------
\* A crawl can be started only when none runs; while one runs the window knows its
\* session, so the buttons, the close event and the watchdog reach it; and the window
\* closes over a running crawl only by force.
WindowKnows ==
  /\ window = "open" /\ "run" \in buttons => ~ThreadRuns /\ ~session
  /\ window = "open" /\ ThreadRuns => session
  /\ window = "closed" /\ ThreadRuns => forced

\* Once everything sent has arrived the label tells whether the crawl is paused, until
\* a stop, which ends a pause without telling.
LabelTells == window = "open" /\ thread = "loop" /\ signals = <<>> /\ ~stopAsked => label = onHold

\* What the window shows - its state and its label - is what its crawl does, once the
\* signals under way have arrived.
GuiKnows == WindowKnows /\ LabelTells

StopAwaited == ((session /\ "stop" \notin buttons) \/ closing) /\ ~lost

\* A stop or a close brings the window back, or down, unless it came before the loop
\* of the thread.
StopIsAnswered == StopAwaited ~> ~StopAwaited
=============================================================================
