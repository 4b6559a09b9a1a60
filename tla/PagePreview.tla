----------------------------- MODULE PagePreview -----------------------------
(***************************************************************************)
(* The preview of a rule in a browser of its own: gui/_preview_panel.py,   *)
(* gui/_preview_session.py and browser/_preview.py.  The panel lists the   *)
(* pages; its session runs a thread with an event loop, where the browser  *)
(* lives.  What the panel asks for it waits for, its own thread blocked,   *)
(* up to a time limit after which the call goes on with nobody to take its *)
(* answer; what happens in the browser reaches it as queued signals.       *)
(***************************************************************************)
EXTENDS Naturals, Sequences, FiniteSets, SequencesExt

CONSTANTS
  MaxPages,    \* bound: pages opened in one browser
  MaxPanels,   \* bound: panels opened
  MaxCalls     \* bound: calls the loop works on at a time

ASSUME PreviewAssumption == MaxPages \in Nat /\ MaxPanels \in Nat /\ MaxCalls \in Nat

PageId == 0 .. MaxPages - 1

VARIABLES
  panel,     \* the panel is on the screen
  loading,   \* _loading: Go is out of use
  rows,      \* _page_rows
  session,   \* none, live or disposed
  thread,    \* none, starting, launching, ready, cleaning or ended
  stopSet,   \* _stop_event
  openPages,     \* _pages
  nextPage,    \* _next_id
  onLoop,    \* calls the loop works on: [kind, page, step], a page of MaxPages for none yet
  ask,      \* what the panel waits for: none, or [kind, page, answer]
  notices,   \* signals on their way: the page closed, or MaxPages for the thread's end
  unstopped, \* threads left to themselves
  panels

preview == <<panel, loading, rows, session, thread, stopSet, openPages, nextPage, onLoop, ask, notices, unstopped, panels>>

NoPage == MaxPages
LoopRuns == thread \in {"launching", "ready", "cleaning"}

PreviewInit ==
  /\ panel = FALSE /\ loading = FALSE /\ rows = {} /\ session = "none" /\ thread = "none"
  /\ stopSet = FALSE /\ openPages = {} /\ nextPage = 0 /\ onLoop = {} /\ ask = {} /\ notices = <<>>
  /\ unstopped = 0 /\ panels = 0

-----------------------------------------------------------------------------
(* The panel, which does nothing while it waits                              *)

PanelFree == panel /\ ask = {}

\* PreviewPanel.open, and start of its session
OpenPanel ==
  /\ ~panel /\ panels < MaxPanels /\ panels' = panels + 1
  /\ panel' = TRUE /\ loading' = FALSE /\ rows' = {} /\ session' = "live" /\ thread' = "starting"
  /\ stopSet' = FALSE /\ openPages' = {} /\ nextPage' = 0 /\ onLoop' = {} /\ notices' = <<>>
  /\ UNCHANGED <<ask, unstopped>>

\* _on_go: with no loop the error is shown at once.  A session that was disposed of
\* has nobody connected to its signals any more.
Go ==
  /\ PanelFree /\ ~loading
  /\ IF session = "live" /\ LoopRuns /\ Cardinality(onLoop) < MaxCalls
     THEN /\ loading' = TRUE /\ ask' = {[kind |-> "open", page |-> NoPage, answer |-> "none"]}
          /\ onLoop' = onLoop \cup {[kind |-> "open", page |-> NoPage, waited |-> TRUE]}
     ELSE loading' = (session = "disposed") /\ UNCHANGED <<ask, onLoop>>
  /\ UNCHANGED <<panel, rows, session, thread, stopSet, openPages, nextPage, notices, unstopped, panels>>

\* _on_close_page_row
CloseRow(id) ==
  /\ PanelFree /\ id \in rows /\ session = "live"
  /\ IF LoopRuns
     THEN /\ ask' = {[kind |-> "close", page |-> id, answer |-> "none"]}
          /\ onLoop' = onLoop \cup {[kind |-> "close", page |-> id, waited |-> TRUE]} /\ UNCHANGED rows
     ELSE rows' = rows \ {id} /\ UNCHANGED <<ask, onLoop>>
  /\ UNCHANGED <<panel, loading, session, thread, stopSet, openPages, nextPage, notices, unstopped, panels>>

\* future.result: the answer, or the time is up and the call is left to itself.  A row
\* goes from the list in either case.
Answered ==
  \E c \in ask :
    /\ ask' = {} /\ loading' = FALSE
    /\ \/ c.answer # "none" /\ UNCHANGED onLoop
       \/ c.answer = "none" /\ onLoop' = {[t EXCEPT !.waited = FALSE] : t \in onLoop}
    /\ rows' = IF c.kind = "close" THEN rows \ {c.page} ELSE IF c.answer = "page" THEN rows \cup {c.page} ELSE rows
    /\ UNCHANGED <<panel, session, thread, stopSet, openPages, nextPage, notices, unstopped, panels>>

\* _on_page_closed; _on_thread_finished, which disposes of the session, not of the panel
Notice ==
  /\ PanelFree /\ notices # <<>>
  /\ notices' = Tail(notices)
  /\ IF Head(notices) = NoPage THEN rows' = {} /\ session' = "disposed" /\ thread' = "none"
     ELSE rows' = rows \ {Head(notices)} /\ UNCHANGED <<session, thread>>
  /\ UNCHANGED <<panel, loading, stopSet, openPages, nextPage, onLoop, ask, unstopped, panels>>

\* reject, with dispose: the signals are cut off, the browser is asked to stop, if the
\* loop runs already, and the thread is given five seconds.
ClosePanel ==
  /\ PanelFree /\ panel' = FALSE /\ loading' = FALSE /\ rows' = {} /\ session' = "none" /\ notices' = <<>>
  /\ thread' = "none" /\ stopSet' = FALSE /\ openPages' = {} /\ nextPage' = 0 /\ onLoop' = {}
  /\ unstopped' \in {unstopped} \cup (IF thread \in {"none", "ended"} THEN {} ELSE {unstopped + 1})
  /\ thread = "starting" => unstopped' = unstopped + 1
  /\ UNCHANGED <<ask, panels>>

-----------------------------------------------------------------------------
(* The thread                                                                *)

OfPanel == UNCHANGED <<panel, rows, session, unstopped, panels>>
Replies(t, answer, id) == ask' = IF t.waited THEN {[c EXCEPT !.answer = answer, !.page = id] : c \in ask} ELSE ask

LoopStarts ==
  /\ thread = "starting" /\ thread' = "launching"
  /\ OfPanel /\ UNCHANGED <<loading, stopSet, openPages, nextPage, onLoop, ask, notices>>

\* PreviewBrowser.run up to its wait, which may fail on the way
Launch ==
  /\ thread = "launching" /\ thread' \in {"ready", "cleaning"}
  /\ OfPanel /\ UNCHANGED <<loading, stopSet, openPages, nextPage, onLoop, ask, notices>>

\* The user closes the browser: "disconnected".
Disconnect ==
  /\ thread = "ready" /\ ~stopSet /\ stopSet' = TRUE
  /\ OfPanel /\ UNCHANGED <<loading, thread, openPages, nextPage, onLoop, ask, notices>>
StopSeen ==
  /\ thread = "ready" /\ stopSet /\ thread' = "cleaning"
  /\ OfPanel /\ UNCHANGED <<loading, stopSet, openPages, nextPage, onLoop, ask, notices>>

\* open_page: refused before the browser is ready; the page is registered before it is
\* loaded.
OpenBegins(t) ==
  /\ t.kind = "open" /\ t.page = NoPage
  /\ IF thread = "ready" /\ nextPage < MaxPages
     THEN /\ openPages' = openPages \cup {nextPage} /\ nextPage' = nextPage + 1
          /\ onLoop' = (onLoop \ {t}) \cup {[t EXCEPT !.page = nextPage]} /\ UNCHANGED ask
     ELSE onLoop' = onLoop \ {t} /\ Replies(t, "error", NoPage) /\ UNCHANGED <<openPages, nextPage>>
  /\ OfPanel /\ UNCHANGED <<loading, thread, stopSet, notices>>

\* goto and the overlay; where they fail the page is closed again.
OpenEnds(t) ==
  /\ t.kind = "open" /\ t.page # NoPage /\ onLoop' = onLoop \ {t}
  /\ \/ t.page \in openPages /\ thread = "ready" /\ Replies(t, "page", t.page) /\ UNCHANGED openPages
     \/ Replies(t, "error", NoPage) /\ openPages' = openPages \ {t.page}
  /\ OfPanel /\ UNCHANGED <<loading, thread, stopSet, nextPage, notices>>

\* close_page_by_id takes the page out first: its own event finds nothing to tell.
CloseBegins(t) ==
  /\ t.kind = "close" /\ onLoop' = onLoop \ {t} /\ openPages' = openPages \ {t.page}
  /\ Replies(t, "closed", t.page)
  /\ OfPanel /\ UNCHANGED <<loading, thread, stopSet, nextPage, notices>>

\* The user closes a page in the browser, or _cleanup does: _on_browser_close.
TabClosed(id) ==
  /\ id \in openPages /\ openPages' = openPages \ {id} /\ notices' = Append(notices, id)
  /\ OfPanel /\ UNCHANGED <<loading, thread, stopSet, nextPage, onLoop, ask>>

\* The end of _cleanup and of run: what the loop still works on is cancelled, pages that
\* would not close are forgotten, and the end is told last.
ThreadEnds ==
  /\ thread = "cleaning" /\ thread' = "ended" /\ openPages' = {} /\ onLoop' = {}
  /\ ask' = {IF c.answer = "none" /\ \E t \in onLoop : t.waited THEN [c EXCEPT !.answer = "error"] ELSE c : c \in ask}
  /\ notices' = Append(notices, NoPage)
  /\ OfPanel /\ UNCHANGED <<loading, stopSet, nextPage>>

PreviewNext ==
  \/ OpenPanel \/ Go \/ Answered \/ Notice \/ ClosePanel
  \/ LoopStarts \/ Launch \/ Disconnect \/ StopSeen \/ ThreadEnds
  \/ \E t \in onLoop : OpenBegins(t) \/ OpenEnds(t) \/ CloseBegins(t)
  \/ \E id \in PageId : CloseRow(id) \/ TabClosed(id)

PreviewSpec == PreviewInit /\ [][PreviewNext]_preview

PreviewTypeOK ==
  /\ {panel, loading, stopSet} \subseteq BOOLEAN /\ rows \subseteq PageId /\ openPages \subseteq PageId
  /\ session \in {"none", "live", "disposed"}
  /\ thread \in {"none", "starting", "launching", "ready", "cleaning", "ended"}
  /\ Cardinality(ask) <= 1 /\ \A i \in DOMAIN notices : notices[i] \in PageId \cup {NoPage}

-----------------------------------------------------------------------------
\* What the list shows can be clicked: it is open, or word of its end is on the way,
\* whichever of the panel and the user closed it and whatever ran out of time.
RowsAreOpen ==
  \A id \in rows : \/ id \in openPages \/ Contains(notices, id) \/ Contains(notices, NoPage)
                   \/ thread = "cleaning" \/ \E c \in ask : c.page = id

\* What the panel is told was opened is open, or word of its end is on the way, before
\* the row for it is there.
ToldIsOpen ==
  \A c \in ask : c.answer = "page" => c.page \in openPages \/ Contains(notices, c.page) \/ thread # "ready"

\* Go is out of use only as long as a page is being opened, unless the session ended
\* under the panel.
GoComesBack == loading => session = "disposed" \/ \E c \in ask : c.kind = "open"

\* The panel lists and highlights pages that are open, or word of their closing is on its
\* way, and its button comes back when the loading is over.
PreviewSound == RowsAreOpen /\ ToldIsOpen /\ GoComesBack
=============================================================================
