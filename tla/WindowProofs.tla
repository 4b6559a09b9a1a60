----------------------------- MODULE WindowProofs -----------------------------
(*****************************************************************************)
(* The windows, for any number of crawls, pages, workers, managers and       *)
(* sources: what the main window knows of its crawl, what a dialog leaves    *)
(* behind when it closes, and that a change to the list of rule sources is   *)
(* not lost to another.                                                      *)
(*****************************************************************************)
EXTENDS GuiCrawl, DialogWorkers, RuleSources, CrawlSettings, FiniteSetTheorems, SequenceTheorems, TLAPS

-----------------------------------------------------------------------------
(* The main window and its crawl                                             *)

Word == {"paused", "resumed", "finished", "error", "done"}

\* The last word of a crawl comes when its thread is over, and before its crawl returns
\* a thread speaks of pauses only.
SignalsTrue ==
  /\ \A i \in DOMAIN signals : signals[i] = "done" => thread = "over"
  /\ thread = "starting" => signals = <<>> /\ calls = <<>>
  /\ thread = "loop" => \A i \in DOMAIN signals : signals[i] \in {"paused", "resumed"}

\* The last signal on its way tells whether the crawl is held, and where none is on its
\* way the label does.
LastTells ==
  thread \in {"starting", "loop"} /\ ~stopAsked =>
    IF signals = <<>> THEN window = "open" => label = onHold
    ELSE signals[Len(signals)] = IF onHold THEN "paused" ELSE "resumed"

\* Only a window that has no session lets the user start a crawl.
RunOffers == "run" \in buttons => ~session

GuiInv == GuiTypeOK /\ SignalsTrue /\ LastTells /\ RunOffers /\ WindowKnows

-----------------------------------------------------------------------------
\* Whatever a crawl says last, it is no word of its thread.
LEMMA LastWords ==
  ASSUME NEW last \in {<<>>, <<"finished">>, <<"error">>, <<"error", "finished">>}
  PROVE  last \in Seq(Word) /\ \A i \in DOMAIN last : last[i] # "done"
<1>1. \A x, y \in Word : <<x>> \in Seq(Word) /\ <<x, y>> \in Seq(Word)
  OBVIOUS
<1>2. <<>> \in Seq(Word)
  OBVIOUS
<1>3. "finished" \in Word /\ "error" \in Word
  BY DEF Word
<1>4. last \in Seq(Word)
  BY <1>1, <1>2, <1>3
<1>5. \A i \in DOMAIN last : last[i] # "done"
  <2>1. CASE last = <<>>
    BY <2>1
  <2>2. CASE last = <<"finished">>
    BY <2>2
  <2>3. CASE last = <<"error">>
    BY <2>3
  <2>4. CASE last = <<"error", "finished">>
    BY <2>4
  <2> QED BY <2>1, <2>2, <2>3, <2>4
<1> QED BY <1>4, <1>5

\* The window starts without a session.
LEMMA GuiStarts == GuiInit => GuiInv
<1> SUFFICES ASSUME GuiInit PROVE GuiInv
  OBVIOUS
<1>e. <<>> \in Seq({"stop", "pause", "resume"}) /\ <<>> \in Seq({"paused", "resumed", "finished", "error", "done"})
  OBVIOUS
<1>1. GuiTypeOK
  BY <1>e DEF GuiInit, GuiTypeOK
<1>2. SignalsTrue /\ LastTells
  BY DEF GuiInit, SignalsTrue, LastTells
<1>3. RunOffers /\ WindowKnows
  BY DEF GuiInit, RunOffers, WindowKnows, ThreadRuns
<1> QED BY <1>1, <1>2, <1>3 DEF GuiInv

\* Every step of the user, the window and the thread keeps the types.
LEMMA GuiTypes == GuiInv /\ [GuiNext]_gui => GuiTypeOK'
<1> SUFFICES ASSUME GuiInv, [GuiNext]_gui PROVE GuiTypeOK'
  OBVIOUS
<1> USE DEF GuiInv, GuiTypeOK
<1>e. <<>> \in Seq({"stop", "pause", "resume"}) /\ <<>> \in Seq({"paused", "resumed", "finished", "error", "done"})
  OBVIOUS
<1>1. CASE RunCrawler
  BY <1>1, <1>e DEF RunCrawler
<1>2. CASE TogglePause
  BY <1>2 DEF TogglePause, SendTo, Click
<1>3. CASE StopCrawler
  BY <1>3 DEF StopCrawler, SendTo
<1>4. CASE CloseWindow
  <2>1. calls' \in Seq({"stop", "pause", "resume"})
    BY <1>4 DEF CloseWindow, SendTo
  <2> QED BY <1>4, <2>1 DEF CloseWindow, CleanUp
<1>5. CASE CloseAtOnce
  BY <1>5 DEF CloseAtOnce, CleanUp, inThread
<1>6. CASE LoopStarts
  BY <1>6 DEF LoopStarts, inThread, inWindow
<1>7. CASE Called
  <2>1. calls' \in Seq({"stop", "pause", "resume"})
    BY <1>7 DEF Called
  <2>2. signals' \in Seq(Word)
    BY <1>7 DEF Called, Word
  <2> QED BY <1>7, <2>1, <2>2 DEF Called, inWindow, Word
<1>8. CASE ThreadEnds
  BY <1>8 DEF ThreadEnds, inWindow
<1>9. CASE CrawlReturns
  <2>1. PICK last \in {<<>>, <<"finished">>, <<"error">>, <<"error", "finished">>} : signals' = signals \o last
    BY <1>9 DEF CrawlReturns
  <2>t. signals \in Seq(Word)
    BY DEF Word
  <2>2. last \in Seq(Word)
    BY <2>1, LastWords
  <2>3. signals' \in Seq(Word)
    BY <2>t, <2>1, <2>2
  <2> QED BY <1>9, <2>3 DEF CrawlReturns, inThread, inWindow, Word
<1>10. CASE Slot
  <2>1. signals' = Tail(signals) /\ signals # <<>>
    BY <1>10 DEF Slot, PauseState, Shown, SessionDone, Heard
  <2>2. signals' \in Seq({"paused", "resumed", "finished", "error", "done"})
    BY <2>1
  <2>3. calls' = calls /\ thread' = thread /\ UNCHANGED <<stopAsked, onHold>>
    BY <1>10 DEF Slot, PauseState, Shown, SessionDone, inThread
  <2>4. session' \in BOOLEAN /\ buttons' \subseteq {"run", "pause", "stop"} /\ label' \in BOOLEAN
    BY <1>10 DEF Slot, PauseState, Shown, SessionDone, CleanUp, inWindow
  <2>5. closing' \in BOOLEAN /\ window' \in {"open", "closed"}
    BY <1>10 DEF Slot, PauseState, Shown, SessionDone, CleanUp, inWindow, Heard
  <2> QED BY <2>2, <2>3, <2>4, <2>5
<1>11. CASE UNCHANGED gui
  BY <1>11 DEF gui
<1> QED
  BY <1>1, <1>2, <1>3, <1>4, <1>5, <1>6, <1>7, <1>8, <1>9, <1>10, <1>11 DEF GuiNext, ThreadStep

\* Signals come in the order in which the thread is through with its crawl.
LEMMA GuiSignals == GuiInv /\ [GuiNext]_gui => SignalsTrue'
<1> SUFFICES ASSUME GuiInv, [GuiNext]_gui PROVE SignalsTrue'
  OBVIOUS
<1> USE DEF GuiInv, SignalsTrue
<1>t. signals \in Seq(Word) /\ calls \in Seq({"stop", "pause", "resume"})
  BY DEF GuiTypeOK, Word
<1>1. CASE RunCrawler
  BY <1>1 DEF RunCrawler
<1>2. CASE TogglePause
  BY <1>2 DEF TogglePause, SendTo, LoopRuns
<1>3. CASE StopCrawler
  BY <1>3 DEF StopCrawler, SendTo, LoopRuns
<1>4. CASE CloseWindow
  BY <1>4 DEF CloseWindow, SendTo, LoopRuns
<1>5. CASE CloseAtOnce
  BY <1>5 DEF CloseAtOnce, inThread
<1>6. CASE LoopStarts
  BY <1>6 DEF LoopStarts, inThread
<1>7. CASE Called
  <2>1. signals' = signals \/ \E e \in {"paused", "resumed"} : signals' = Append(signals, e)
    BY <1>7 DEF Called
  <2>2. thread' = thread /\ thread # "starting"
    BY <1>7 DEF Called
  <2>3. CASE signals' = signals
    BY <2>2, <2>3
  <2>4. ASSUME NEW e \in {"paused", "resumed"}, signals' = Append(signals, e) PROVE SignalsTrue'
    <3>1. \A i \in DOMAIN signals' : signals'[i] = e \/ (i \in DOMAIN signals /\ signals'[i] = signals[i])
      BY <1>t, <2>4
    <3> QED BY <2>2, <2>4, <3>1
  <2> QED BY <2>1, <2>3, <2>4
<1>8. CASE ThreadEnds
  BY <1>8 DEF ThreadEnds
<1>9. CASE CrawlReturns
  <2>1. PICK last \in {<<>>, <<"finished">>, <<"error">>, <<"error", "finished">>} : signals' = signals \o last
    BY <1>9 DEF CrawlReturns
  <2>2. last \in Seq(Word) /\ \A i \in DOMAIN last : last[i] # "done"
    BY <2>1, LastWords
  <2>3. \A i \in DOMAIN signals' : signals'[i] # "done"
    BY <1>9, <1>t, <2>1, <2>2 DEF CrawlReturns
  <2> QED BY <1>9, <2>3 DEF CrawlReturns
<1>10. CASE Slot
  <2>1. signals # <<>> /\ signals' = Tail(signals) /\ thread' = thread /\ calls' = calls
    BY <1>10 DEF Slot, PauseState, Shown, SessionDone, Heard, inThread
  <2>2. \A i \in DOMAIN Tail(signals) : i + 1 \in DOMAIN signals /\ Tail(signals)[i] = signals[i + 1]
    BY <1>t, <2>1
  <2> QED BY <2>1, <2>2
<1>11. CASE UNCHANGED gui
  BY <1>11 DEF gui
<1> QED
  BY <1>1, <1>2, <1>3, <1>4, <1>5, <1>6, <1>7, <1>8, <1>9, <1>10, <1>11 DEF GuiNext, ThreadStep

\* The last word on pauses is what the label is going to say.
LEMMA GuiLabel == GuiInv /\ [GuiNext]_gui => LastTells'
<1> SUFFICES ASSUME GuiInv, [GuiNext]_gui PROVE LastTells'
  OBVIOUS
<1> USE DEF GuiInv, LastTells
<1>t. signals \in Seq(Word) /\ onHold \in BOOLEAN /\ label \in BOOLEAN
  BY DEF GuiTypeOK, Word
<1>1. CASE RunCrawler
  BY <1>1 DEF RunCrawler
<1>2. CASE TogglePause \/ StopCrawler
  BY <1>2 DEF TogglePause, StopCrawler
<1>3. CASE CloseWindow
  BY <1>3 DEF CloseWindow
<1>4. CASE CloseAtOnce
  BY <1>4 DEF CloseAtOnce, inThread
<1>5. CASE LoopStarts
  BY <1>5 DEF LoopStarts, inThread, inWindow
<1>6. CASE Called
  <2>1. CASE Head(calls) = "stop"
    BY <1>6, <2>1 DEF Called
  <2>2. CASE Head(calls) # "stop"
    <3>1. /\ onHold' = (Head(calls) = "pause")
          /\ signals' = Append(signals, IF Head(calls) = "pause" THEN "paused" ELSE "resumed")
      BY <1>6, <2>2 DEF Called
    <3>2. signals' # <<>> /\ signals'[Len(signals')] = IF Head(calls) = "pause" THEN "paused" ELSE "resumed"
      BY <1>t, <3>1
    <3> QED BY <3>1, <3>2
  <2> QED BY <2>1, <2>2
<1>7. CASE ThreadEnds \/ CrawlReturns
  BY <1>7 DEF ThreadEnds, CrawlReturns
<1>8. CASE PauseState
  <2>1. /\ signals # <<>> /\ signals' = Tail(signals) /\ window' = window /\ thread' = thread
        /\ stopAsked' = stopAsked /\ onHold' = onHold
    BY <1>8 DEF PauseState, Heard, inThread
  <2>2. CASE Len(signals) = 1
    <3>1. signals' = <<>> /\ signals[Len(signals)] = Head(signals)
      BY <1>t, <2>1, <2>2
    <3>2. label' = (Head(signals) = "paused")
      BY <1>8 DEF PauseState, Heard
    <3> QED BY <1>t, <2>1, <3>1, <3>2
  <2>3. CASE Len(signals) # 1
    <3>n. Len(signals) \in Nat /\ Len(signals) # 0
      BY <1>t, <2>1, EmptySeq
    <3>m. \A k \in Nat : k # 0 /\ k # 1 => k > 1
      OBVIOUS
    <3>l. Len(signals) \in Nat /\ Len(signals) > 1
      BY <2>3, <3>n, <3>m
    <3>1. Len(Tail(signals)) = Len(signals) - 1 /\ Tail(signals)[Len(signals) - 1] = signals[Len(signals)]
      BY <1>t, <3>l
    <3>2. signals' # <<>> /\ signals'[Len(signals')] = signals[Len(signals)]
      <4>1. Len(signals') # 0 /\ signals'[Len(signals')] = signals[Len(signals)]
        BY <2>1, <3>l, <3>1
      <4>2. signals' # <<>>
        BY <4>1
      <4> QED BY <4>1, <4>2
    <3> QED BY <2>1, <3>2
  <2> QED BY <2>2, <2>3
<1>9. CASE Shown \/ SessionDone
  <2>1. thread' = thread /\ signals # <<>> /\ Head(signals) \in {"finished", "error", "done"}
    BY <1>9 DEF Shown, SessionDone, Heard
  <2>2. signals[1] \in {"finished", "error", "done"} /\ 1 \in DOMAIN signals
    BY <1>t, <2>1
  <2>3. thread \notin {"starting", "loop"}
    BY <2>1, <2>2 DEF SignalsTrue
  <2> QED BY <2>1, <2>3
<1>10. CASE UNCHANGED gui
  BY <1>10 DEF gui
<1> QED
  BY <1>1, <1>2, <1>3, <1>4, <1>5, <1>6, <1>7, <1>8, <1>9, <1>10 DEF GuiNext, ThreadStep, Slot

\* The buttons follow the session the window knows of.
LEMMA GuiWindow == GuiInv /\ [GuiNext]_gui => RunOffers' /\ WindowKnows'
<1> SUFFICES ASSUME GuiInv, [GuiNext]_gui PROVE RunOffers' /\ WindowKnows'
  OBVIOUS
<1> USE DEF GuiInv, RunOffers, WindowKnows, ThreadRuns
<1>t. window \in {"open", "closed"} /\ signals \in Seq(Word)
  BY DEF GuiTypeOK, Word
<1>1. CASE RunCrawler
  BY <1>1 DEF RunCrawler
<1>2. CASE TogglePause
  BY <1>2 DEF TogglePause
<1>3. CASE StopCrawler
  BY <1>3 DEF StopCrawler
<1>4. CASE CloseWindow
  BY <1>4 DEF CloseWindow, CleanUp, Click
<1>5. CASE CloseAtOnce
  BY <1>5 DEF CloseAtOnce, CleanUp
<1>6. CASE LoopStarts
  BY <1>6 DEF LoopStarts, inWindow
<1>7. CASE Called
  BY <1>7 DEF Called, inWindow
<1>8. CASE ThreadEnds
  BY <1>8 DEF ThreadEnds, inWindow
<1>9. CASE CrawlReturns
  BY <1>9 DEF CrawlReturns, inWindow
<1>10. CASE PauseState \/ Shown
  BY <1>10 DEF PauseState, Shown, inWindow, Heard
<1>11. CASE SessionDone
  <2>1. signals[1] = "done" /\ 1 \in DOMAIN signals
    BY <1>11, <1>t DEF SessionDone, Heard
  <2>2. thread = "over"
    BY <2>1 DEF SignalsTrue
  <2> QED BY <1>11, <2>2 DEF SessionDone, CleanUp
<1>12. CASE UNCHANGED gui
  BY <1>12 DEF gui
<1> QED
  BY <1>1, <1>2, <1>3, <1>4, <1>5, <1>6, <1>7, <1>8, <1>9, <1>10, <1>11, <1>12 DEF GuiNext, ThreadStep, Slot

\* Every step keeps what the window and its thread know of each other.
LEMMA GuiStep == GuiInv /\ [GuiNext]_gui => GuiInv'
  BY GuiTypes, GuiSignals, GuiLabel, GuiWindow DEF GuiInv

\* What the window shows - its state and its label - is what its crawl does, once the
\* signals under way have arrived, however many crawls, pauses and closes there were.
THEOREM WindowFollowsCrawl == GuiSpec => []GuiKnows
<1>1. GuiInv => GuiKnows
  BY DEF GuiInv, GuiKnows, LabelTells, LastTells
<1> QED BY <1>1, GuiStarts, GuiStep, PTL DEF GuiSpec

-----------------------------------------------------------------------------
(* A dialog and its workers                                                  *)

Place == {"none", "waits", "runs", "answered", "ended", "killed"}
AtWork(w) == job[w] \in {"waits", "runs"}
Launches == {w \in DialogWorker : job[w] # "none"}

WorkersTyped ==
  /\ dialog \in {"open", "closing", "closed"} /\ worker \in [PageSet -> 0 .. MaxWorkers]
  /\ job \in [DialogWorker -> Place] /\ permit \in DialogWorker \cup {NoOne}
  /\ told \subseteq Launches /\ past \subseteq Launches
  /\ posted \in Seq(DialogWorker)

\* The workers of a page are numbered as they start.
Numbered == \A p \in PageSet : \E k \in 0 .. MaxWorkers : Started(p) = 1 .. k

\* What is posted is posted once, by a worker of this dialog that has answered, or, where
\* its page waits for that, has ended.
PostedOnce ==
  /\ \A i, j \in DOMAIN posted : posted[i] = posted[j] => i = j
  /\ \A i \in DOMAIN posted :
       /\ posted[i] \notin past
       /\ job[posted[i]] \in (IF Kind[posted[i][1]].ends THEN {"ended", "killed"} ELSE {"answered", "ended", "killed"})

PermitUse ==
  /\ \A w \in DialogWorker : job[w] = "waits" => Kind[w[1]].permit
  /\ OneGeneration

\* Only a dialog that closes cuts workers off.
ToldWhenClosing == dialog = "open" => told \subseteq past

\* A worker that is at work is known to its page, or was forgotten for another.
KnownAtWork ==
  /\ \A w \in DialogWorker : AtWork(w) => w \in loose \/ worker[w[1]] = w[2]
  /\ dialog = "closed" => \A p \in PageSet : worker[p] = 0

\* What the bar stands for
Unheard ==
  {w \in DialogWorker \ (told \cup past) :
    job[w] \in {"waits", "runs"} \/ (Kind[w[1]].ends /\ job[w] = "answered")
      \/ \E i \in DOMAIN posted : posted[i] = w}

PulseBound == pulse \in 0 .. Cardinality(DialogWorker) /\ (dialog = "open" => pulse = Cardinality(Unheard))

DialogInv ==
  /\ WorkersTyped /\ Numbered /\ PostedOnce /\ PermitUse /\ ToldWhenClosing /\ KnownAtWork
  /\ PulseBound

-----------------------------------------------------------------------------
\* Pages start a bounded number of workers, so that they can be counted.
LEMMA DialogWorkersFinite ==
  /\ IsFiniteSet(DialogWorker) /\ Cardinality(DialogWorker) \in Nat
  /\ \A T : T \subseteq DialogWorker => IsFiniteSet(T) /\ Cardinality(T) \in 0 .. Cardinality(DialogWorker)
<1>1. Pages \in Seq(PageSet) /\ MaxWorkers \in Nat
  BY WorkersAssumption
<1>2. IsFiniteSet(1 .. Len(Pages)) /\ IsFiniteSet(1 .. MaxWorkers)
  BY <1>1, FS_Interval
<1>3. Pages \in Surjection(1 .. Len(Pages), PageSet)
  BY <1>1 DEF Surjection, PageSet, Range
<1>4. IsFiniteSet(PageSet)
  BY <1>2, <1>3, FS_Surjection
<1>5. IsFiniteSet(DialogWorker)
  BY <1>2, <1>4, FS_Product DEF DialogWorker
<1>6. Cardinality(DialogWorker) \in Nat
  BY <1>5, FS_CardinalityType
<1>7. ASSUME NEW T, T \subseteq DialogWorker
      PROVE  IsFiniteSet(T) /\ Cardinality(T) \in 0 .. Cardinality(DialogWorker)
  <2>1. IsFiniteSet(T) /\ Cardinality(T) <= Cardinality(DialogWorker)
    BY <1>5, <1>7, FS_Subset
  <2>2. Cardinality(T) \in Nat
    BY <2>1, FS_CardinalityType
  <2> QED BY <1>6, <2>1, <2>2
<1> QED BY <1>5, <1>6, <1>7

\* A worker is a page and its number on that page.
LEMMA WorkerPairs ==
  \A w \in DialogWorker : w[1] \in PageSet /\ w[2] \in 1 .. MaxWorkers /\ w = <<w[1], w[2]>>
  BY DEF DialogWorker

\* A dialog opens without workers.
LEMMA DialogStarts == DialogsInit => DialogInv
<1> SUFFICES ASSUME DialogsInit PROVE DialogInv
  OBVIOUS
<1> USE DEF DialogsInit
<1>0. MaxWorkers \in Nat
  BY WorkersAssumption
<1>e. <<>> \in Seq(DialogWorker) /\ DOMAIN <<>> = {}
  OBVIOUS
<1>1. WorkersTyped
  BY <1>0, <1>e DEF WorkersTyped, Place, Launches
<1>2. Numbered
  <2>1. ASSUME NEW p \in PageSet PROVE Started(p) = 1 .. 0
    BY <2>1 DEF Started, DialogWorker
  <2>2. 0 \in 0 .. MaxWorkers
    BY <1>0
  <2> QED BY <2>1, <2>2 DEF Numbered
<1>3. PostedOnce
  BY <1>e DEF PostedOnce
<1>4. PermitUse /\ ToldWhenClosing /\ KnownAtWork
  BY DEF PermitUse, OneGeneration, ToldWhenClosing, KnownAtWork, AtWork
<1>5. PulseBound
  <2>1. Unheard = {}
    BY <1>e DEF Unheard
  <2>2. Cardinality({}) = 0
    BY FS_EmptySet
  <2> QED BY <2>1, <2>2, DialogWorkersFinite DEF PulseBound
<1> QED BY <1>1, <1>2, <1>3, <1>4, <1>5 DEF DialogInv

\* A page that starts a worker gives it a number that is free.
LEMMA NextNumber ==
  ASSUME WorkersTyped, Numbered, NEW p \in PageSet, NEW n, n = Cardinality(Started(p)) + 1, n <= MaxWorkers
  PROVE  n \in 1 .. MaxWorkers /\ <<p, n>> \in DialogWorker /\ job[<<p, n>>] = "none" /\ Started(p) = 1 .. n - 1
<1>0. MaxWorkers \in Nat
  BY WorkersAssumption
<1>1. PICK k \in 0 .. MaxWorkers : Started(p) = 1 .. k
  BY DEF Numbered
<1>2. \A m \in Nat : Cardinality(1 .. m) = m
  BY FS_Interval
<1>3. k \in Nat /\ n = k + 1
  BY <1>0, <1>1, <1>2
<1>4. n \in 1 .. MaxWorkers /\ n \notin 1 .. k /\ n - 1 = k
  BY <1>0, <1>3
<1>5. job[<<p, n>>] = "none"
  BY <1>1, <1>4 DEF Started
<1> QED BY <1>1, <1>4, <1>5 DEF DialogWorker

\* Every step of the user, the pages and their workers keeps the types.
LEMMA DialogTypes == DialogInv /\ [DialogsNext]_dialogs => WorkersTyped'
<1> SUFFICES ASSUME DialogInv, [DialogsNext]_dialogs PROVE WorkersTyped'
  OBVIOUS
<1>0. MaxWorkers \in Nat
  BY WorkersAssumption
<1> USE DEF DialogInv, WorkersTyped, Launches
<1>1. ASSUME NEW p \in PageSet, StartJob(p) PROVE WorkersTyped'
  <2>1. PICK n : /\ n = Cardinality(Started(p)) + 1 /\ n <= MaxWorkers /\ worker' = [worker EXCEPT ![p] = n]
                 /\ job' = [job EXCEPT ![<<p, n>>] = IF Kind[p].permit THEN "waits" ELSE "runs"]
    BY <1>1 DEF StartJob
  <2>2. n \in 1 .. MaxWorkers
    BY <2>1, NextNumber
  <2>3. n \in 0 .. MaxWorkers
    BY <1>0, <2>2
  <2>4. job' \in [DialogWorker -> Place] /\ \A w \in DialogWorker : job[w] # "none" => job'[w] # "none"
    BY <2>1 DEF Place
  <2> QED BY <1>1, <2>1, <2>3, <2>4 DEF StartJob
<1>2. CASE CloseDialog
  BY <1>2 DEF CloseDialog
<1>3. CASE Reopen
  <2>1. 0 \in 0 .. MaxWorkers /\ <<>> \in Seq(DialogWorker)
    BY <1>0
  <2> QED BY <1>3, <2>1 DEF Reopen
<1>4. ASSUME NEW w \in DialogWorker, WorkerStep(w) PROVE WorkersTyped'
  <2>1. posted' = posted \/ posted' = Append(posted, w)
    BY <1>4 DEF WorkerStep, TakePermit, PermitRefused, Answers, JobOver, Posts
  <2>2. posted' \in Seq(DialogWorker)
    BY <2>1
  <2>3. job' \in [DialogWorker -> Place] /\ \A v \in DialogWorker : job[v] # "none" => job'[v] # "none"
    BY <1>4 DEF WorkerStep, TakePermit, PermitRefused, Answers, JobOver, Place
  <2>4. permit' \in DialogWorker \cup {NoOne}
    BY <1>4 DEF WorkerStep, TakePermit, PermitRefused, Answers, JobOver
  <2>5. UNCHANGED <<dialog, worker, told, past>>
    BY <1>4 DEF WorkerStep, TakePermit, PermitRefused, Answers, JobOver
  <2> QED BY <2>2, <2>3, <2>4, <2>5
<1>5. CASE Handle
  <2>1. posted # <<>> /\ posted' = Tail(posted)
    BY <1>5 DEF Handle
  <2>2. posted' \in Seq(DialogWorker)
    BY <2>1
  <2>3. worker' \in [PageSet -> 0 .. MaxWorkers]
    BY <1>0, <1>5 DEF Handle
  <2>4. UNCHANGED <<dialog, job, told, permit, past>>
    BY <1>5 DEF Handle
  <2> QED BY <2>2, <2>3, <2>4
<1>6. ASSUME NEW p \in PageSet, CutOffJob(p) PROVE WorkersTyped'
  <2>1. worker[p] \in 1 .. MaxWorkers
    BY <1>6 DEF CutOffJob, At, Cleaned
  <2>2. <<p, worker[p]>> \in Launches
    BY <1>6, <2>1 DEF CutOffJob, Alive, DialogWorker
  <2> QED BY <1>6, <2>2 DEF CutOffJob
<1>7. ASSUME NEW p \in PageSet, Release(p) PROVE WorkersTyped'
  BY <1>0, <1>7 DEF Release, Forget
<1>8. ASSUME NEW p \in PageSet, Terminate(p) PROVE WorkersTyped'
  <2>1. job' \in [DialogWorker -> Place] /\ \A v \in DialogWorker : job[v] # "none" => job'[v] # "none"
    BY <1>8 DEF Terminate, Place
  <2>2. worker' \in [PageSet -> 0 .. MaxWorkers]
    BY <1>0, <1>8 DEF Terminate, Forget
  <2> QED BY <1>8, <2>1, <2>2 DEF Terminate
<1>9. CASE DialogClosed
  BY <1>9 DEF DialogClosed
<1>10. CASE UNCHANGED dialogs
  BY <1>10 DEF dialogs
<1> QED
  BY <1>1, <1>2, <1>3, <1>4, <1>5, <1>6, <1>7, <1>8, <1>9, <1>10 DEF DialogsNext, Clean

\* The workers a page has launched are those it has numbered.
LEMMA DialogNumbers == DialogInv /\ [DialogsNext]_dialogs => Numbered'
<1> SUFFICES ASSUME DialogInv, [DialogsNext]_dialogs PROVE Numbered'
  OBVIOUS
<1>0. MaxWorkers \in Nat
  BY WorkersAssumption
<1>t. job \in [DialogWorker -> Place] /\ worker \in [PageSet -> 0 .. MaxWorkers]
  BY DEF DialogInv, WorkersTyped
<1>1. ASSUME NEW p \in PageSet, StartJob(p) PROVE Numbered'
  <2>1. PICK n : /\ n = Cardinality(Started(p)) + 1 /\ n <= MaxWorkers
                 /\ job' = [job EXCEPT ![<<p, n>>] = IF Kind[p].permit THEN "waits" ELSE "runs"]
    BY <1>1 DEF StartJob
  <2>2. n \in 1 .. MaxWorkers /\ <<p, n>> \in DialogWorker /\ Started(p) = 1 .. n - 1
    BY <2>1, NextNumber DEF DialogInv
  <2>3. ASSUME NEW q \in PageSet, NEW m \in 1 .. MaxWorkers
        PROVE  job'[<<q, m>>] # "none" <=> (job[<<q, m>>] # "none" \/ (q = p /\ m = n))
    BY <1>t, <2>1, <2>2, <2>3 DEF DialogWorker
  <2>4. Started(p)' = Started(p) \cup {n}
    BY <2>2, <2>3 DEF Started
  <2>5. Started(p)' = 1 .. n
    BY <1>0, <2>2, <2>4
  <2>6. \A q \in PageSet \ {p} : Started(q)' = Started(q)
    BY <2>3 DEF Started
  <2>7. n \in 0 .. MaxWorkers
    BY <1>0, <2>2
  <2> QED BY <2>5, <2>6, <2>7 DEF DialogInv, Numbered
<1>2. ASSUME \A w \in DialogWorker : job'[w] # "none" <=> job[w] # "none" PROVE Numbered'
  <2>1. \A p \in PageSet : Started(p)' = Started(p)
    BY <1>2 DEF Started, DialogWorker
  <2> QED BY <2>1 DEF DialogInv, Numbered
<1>3. ASSUME NEW w \in DialogWorker, WorkerStep(w) PROVE \A v \in DialogWorker : job'[v] # "none" <=> job[v] # "none"
  BY <1>t, <1>3 DEF WorkerStep, TakePermit, PermitRefused, Answers, JobOver
<1>4. ASSUME NEW p \in PageSet, Terminate(p) PROVE \A v \in DialogWorker : job'[v] # "none" <=> job[v] # "none"
  BY <1>t, <1>4 DEF Terminate, Alive
<1>5. CASE job' = job
  BY <1>2, <1>5
<1>6. CloseDialog \/ Reopen \/ Handle \/ DialogClosed \/ UNCHANGED dialogs => job' = job
  BY DEF CloseDialog, Reopen, Handle, DialogClosed, dialogs
<1>7. \A p \in PageSet : CutOffJob(p) \/ Release(p) => job' = job
  BY DEF CutOffJob, Release
<1> QED
  BY <1>1, <1>2, <1>3, <1>4, <1>5, <1>6, <1>7 DEF DialogsNext, Clean

\* The permit is with a worker that needs it, and one that is through has given it back.
LEMMA DialogPermits == DialogInv /\ [DialogsNext]_dialogs => PermitUse'
<1> SUFFICES ASSUME DialogInv, [DialogsNext]_dialogs PROVE PermitUse'
  OBVIOUS
<1>0. NoOne \notin DialogWorker
  BY WorkersAssumption
<1>t. job \in [DialogWorker -> Place] /\ worker \in [PageSet -> 0 .. MaxWorkers] /\ permit \in DialogWorker \cup {NoOne}
  BY DEF DialogInv, WorkersTyped
<1> USE DEF DialogInv, PermitUse, OneGeneration
<1>1. ASSUME NEW p \in PageSet, StartJob(p) PROVE PermitUse'
  <2>1. PICK n : /\ n = Cardinality(Started(p)) + 1 /\ n <= MaxWorkers
                 /\ job' = [job EXCEPT ![<<p, n>>] = IF Kind[p].permit THEN "waits" ELSE "runs"]
    BY <1>1 DEF StartJob
  <2>2. \A w \in DialogWorker : job'[w] = job[w] \/ (w = <<p, n>> /\ job'[w] = IF Kind[p].permit THEN "waits" ELSE "runs")
    BY <1>t, <2>1
  <2>3. permit' = permit
    BY <1>1 DEF StartJob
  <2>4. \A w \in DialogWorker : job'[w] = "waits" => Kind[w[1]].permit
    BY <2>2
  <2>5. \A w \in DialogWorker : Kind[w[1]].permit /\ job'[w] = "runs" => permit' = w
    BY <2>2, <2>3
  <2> QED BY <2>4, <2>5
<1>2. ASSUME NEW w \in DialogWorker, TakePermit(w) PROVE PermitUse'
  BY <1>0, <1>t, <1>2 DEF TakePermit
<1>3. ASSUME NEW w \in DialogWorker, PermitRefused(w) \/ Answers(w) PROVE PermitUse'
  BY <1>t, <1>3 DEF PermitRefused, Answers
<1>4. ASSUME NEW w \in DialogWorker, JobOver(w) PROVE PermitUse'
  BY <1>0, <1>t, <1>4 DEF JobOver
<1>5. ASSUME NEW p \in PageSet, Terminate(p) PROVE PermitUse'
  BY <1>t, <1>5 DEF Terminate
<1>6. CloseDialog \/ Reopen \/ Handle \/ DialogClosed \/ UNCHANGED dialogs => UNCHANGED <<job, permit>>
  BY DEF CloseDialog, Reopen, Handle, DialogClosed, dialogs
<1>7. \A p \in PageSet : CutOffJob(p) \/ Release(p) => UNCHANGED <<job, permit>>
  BY DEF CutOffJob, Release
<1>8. CASE UNCHANGED <<job, permit>>
  BY <1>8
<1> QED
  BY <1>1, <1>2, <1>3, <1>4, <1>5, <1>6, <1>7, <1>8 DEF DialogsNext, Clean, WorkerStep

\* A page that lets go of a worker has told it, or heard its answer.
LEMMA DialogKnown == DialogInv /\ [DialogsNext]_dialogs => KnownAtWork'
<1> SUFFICES ASSUME DialogInv, [DialogsNext]_dialogs PROVE KnownAtWork'
  OBVIOUS
<1>t. job \in [DialogWorker -> Place] /\ worker \in [PageSet -> 0 .. MaxWorkers] /\ posted \in Seq(DialogWorker)
  BY DEF DialogInv, WorkersTyped
<1>k. \A w \in DialogWorker : AtWork(w) => w \in loose \/ worker[w[1]] = w[2]
  BY DEF DialogInv, KnownAtWork
<1>c. dialog = "closed" => \A p \in PageSet : worker[p] = 0
  BY DEF DialogInv, KnownAtWork
<1>z. \A w \in DialogWorker : w[2] # 0
  BY WorkerPairs
<1>1. ASSUME NEW p \in PageSet, StartJob(p) PROVE KnownAtWork'
  <2>1. PICK n : /\ n = Cardinality(Started(p)) + 1 /\ n <= MaxWorkers /\ worker' = [worker EXCEPT ![p] = n]
                 /\ job' = [job EXCEPT ![<<p, n>>] = IF Kind[p].permit THEN "waits" ELSE "runs"]
    BY <1>1 DEF StartJob
  <2>2. dialog' = "open" /\ loose' = loose /\ ~Refuses(p)
    BY <1>1 DEF StartJob
  <2>3. ASSUME NEW w \in DialogWorker, AtWork(w)' PROVE w \in loose' \/ worker'[w[1]] = w[2]
    <3>1. w[1] \in PageSet /\ w = <<w[1], w[2]>>
      BY WorkerPairs
    <3>2. CASE w = <<p, n>>
      BY <1>t, <2>1, <3>1, <3>2
    <3>3. CASE w # <<p, n>>
      <4>1. job'[w] = job[w]
        BY <1>t, <2>1, <3>3
      <4>2. w \in loose \/ worker[w[1]] = w[2]
        BY <1>k, <2>3, <4>1 DEF AtWork
      <4>3. CASE w[1] = p /\ worker[p] = w[2]
        <5>1. <<p, worker[p]>> = w
          BY <3>1, <4>3
        <5>2. Alive(w)
          BY <2>3, <4>1 DEF AtWork, Alive
        <5> QED BY <1>z, <2>2, <4>3, <5>1, <5>2 DEF Refuses
      <4>4. CASE w[1] # p
        BY <1>t, <2>1, <2>2, <3>1, <4>2, <4>4
      <4> QED BY <2>2, <4>2, <4>3, <4>4
    <3> QED BY <3>2, <3>3
  <2> QED BY <2>2, <2>3 DEF KnownAtWork
<1>2. CASE CloseDialog
  BY <1>2, <1>k DEF CloseDialog, KnownAtWork, AtWork
<1>3. CASE Reopen
  <2>1. \A p \in PageSet : worker[p] = 0 /\ worker'[p] = 0
    BY <1>3, <1>c DEF Reopen
  <2>2. UNCHANGED <<job, loose>> /\ dialog' = "open"
    BY <1>3 DEF Reopen
  <2> QED BY <1>k, <1>z, <2>1, <2>2, WorkerPairs DEF KnownAtWork, AtWork
<1>4. ASSUME NEW w \in DialogWorker, WorkerStep(w) PROVE KnownAtWork'
  <2>1. UNCHANGED <<dialog, worker, loose>>
    BY <1>4 DEF WorkerStep, TakePermit, PermitRefused, Answers, JobOver
  <2>2. \A v \in DialogWorker : AtWork(v)' => AtWork(v)
    BY <1>t, <1>4 DEF WorkerStep, TakePermit, PermitRefused, Answers, JobOver, AtWork
  <2> QED BY <1>k, <1>c, <2>1, <2>2 DEF KnownAtWork
<1>5. CASE Handle
  <2>0. posted # <<>> /\ UNCHANGED <<job, dialog>> /\ dialog # "closing"
    BY <1>5 DEF Handle
  <2> DEFINE u == Head(posted)
  <2>1. u \in DialogWorker /\ u = posted[1] /\ 1 \in DOMAIN posted
    BY <1>t, <2>0
  <2>2. ~AtWork(u)
    BY <2>1 DEF DialogInv, PostedOnce, AtWork
  <2>3. \/ UNCHANGED <<worker, loose>>
        \/ /\ worker' = [worker EXCEPT ![u[1]] = 0]
           /\ loose' = IF worker[u[1]] \in {0, u[2]} THEN loose ELSE loose \cup {<<u[1], worker[u[1]]>>}
    BY <1>5 DEF Handle
  <2> HIDE DEF u
  <2>4. CASE UNCHANGED <<worker, loose>>
    BY <1>k, <1>c, <2>0, <2>4 DEF KnownAtWork, AtWork
  <2>5. CASE /\ worker' = [worker EXCEPT ![u[1]] = 0]
             /\ loose' = IF worker[u[1]] \in {0, u[2]} THEN loose ELSE loose \cup {<<u[1], worker[u[1]]>>}
    <3>1. u[1] \in PageSet /\ u = <<u[1], u[2]>>
      BY <2>1, WorkerPairs
    <3>2. ASSUME NEW w \in DialogWorker, AtWork(w)' PROVE w \in loose' \/ worker'[w[1]] = w[2]
      <4>1. AtWork(w) /\ w # u
        BY <2>0, <2>2, <3>2 DEF AtWork
      <4>2. w \in loose \/ worker[w[1]] = w[2]
        BY <1>k, <4>1
      <4>3. w[1] \in PageSet /\ w = <<w[1], w[2]>>
        BY WorkerPairs
      <4>4. CASE w[1] = u[1] /\ worker[w[1]] = w[2]
        <5>1. w[2] # u[2]
          BY <3>1, <4>1, <4>3, <4>4
        <5>2. <<u[1], worker[u[1]]>> = w
          BY <4>3, <4>4
        <5> QED BY <1>z, <2>5, <4>4, <5>1, <5>2
      <4>5. CASE w[1] # u[1] /\ worker[w[1]] = w[2]
        BY <1>t, <2>5, <4>3, <4>5
      <4>6. CASE w \in loose
        BY <2>5, <4>6
      <4> QED BY <4>2, <4>4, <4>5, <4>6
    <3>3. dialog' = "closed" => \A p \in PageSet : worker'[p] = 0
      BY <1>t, <1>c, <2>0, <2>5
    <3> QED BY <3>2, <3>3 DEF KnownAtWork
  <2> QED BY <2>3, <2>4, <2>5
<1>6. ASSUME NEW p \in PageSet, CutOffJob(p) PROVE KnownAtWork'
  BY <1>k, <1>c, <1>6 DEF CutOffJob, KnownAtWork, AtWork
<1>7. ASSUME NEW p \in PageSet, Release(p) \/ Terminate(p) PROVE KnownAtWork'
  <2>1. dialog' = "closing" /\ loose' = loose /\ worker' = [worker EXCEPT ![p] = 0]
    BY <1>7 DEF Release, Terminate, At, Forget
  <2>2. \A w \in DialogWorker : AtWork(w)' => AtWork(w) /\ w # <<p, worker[p]>>
    BY <1>t, <1>7 DEF Release, Terminate, AtWork, Alive
  <2>3. \A w \in DialogWorker : AtWork(w)' => w \in loose \/ (worker[w[1]] = w[2] /\ w[1] # p)
    BY <1>k, <2>2, WorkerPairs
  <2> QED BY <1>t, <2>1, <2>3, WorkerPairs DEF KnownAtWork
<1>8. CASE DialogClosed
  <2>1. UNCHANGED <<worker, loose, job>> /\ \A p \in PageSet : worker[p] = 0
    BY <1>8 DEF DialogClosed, Cleaned
  <2> QED BY <1>k, <2>1 DEF KnownAtWork, AtWork
<1>9. CASE UNCHANGED dialogs
  BY <1>k, <1>c, <1>9 DEF dialogs, KnownAtWork, AtWork
<1> QED
  BY <1>1, <1>2, <1>3, <1>4, <1>5, <1>6, <1>7, <1>8, <1>9 DEF DialogsNext, Clean

\* A dialog that closes has told every worker at work.
LEMMA DialogTold == DialogInv /\ [DialogsNext]_dialogs => ToldWhenClosing'
<1> SUFFICES ASSUME DialogInv, [DialogsNext]_dialogs PROVE ToldWhenClosing'
  OBVIOUS
<1> USE DEF DialogInv, ToldWhenClosing
<1>1. CASE Reopen
  BY <1>1 DEF Reopen, WorkersTyped, Launches
<1>2. ASSUME NEW p \in PageSet, CutOffJob(p) \/ Release(p) \/ Terminate(p) PROVE ToldWhenClosing'
  BY <1>2 DEF CutOffJob, Release, Terminate, At
<1>3. ASSUME NEW p \in PageSet, StartJob(p) PROVE ToldWhenClosing'
  BY <1>3 DEF StartJob
<1>4. ASSUME NEW w \in DialogWorker, WorkerStep(w) PROVE ToldWhenClosing'
  BY <1>4 DEF WorkerStep, TakePermit, PermitRefused, Answers, JobOver
<1>5. CASE CloseDialog \/ Handle \/ DialogClosed \/ UNCHANGED dialogs
  BY <1>5 DEF CloseDialog, Handle, DialogClosed, dialogs
<1> QED BY <1>1, <1>2, <1>3, <1>4, <1>5 DEF DialogsNext, Clean

\* A worker posts what has not been posted yet.
LEMMA DialogPosts ==
  ASSUME DialogInv, NEW w \in DialogWorker, WorkerStep(w)
  PROVE  PostedOnce'
<1>t. job \in [DialogWorker -> Place] /\ posted \in Seq(DialogWorker) /\ past' = past
  BY DEF DialogInv, WorkersTyped, WorkerStep, TakePermit, PermitRefused, Answers, JobOver
<1>k. Kind[w[1]].permit => ~Kind[w[1]].ends
  BY WorkersAssumption, WorkerPairs
<1> DEFINE Told(v) == job[v] \in (IF Kind[v[1]].ends THEN {"ended", "killed"} ELSE {"answered", "ended", "killed"})
           ToldNext(v) == job'[v] \in (IF Kind[v[1]].ends THEN {"ended", "killed"} ELSE {"answered", "ended", "killed"})
<1>1. \A i, j \in DOMAIN posted : posted[i] = posted[j] => i = j
  BY DEF DialogInv, PostedOnce
<1>2. \A i \in DOMAIN posted : posted[i] \in DialogWorker /\ posted[i] \notin past /\ Told(posted[i])
  BY <1>t DEF DialogInv, PostedOnce
<1>3. \A v \in DialogWorker : Told(v) => ToldNext(v)
  BY <1>t DEF WorkerStep, TakePermit, PermitRefused, Answers, JobOver
<1>4. posted' = posted \/ (posted' = Append(posted, w) /\ w \notin past /\ ~Told(w) /\ ToldNext(w))
  <2>1. CASE TakePermit(w)
    BY <2>1 DEF TakePermit
  <2>2. CASE PermitRefused(w)
    <3>1. ~Kind[w[1]].ends
      BY <1>k, <2>2 DEF PermitRefused, DialogInv, PermitUse
    <3> QED BY <1>t, <2>2, <3>1 DEF PermitRefused, Posts
  <2>3. CASE Answers(w)
    BY <1>t, <2>3 DEF Answers, Posts
  <2>4. CASE JobOver(w)
    BY <1>t, <2>4 DEF JobOver, Posts
  <2> QED BY <2>1, <2>2, <2>3, <2>4 DEF WorkerStep
<1> HIDE DEF Told, ToldNext
<1>5. CASE posted' = posted
  <2>1. \A i \in DOMAIN posted' : posted'[i] \notin past' /\ ToldNext(posted'[i])
    BY <1>t, <1>2, <1>3, <1>5
  <2> QED BY <1>1, <1>5, <2>1 DEF PostedOnce, ToldNext
<1>6. CASE posted' = Append(posted, w) /\ w \notin past /\ ~Told(w) /\ ToldNext(w)
  <2>1. Len(posted) \in Nat /\ DOMAIN posted = 1 .. Len(posted) /\ DOMAIN posted' = 1 .. Len(posted) + 1
    BY <1>t, <1>6
  <2>2. posted'[Len(posted) + 1] = w /\ \A i \in DOMAIN posted : posted'[i] = posted[i]
    BY <1>t, <1>6
  <2>3. \A i \in DOMAIN posted' : i \in DOMAIN posted \/ i = Len(posted) + 1
    BY <2>1
  <2>4. \A i \in DOMAIN posted' : posted'[i] \notin past' /\ ToldNext(posted'[i])
    BY <1>t, <1>2, <1>3, <1>6, <2>2, <2>3
  <2>5. \A i \in DOMAIN posted : posted[i] # w
    BY <1>2, <1>6
  <2>6. \A i, j \in DOMAIN posted' : posted'[i] = posted'[j] => i = j
    BY <1>1, <2>2, <2>3, <2>5
  <2> QED BY <2>4, <2>6 DEF PostedOnce, ToldNext
<1> QED BY <1>4, <1>5, <1>6

\* A worker posts its answer once, when it has one.
LEMMA DialogPosted == DialogInv /\ [DialogsNext]_dialogs => PostedOnce'
<1> SUFFICES ASSUME DialogInv, [DialogsNext]_dialogs PROVE PostedOnce'
  OBVIOUS
<1>t. job \in [DialogWorker -> Place] /\ posted \in Seq(DialogWorker)
  BY DEF DialogInv, WorkersTyped
<1>d. \A i \in DOMAIN posted : posted[i] \in DialogWorker
  BY <1>t
<1> USE DEF DialogInv, PostedOnce
<1>1. CASE Reopen
  BY <1>1 DEF Reopen
<1>2. CASE Handle
  <2>1. posted' = Tail(posted) /\ posted # <<>> /\ UNCHANGED <<job, past>>
    BY <1>2 DEF Handle
  <2>2. \A i \in DOMAIN posted' : i + 1 \in DOMAIN posted /\ posted'[i] = posted[i + 1] /\ i \in Nat
    BY <1>t, <2>1
  <2>3. \A i, j \in DOMAIN posted' : posted'[i] = posted'[j] => i = j
    <3>1. \A i, j \in Nat : i + 1 = j + 1 => i = j
      OBVIOUS
    <3> QED BY <2>2, <3>1
  <2> QED BY <2>1, <2>2, <2>3
<1>3. ASSUME UNCHANGED <<posted, past>>, \A w \in DialogWorker : job'[w] = job[w] \/ job'[w] = "killed" \/ job[w] = "none"
      PROVE  PostedOnce'
  BY <1>d, <1>3
<1>4. ASSUME NEW p \in PageSet, StartJob(p) PROVE PostedOnce'
  <2>1. PICK n : /\ n = Cardinality(Started(p)) + 1 /\ n <= MaxWorkers
                 /\ job' = [job EXCEPT ![<<p, n>>] = IF Kind[p].permit THEN "waits" ELSE "runs"]
    BY <1>4 DEF StartJob
  <2>2. job[<<p, n>>] = "none"
    BY <2>1, NextNumber
  <2>3. \A w \in DialogWorker : job'[w] = job[w] \/ job[w] = "none"
    BY <1>t, <2>1, <2>2
  <2> QED BY <1>3, <1>4, <2>3 DEF StartJob
<1>5. ASSUME NEW p \in PageSet, CutOffJob(p) \/ Release(p) PROVE PostedOnce'
  BY <1>5 DEF CutOffJob, Release
<1>6. ASSUME NEW p \in PageSet, Terminate(p) PROVE PostedOnce'
  <2>1. \A w \in DialogWorker : job'[w] = job[w] \/ job'[w] = "killed"
    BY <1>t, <1>6 DEF Terminate
  <2> QED BY <1>3, <1>6, <2>1 DEF Terminate
<1>7. CASE CloseDialog \/ DialogClosed \/ UNCHANGED dialogs
  BY <1>7 DEF CloseDialog, DialogClosed, dialogs
<1> QED
  BY <1>1, <1>2, <1>4, <1>5, <1>6, <1>7, DialogPosts DEF DialogsNext, Clean

\* Another worker is one more to hear of, and one that is heard is one less.
LEMMA UnheardCounts ==
  ASSUME NEW T, T \subseteq DialogWorker, NEW w \in DialogWorker
  PROVE  /\ w \notin T => Cardinality(T \cup {w}) = Cardinality(T) + 1
         /\ w \in T => Cardinality(T \ {w}) = Cardinality(T) - 1 /\ Cardinality(T) > 0
<1>1. IsFiniteSet(T) /\ Cardinality(T) \in Nat
  BY DialogWorkersFinite
<1>2. w \notin T => Cardinality(T \cup {w}) = Cardinality(T) + 1
  BY <1>1, FS_AddElement
<1>3. w \in T => Cardinality(T \ {w}) = Cardinality(T) - 1
  BY <1>1, FS_RemoveElement
<1>4. IsFiniteSet(T \ {w}) /\ Cardinality(T \ {w}) \in Nat
  BY <1>1, FS_RemoveElement, FS_CardinalityType
<1> QED BY <1>1, <1>2, <1>3, <1>4

\* The pulse beats for the workers at work and never for less.
LEMMA DialogPulse == DialogInv /\ [DialogsNext]_dialogs => PulseBound'
<1> SUFFICES ASSUME DialogInv, [DialogsNext]_dialogs PROVE PulseBound'
  OBVIOUS
<1>t. job \in [DialogWorker -> Place] /\ posted \in Seq(DialogWorker) /\ told \subseteq DialogWorker /\ past \subseteq DialogWorker
  BY DEF DialogInv, WorkersTyped, Launches
<1>c. Cardinality(DialogWorker) \in Nat
  BY DialogWorkersFinite
<1>p. pulse \in 0 .. Cardinality(DialogWorker)
  BY DEF DialogInv, PulseBound
<1>o. dialog = "open" => pulse = Cardinality(Unheard) /\ told \subseteq past
  BY DEF DialogInv, PulseBound, ToldWhenClosing
<1>u. Unheard \subseteq DialogWorker /\ Unheard' \subseteq DialogWorker
  BY DEF Unheard
<1>n. Cardinality(Unheard) \in 0 .. Cardinality(DialogWorker) /\ Cardinality(Unheard') \in 0 .. Cardinality(DialogWorker)
  BY <1>u, DialogWorkersFinite
<1>l. Less(pulse) \in 0 .. Cardinality(DialogWorker)
  BY <1>c, <1>p DEF Less
<1>1. ASSUME NEW p \in PageSet, StartJob(p) PROVE PulseBound'
  <2>1. PICK n : /\ n = Cardinality(Started(p)) + 1 /\ n <= MaxWorkers
                 /\ job' = [job EXCEPT ![<<p, n>>] = IF Kind[p].permit THEN "waits" ELSE "runs"]
    BY <1>1 DEF StartJob
  <2>2. <<p, n>> \in DialogWorker /\ job[<<p, n>>] = "none"
    BY <2>1, NextNumber DEF DialogInv
  <2>3. dialog = "open" /\ pulse' = pulse + 1 /\ UNCHANGED <<told, past, posted>>
    BY <1>1 DEF StartJob
  <2>4. <<p, n>> \notin told \cup past
    BY <2>2 DEF DialogInv, WorkersTyped, Launches
  <2>5. \A i \in DOMAIN posted : posted[i] # <<p, n>>
    BY <2>2 DEF DialogInv, PostedOnce
  <2>6. \A w \in DialogWorker : w # <<p, n>> => job'[w] = job[w]
    BY <1>t, <2>1
  <2>7. job'[<<p, n>>] \in {"waits", "runs"}
    BY <1>t, <2>1, <2>2
  <2>8. Unheard' = Unheard \cup {<<p, n>>}
    <3>1. ASSUME NEW w \in DialogWorker PROVE w \in Unheard' <=> w \in Unheard \cup {<<p, n>>}
      <4>1. CASE w = <<p, n>>
        BY <2>3, <2>4, <2>7, <4>1 DEF Unheard
      <4>2. CASE w # <<p, n>>
        BY <2>3, <2>6, <4>2 DEF Unheard
      <4> QED BY <4>1, <4>2
    <3> QED BY <1>u, <2>2, <3>1
  <2>9. <<p, n>> \notin Unheard
    BY <2>2, <2>5 DEF Unheard
  <2>10. Cardinality(Unheard') = Cardinality(Unheard) + 1
    BY <1>u, <2>2, <2>8, <2>9, UnheardCounts
  <2> QED BY <1>o, <1>n, <2>3, <2>10 DEF PulseBound
<1>2. CASE CloseDialog
  BY <1>2, <1>p DEF CloseDialog, PulseBound
<1>3. CASE Reopen
  <2>1. pulse' = 0 /\ posted' = <<>> /\ past' = Launches /\ UNCHANGED <<job, told>>
    BY <1>3 DEF Reopen, Launches
  <2>2. Unheard' = {}
    BY <2>1 DEF Unheard, Launches
  <2>3. Cardinality({}) = 0
    BY FS_EmptySet
  <2> QED BY <1>c, <2>1, <2>2, <2>3 DEF PulseBound
<1>4. ASSUME NEW w \in DialogWorker, WorkerStep(w) PROVE PulseBound'
  <2>1. UNCHANGED <<dialog, told, past, pulse>>
    BY <1>4 DEF WorkerStep, TakePermit, PermitRefused, Answers, JobOver
  <2>2. CASE dialog # "open"
    BY <1>p, <2>1, <2>2 DEF PulseBound
  <2>3. CASE dialog = "open"
    <3> DEFINE Sent(v) == \E i \in DOMAIN posted : posted[i] = v
               SentNext(v) == \E i \in DOMAIN posted' : posted'[i] = v
    <3>1. posted' = posted => \A v : SentNext(v) <=> Sent(v)
      OBVIOUS
    <3>2. posted' = Append(posted, w) => \A v : SentNext(v) <=> Sent(v) \/ v = w
      <4> SUFFICES ASSUME posted' = Append(posted, w) PROVE \A v : SentNext(v) <=> Sent(v) \/ v = w
        OBVIOUS
      <4>1. Len(posted) \in Nat /\ DOMAIN posted = 1 .. Len(posted) /\ DOMAIN posted' = 1 .. Len(posted) + 1
        BY <1>t
      <4>2. posted'[Len(posted) + 1] = w /\ \A i \in DOMAIN posted : posted'[i] = posted[i]
        BY <1>t
      <4>3. Len(posted) + 1 \in DOMAIN posted' /\ \A i \in DOMAIN posted : i \in DOMAIN posted'
        BY <4>1
      <4>4. \A i \in DOMAIN posted' : i \in DOMAIN posted \/ i = Len(posted) + 1
        BY <4>1
      <4> QED BY <4>2, <4>3, <4>4
    <3>u. /\ \A v \in DialogWorker : v \in Unheard <=>
               v \notin told \cup past /\ (job[v] \in {"waits", "runs"} \/ (Kind[v[1]].ends /\ job[v] = "answered") \/ Sent(v))
          /\ \A v \in DialogWorker : v \in Unheard' <=>
               v \notin told \cup past /\ (job'[v] \in {"waits", "runs"} \/ (Kind[v[1]].ends /\ job'[v] = "answered") \/ SentNext(v))
      BY <2>1 DEF Unheard
    <3> HIDE DEF Sent, SentNext
    <3>3. w \notin past => w \notin told
      BY <1>o, <2>3
    <3>k. Kind[w[1]].ends \in BOOLEAN
      BY WorkersAssumption, WorkerPairs
    <3>4. \A v \in DialogWorker \ {w} : job'[v] = job[v] /\ (SentNext(v) <=> Sent(v))
      BY <1>t, <1>4, <3>1, <3>2 DEF WorkerStep, TakePermit, PermitRefused, Answers, JobOver, Posts
    <3>5. w \notin past => (w \in Unheard <=> w \in Unheard')
      <4>1. CASE TakePermit(w)
        BY <1>t, <2>1, <3>1, <3>u, <4>1 DEF TakePermit
      <4>2. CASE PermitRefused(w)
        BY <1>t, <2>1, <3>2, <3>3, <3>u, <4>2 DEF PermitRefused, Posts
      <4>3. CASE Answers(w)
        BY <1>t, <2>1, <3>1, <3>2, <3>3, <3>k, <3>u, <4>3 DEF Answers, Posts
      <4>4. CASE JobOver(w)
        BY <1>t, <2>1, <3>1, <3>2, <3>3, <3>k, <3>u, <4>4 DEF JobOver, Posts
      <4> QED BY <1>4, <4>1, <4>2, <4>3, <4>4 DEF WorkerStep
    <3>6. w \in past => w \notin Unheard /\ w \notin Unheard'
      BY <3>u
    <3>7. \A v \in DialogWorker \ {w} : v \in Unheard <=> v \in Unheard'
      BY <3>4, <3>u
    <3>8. Unheard' = Unheard
      BY <1>u, <3>5, <3>6, <3>7
    <3> QED BY <1>p, <1>o, <2>1, <2>3, <3>8 DEF PulseBound
  <2> QED BY <2>2, <2>3
<1>5. CASE Handle
  <2>1. posted # <<>> /\ posted' = Tail(posted) /\ UNCHANGED <<job, dialog, told, past>>
    BY <1>5 DEF Handle
  <2> DEFINE u == Head(posted)
  <2>2. u \in DialogWorker /\ u = posted[1] /\ 1 \in DOMAIN posted
    BY <1>t, <2>1
  <2>3. pulse' = Less(pulse) \/ (pulse' = pulse /\ u \in told)
    BY <1>5 DEF Handle
  <2>4. CASE dialog # "open"
    BY <1>p, <1>l, <2>1, <2>3, <2>4 DEF PulseBound
  <2>5. CASE dialog = "open"
    <3>1. u \notin past /\ job[u] \in (IF Kind[u[1]].ends THEN {"ended", "killed"} ELSE {"answered", "ended", "killed"})
      BY <2>2 DEF DialogInv, PostedOnce
    <3>2. u \notin told /\ pulse' = Less(pulse)
      BY <1>o, <2>3, <2>5, <3>1
    <3>3. \A i \in DOMAIN posted' : i + 1 \in DOMAIN posted /\ posted'[i] = posted[i + 1] /\ i \in 1 .. Len(posted) - 1
      BY <1>t, <2>1
    <3>4. \A i \in DOMAIN posted : i # 1 => i - 1 \in DOMAIN posted' /\ posted'[i - 1] = posted[i]
      BY <1>t, <2>1
    <3>5. \A i \in DOMAIN posted' : posted'[i] # u
      <4>1. \A i \in 1 .. Len(posted) - 1 : i + 1 # 1
        BY <1>t
      <4>2. \A i \in DOMAIN posted : i # 1 => posted[i] # posted[1]
        BY <2>2 DEF DialogInv, PostedOnce
      <4> QED BY <2>2, <3>3, <4>1, <4>2
    <3> HIDE DEF u
    <3>6. \A v : v # u => ((\E i \in DOMAIN posted : posted[i] = v) <=> (\E i \in DOMAIN posted' : posted'[i] = v))
      BY <2>2, <3>3, <3>4
    <3>7. u \in Unheard /\ u \notin Unheard'
      BY <2>1, <2>2, <3>1, <3>2, <3>5 DEF Unheard
    <3>8. \A v \in DialogWorker : v # u => (v \in Unheard <=> v \in Unheard')
      BY <2>1, <3>6 DEF Unheard
    <3>9. Unheard' = Unheard \ {u}
      BY <1>u, <3>7, <3>8
    <3>10. Cardinality(Unheard') = Cardinality(Unheard) - 1 /\ Cardinality(Unheard) > 0
      BY <1>u, <2>2, <3>7, <3>9, UnheardCounts
    <3> QED BY <1>o, <1>n, <1>l, <2>1, <2>5, <3>2, <3>10 DEF Less, PulseBound
  <2> QED BY <2>4, <2>5
<1>6. ASSUME NEW p \in PageSet, CutOffJob(p) \/ Release(p) \/ Terminate(p) PROVE PulseBound'
  BY <1>p, <1>l, <1>6 DEF CutOffJob, Release, Terminate, At, Forget, PulseBound
<1>7. CASE DialogClosed
  BY <1>7, <1>p DEF DialogClosed, PulseBound
<1>8. CASE UNCHANGED dialogs
  <2>1. Unheard' = Unheard
    BY <1>8 DEF dialogs, Unheard
  <2> QED BY <1>8, <1>p, <1>o, <2>1 DEF dialogs, PulseBound
<1> QED
  BY <1>1, <1>2, <1>3, <1>4, <1>5, <1>6, <1>7, <1>8 DEF DialogsNext, Clean

\* Every step keeps what the dialog and its workers know of each other.
LEMMA DialogStep == DialogInv /\ [DialogsNext]_dialogs => DialogInv'
  BY DialogTypes, DialogNumbers, DialogPosted, DialogPermits, DialogTold, DialogKnown, DialogPulse DEF DialogInv

\* However many workers and dialogs there are: a dialog that has closed leaves no thread
\* at work but one its page had forgotten, rules are generated one at a time, and the bar
\* of an open dialog moves for the workers not yet heard.
THEOREM DialogLeavesNothing == DialogsSpec => []DialogSound
<1>1. DialogInv => DialogSound
  <2> SUFFICES ASSUME DialogInv PROVE DialogSound
    OBVIOUS
  <2>1. NoneOutlives
    <3>1. \A w \in DialogWorker : w[1] \in PageSet /\ w[2] # 0
      BY WorkerPairs
    <3> QED BY <3>1 DEF DialogInv, KnownAtWork, AtWork, NoneOutlives
  <2>2. OneGeneration
    BY DEF DialogInv, PermitUse
  <2>3. PulseTrue
    BY DEF DialogInv, PulseBound, PulseTrue, Unheard
  <2> QED BY <2>1, <2>2, <2>3 DEF DialogSound
<1> QED BY <1>1, DialogStarts, DialogStep, PTL DEF DialogsSpec

-----------------------------------------------------------------------------
(* The list of rule sources                                                  *)

Asking == [at : {"asking"}, src : Source, alone : BOOLEAN]
Writing == [at : {"noting", "adding", "fetching", "saving"}, src : Source, alone : BOOLEAN, hash : Nat, edition : Nat]
Editing == [at : {"editing"}, src : Source, what : {"add", "remove", "switch", "move", "repoint"}]

SourcesTyped ==
  /\ listed \in [Source -> {Absent} \cup Entry]
  /\ copy \in [Writer -> {Absent} \cup [Source -> {Absent} \cup Entry]]
  /\ known \in [Manager -> {Absent} \cup [Source -> {Absent} \cup SourceState]]
  /\ doing \in [Writer -> {Idle} \cup Asking \cup Writing \cup Editing]
  /\ doing[User] \in {Idle} \cup Editing
  /\ \A m \in Manager : doing[m] \in {Idle} \cup Asking \cup Writing
  /\ remote \in [Source -> [edition : Nat, tells : {"rules", "move", "stop"}]]
  /\ cache \in [Source -> Nat] /\ wrote \in [Source -> {Absent} \cup Entry] /\ spoilt \subseteq Source

\* A manager that updates a source knows it.
BusyKnows ==
  \A m \in Manager : doing[m] # Idle => known[m] # Absent /\ known[m][doing[m].src] \in SourceState

\* What one has read of the list is the list, until it has written and lets the lock go.
CopyIsList == \A a \in Writer : copy[a] # Absent => lock = a /\ copy[a] = listed

\* An update that is alone is the only one of its source, and of a source that is not
\* spoilt each update is, and keeps the hash of what it fetches.
AloneIs ==
  /\ \A m, o \in Manager : \A s \in Source : BusyWith(m, s) /\ BusyWith(o, s) /\ doing[m].alone => m = o
  /\ \A m \in Manager, s \in Source \ spoilt :
       BusyWith(m, s) => doing[m].alone /\ (doing[m] \in Writing => doing[m].hash = doing[m].edition)

\* Between the two writes of an update that is alone the list has the hash it noted; of a
\* source that is not spoilt it has at any other time the hash of the rule in the cache.
HashSteps ==
  /\ \A m \in Manager : Committed(m) /\ doing[m].alone =>
       listed[doing[m].src] = Absent \/ listed[doing[m].src].hash \in {0, doing[m].hash}
  /\ \A s \in Source \ spoilt :
       (\A m \in Manager : ~(BusyWith(m, s) /\ Committed(m))) =>
         listed[s] = Absent \/ listed[s].hash \in {0, cache[s]}

SourcesInv == SourcesTyped /\ BusyKnows /\ CopyIsList /\ EditsKept /\ AloneIs /\ HashSteps

-----------------------------------------------------------------------------
\* The user is no manager, and the values that stand for no one are no one.
LEMMA SourcesConstants ==
  /\ User \notin Manager /\ Nobody \notin Writer /\ "killed" \notin Writer /\ "killed" # Nobody
  /\ User \in Writer /\ Manager \subseteq Writer
  BY SourcesAssumption DEF Writer

\* What a change to an entry of the list leaves alone.
LEMMA EntryFields ==
  /\ NewEntry \in Entry /\ NewEntry.hash = 0
  /\ \A r \in Entry, h \in Nat : [r EXCEPT !.hash = h] \in Entry /\ [r EXCEPT !.hash = h].hash = h
  /\ \A r \in Entry : [r EXCEPT !.switched = TRUE] \in Entry /\ [r EXCEPT !.switched = TRUE].hash = r.hash /\ r.hash \in Nat
  BY DEF Entry, NewEntry

\* What a change to the task of a manager leaves alone.
LEMMA TaskFields ==
  /\ \A r \in Writing, x \in {"noting", "adding", "fetching", "saving"} :
       LET q == [r EXCEPT !.at = x] IN
       q \in Writing /\ q.at = x /\ q.src = r.src /\ q.alone = r.alone /\ q.hash = r.hash /\ q.edition = r.edition
  /\ \A r \in Asking : [r EXCEPT !.alone = FALSE] \in Asking /\ [r EXCEPT !.alone = FALSE].src = r.src
  /\ \A r \in Writing : LET q == [r EXCEPT !.alone = FALSE] IN
       q \in Writing /\ q.at = r.at /\ q.src = r.src /\ q.hash = r.hash /\ q.edition = r.edition
  /\ \A r \in Asking \cup Writing : [r EXCEPT !.alone = FALSE].alone = FALSE
  /\ \A r \in Asking : r.at = "asking" /\ r.src \in Source /\ r.alone \in BOOLEAN /\ r \notin Writing
  /\ \A r \in Writing : r.at \in {"noting", "adding", "fetching", "saving"} /\ r.src \in Source /\ r.hash \in Nat /\ r.edition \in Nat /\ r.alone \in BOOLEAN
  /\ \A r \in Editing : r.at = "editing" /\ r.src \in Source /\ r.what \in {"add", "remove", "switch", "move", "repoint"}
  /\ Idle.at = "idle" /\ Idle \notin Asking /\ Idle \notin Writing /\ Idle \notin Editing
<1>1. \A r \in Writing, x \in {"noting", "adding", "fetching", "saving"} :
       LET q == [r EXCEPT !.at = x] IN
       q \in Writing /\ q.at = x /\ q.src = r.src /\ q.alone = r.alone /\ q.hash = r.hash /\ q.edition = r.edition
  BY DEF Writing
<1>2. \A r \in Asking : [r EXCEPT !.alone = FALSE] \in Asking /\ [r EXCEPT !.alone = FALSE].src = r.src
  BY DEF Asking
<1>3. \A r \in Writing : LET q == [r EXCEPT !.alone = FALSE] IN
       q \in Writing /\ q.at = r.at /\ q.src = r.src /\ q.hash = r.hash /\ q.edition = r.edition
  BY DEF Writing
<1>4. \A r \in Asking \cup Writing : [r EXCEPT !.alone = FALSE].alone = FALSE
  BY DEF Asking, Writing
<1>5. \A r \in Asking : r.at = "asking" /\ r.src \in Source /\ r.alone \in BOOLEAN /\ r \notin Writing
  BY DEF Asking, Writing
<1>6. \A r \in Writing : r.at \in {"noting", "adding", "fetching", "saving"} /\ r.src \in Source /\ r.hash \in Nat /\ r.edition \in Nat /\ r.alone \in BOOLEAN
  BY DEF Writing
<1>7. \A r \in Editing : r.at = "editing" /\ r.src \in Source /\ r.what \in {"add", "remove", "switch", "move", "repoint"}
  BY DEF Editing
<1>8. Idle.at = "idle" /\ Idle \notin Asking /\ Idle \notin Writing /\ Idle \notin Editing
  BY DEF Idle, Asking, Writing, Editing
<1> QED BY <1>1, <1>2, <1>3, <1>4, <1>5, <1>6, <1>7, <1>8

\* Where a writer is tells what its record is.
LEMMA Places ==
  ASSUME SourcesTyped
  PROVE  /\ \A m \in Manager : /\ doing[m].at = "idle" <=> doing[m] = Idle
                               /\ doing[m].at = "asking" <=> doing[m] \in Asking
                               /\ doing[m].at \in {"noting", "adding", "fetching", "saving"} <=> doing[m] \in Writing
         /\ doing[User].at = "idle" <=> doing[User] = Idle
         /\ doing[User].at = "editing" <=> doing[User] \in Editing
<1>1. ASSUME NEW m \in Manager
      PROVE  /\ doing[m].at = "idle" <=> doing[m] = Idle
             /\ doing[m].at = "asking" <=> doing[m] \in Asking
             /\ doing[m].at \in {"noting", "adding", "fetching", "saving"} <=> doing[m] \in Writing
  <2>1. doing[m] = Idle \/ doing[m] \in Asking \/ doing[m] \in Writing
    BY DEF SourcesTyped
  <2> QED BY <2>1, TaskFields
<1>2. doing[User] = Idle \/ doing[User] \in Editing
  BY DEF SourcesTyped
<1> QED BY <1>1, <1>2, TaskFields

\* Nothing is listed and nobody does anything at first.
LEMMA SourcesStart == SourcesInit => SourcesInv
<1> SUFFICES ASSUME SourcesInit PROVE SourcesInv
  OBVIOUS
<1> USE DEF SourcesInit
<1>d. \A a \in Writer : doing[a] = Idle /\ doing[a].at = "idle"
  BY TaskFields
<1>1. SourcesTyped
  <2>1. listed \in [Source -> {Absent} \cup Entry]
    BY EntryFields
  <2>2. remote \in [Source -> [edition : Nat, tells : {"rules", "move", "stop"}]]
    OBVIOUS
  <2> QED BY <1>d, <2>1, <2>2, SourcesConstants DEF SourcesTyped
<1>2. BusyKnows /\ CopyIsList /\ EditsKept
  BY <1>d, SourcesConstants DEF BusyKnows, CopyIsList, EditsKept
<1>3. AloneIs
  BY <1>d, SourcesConstants DEF AloneIs, BusyWith
<1>4. HashSteps
  <2>1. \A s \in Source : listed[s] = Absent \/ listed[s].hash = 0
    BY EntryFields
  <2> QED BY <1>d, <2>1, SourcesConstants DEF HashSteps, Committed
<1> QED BY <1>1, <1>2, <1>3, <1>4 DEF SourcesInv
-----------------------------------------------------------------------------
(* The list and its lock                                                     *)

\* A writer puts one entry into the list it copied, and nobody has changed the list since.
LEMMA Put ==
  ASSUME SourcesInv, NEW a \in Writer, NEW s \in Source, NEW entry \in {Absent} \cup Entry, PutEntry(a, s, entry)
  PROVE  /\ listed' = [listed EXCEPT ![s] = entry] /\ wrote' = listed'
         /\ copy[a] = listed /\ copy' = [copy EXCEPT ![a] = Absent] /\ CopyIsList'
<1>1. copy[a] = listed /\ lock = a /\ \A b \in Writer : copy[b] # Absent => b = a
  BY DEF SourcesInv, CopyIsList, PutEntry
<1>t. listed \in [Source -> {Absent} \cup Entry] /\ copy \in [Writer -> {Absent} \cup [Source -> {Absent} \cup Entry]]
  BY DEF SourcesInv, SourcesTyped
<1>2. wrote = listed
  BY DEF SourcesInv, EditsKept
<1>3. listed' = [listed EXCEPT ![s] = entry] /\ wrote' = listed'
  BY <1>1, <1>2, <1>t DEF PutEntry
<1>4. copy' = [copy EXCEPT ![a] = Absent]
  BY DEF PutEntry
<1>5. \A b \in Writer : copy'[b] = Absent
  BY <1>1, <1>4, <1>t
<1> QED BY <1>1, <1>3, <1>4, <1>5 DEF CopyIsList

\* What is written where: by the user, by an update that notes its hash, or by one that
\* adds its source back.
LEMMA UserPut ==
  ASSUME SourcesInv, UserWrites, NEW s, s = doing[User].src
  PROVE  /\ s \in Source
         /\ \E entry \in {Absent} \cup Entry :
              /\ entry = Absent \/ entry.hash = 0 \/ (listed[s] # Absent /\ entry.hash = listed[s].hash)
              /\ PutEntry(User, s, entry)
<1>1. doing[User] \in Editing /\ copy[User] = listed
  BY Places, SourcesConstants DEF SourcesInv, UserWrites, PutEntry, CopyIsList
<1>2. s \in Source /\ doing[User].what \in {"add", "remove", "switch", "move", "repoint"}
  BY <1>1, TaskFields
<1>3. listed[s] \in {Absent} \cup Entry
  BY <1>2 DEF SourcesInv, SourcesTyped
<1> DEFINE entry == Edited(doing[User].what, copy[User][s])
<1>4. /\ entry \in {Absent} \cup Entry
      /\ entry = Absent \/ entry.hash = 0 \/ (listed[s] # Absent /\ entry.hash = listed[s].hash)
  <2>1. CASE doing[User].what = "add"
    BY <1>1, <1>3, <2>1, EntryFields DEF Edited
  <2>2. CASE doing[User].what = "remove"
    BY <2>2 DEF Edited
  <2>3. CASE doing[User].what = "switch"
    <3>1. entry = IF listed[s] = Absent THEN Absent ELSE [listed[s] EXCEPT !.switched = TRUE]
      BY <1>1, <2>3 DEF Edited
    <3> QED BY <1>3, <3>1, EntryFields
  <2>4. CASE doing[User].what \in {"move", "repoint"}
    BY <1>1, <1>3, <2>4 DEF Edited
  <2> QED BY <1>2, <2>1, <2>2, <2>3, <2>4
<1>5. PutEntry(User, s, entry)
  BY DEF UserWrites
<1> QED BY <1>2, <1>4, <1>5

\* An update writes the hash it has noted, or the entry as it is.
LEMMA NotePut ==
  ASSUME SourcesInv, NEW m \in Manager, NEW s, s = doing[m].src, Note(m) \/ AddBack(m)
  PROVE  /\ s \in Source /\ doing[m] \in Writing
         /\ \E entry \in {Absent} \cup Entry :
              /\ PutEntry(m, s, entry)
              /\ \/ /\ entry \in Entry /\ entry.hash = doing[m].hash
                    /\ doing' = [doing EXCEPT ![m] = [@ EXCEPT !.at = "fetching"]]
                 \/ entry = listed[s] /\ doing' \in {[doing EXCEPT ![m] = [@ EXCEPT !.at = "adding"]], [doing EXCEPT ![m] = Idle]}
<1>1. doing[m] \in Writing /\ copy[m] # Absent /\ m \in Writer
  BY Places, SourcesConstants DEF SourcesInv, Note, AddBack
<1>2. copy[m] = listed /\ s \in Source /\ doing[m].hash \in Nat
  BY <1>1, TaskFields DEF SourcesInv, CopyIsList
<1>3. listed[s] \in {Absent} \cup Entry
  BY <1>2 DEF SourcesInv, SourcesTyped
<1>d. doing \in [Writer -> {Idle} \cup Asking \cup Writing \cup Editing]
  BY DEF SourcesInv, SourcesTyped
<1>4. CASE Note(m) /\ listed[s] # Absent
  <2>1. PutEntry(m, s, [listed[s] EXCEPT !.hash = doing[m].hash]) /\ doing' = [doing EXCEPT ![m] = [@ EXCEPT !.at = "fetching"]]
    BY <1>2, <1>4 DEF Note
  <2>2. [listed[s] EXCEPT !.hash = doing[m].hash] \in Entry /\ [listed[s] EXCEPT !.hash = doing[m].hash].hash = doing[m].hash
    BY <1>2, <1>3, <1>4, EntryFields
  <2> QED BY <1>1, <1>2, <2>1, <2>2
<1>5. CASE Note(m) /\ listed[s] = Absent
  BY <1>1, <1>2, <1>5 DEF Note
<1>6. CASE AddBack(m) /\ listed[s] # Absent
  BY <1>1, <1>2, <1>3, <1>6 DEF AddBack
<1>7. CASE AddBack(m) /\ listed[s] = Absent
  <2>1. PutEntry(m, s, [NewEntry EXCEPT !.hash = doing[m].hash]) /\ doing' = [doing EXCEPT ![m] = [@ EXCEPT !.at = "fetching"]]
    BY <1>2, <1>7 DEF AddBack
  <2>2. [NewEntry EXCEPT !.hash = doing[m].hash] \in Entry /\ [NewEntry EXCEPT !.hash = doing[m].hash].hash = doing[m].hash
    BY <1>2, EntryFields
  <2> QED BY <1>1, <1>2, <2>1, <2>2
<1> QED BY <1>4, <1>5, <1>6, <1>7
\* The copy a writer holds is the list as it is, as long as it holds the lock.
LEMMA ListKept == SourcesInv /\ [SourcesNext]_sources => CopyIsList' /\ EditsKept'
<1> SUFFICES ASSUME SourcesInv, [SourcesNext]_sources PROVE CopyIsList' /\ EditsKept'
  OBVIOUS
<1>c. CopyIsList /\ EditsKept
  BY DEF SourcesInv
<1>t. copy \in [Writer -> {Absent} \cup [Source -> {Absent} \cup Entry]]
  BY DEF SourcesInv, SourcesTyped
<1>1. CASE UserWrites
  <2>1. \E s \in Source, entry \in {Absent} \cup Entry : PutEntry(User, s, entry)
    BY <1>1, UserPut
  <2> QED BY <2>1, Put, SourcesConstants DEF EditsKept
<1>2. ASSUME NEW m \in Manager, Note(m) \/ AddBack(m) PROVE CopyIsList' /\ EditsKept'
  <2>1. \E s \in Source, entry \in {Absent} \cup Entry : PutEntry(m, s, entry)
    BY <1>2, NotePut
  <2> QED BY <2>1, Put, SourcesConstants DEF EditsKept
<1>3. ASSUME NEW a \in Writer, TakeLock(a) PROVE CopyIsList' /\ EditsKept'
  <2>1. lock = Nobody /\ lock' = a /\ copy' = [copy EXCEPT ![a] = listed] /\ UNCHANGED <<listed, wrote>>
    BY <1>3 DEF TakeLock, TakeList
  <2>2. \A b \in Writer : copy[b] = Absent
    BY <1>c, <2>1, SourcesConstants DEF CopyIsList
  <2> QED BY <1>c, <1>t, <2>1, <2>2 DEF CopyIsList, EditsKept
<1>4. ASSUME NEW m \in Manager, NEW b \in BOOLEAN, Ends(m, b) PROVE CopyIsList' /\ EditsKept'
  <2>1. /\ copy' = [copy EXCEPT ![m] = Absent] /\ UNCHANGED <<listed, wrote>>
        /\ lock' = IF lock # m THEN lock ELSE IF b THEN "killed" ELSE Nobody
    BY <1>4 DEF Ends
  <2>2. \A a \in Writer : copy'[a] # Absent => copy[a] # Absent /\ a # m /\ copy'[a] = copy[a]
    BY <1>t, <2>1
  <2> QED BY <1>c, <2>1, <2>2 DEF CopyIsList, EditsKept
<1>5. CASE DialogEnds
  BY <1>5, <1>c, SourcesConstants DEF DialogEnds, CopyIsList, EditsKept
<1>6. ASSUME UNCHANGED <<listed, lock, copy, wrote>> PROVE CopyIsList' /\ EditsKept'
  BY <1>6, <1>c DEF CopyIsList, EditsKept
<1>7. ASSUME NEW s \in Source, \/ \E what \in {"add", "remove", "switch", "move", "repoint"} : UserEdits(s, what)
                              \/ \E tells \in {"rules", "move", "stop"} : Publish(s, tells)
                              \/ \E m \in Manager : Update(m, s) \/ DayPasses(m, s)
      PROVE  CopyIsList' /\ EditsKept'
  BY <1>6, <1>7 DEF UserEdits, Publish, Update, DayPasses
<1>8. ASSUME NEW m \in Manager, \/ OpenManager(m) \/ ManifestFails(m) \/ RuleComes(m) \/ RuleFails(m) \/ RuleSaved(m)
                               \/ \E b \in BOOLEAN : ManifestComes(m, b)
      PROVE  CopyIsList' /\ EditsKept'
  BY <1>6, <1>8 DEF OpenManager, ManifestFails, RuleComes, RuleFails, RuleSaved, ManifestComes
<1>9. CASE UNCHANGED sources
  BY <1>6, <1>9 DEF sources
<1> QED BY <1>1, <1>2, <1>3, <1>4, <1>5, <1>7, <1>8, <1>9 DEF SourcesNext

-----------------------------------------------------------------------------
(* What the steps do to the managers                                         *)

KnownType == [Manager -> {Absent} \cup [Source -> {Absent} \cup SourceState]]

\* What a poll makes of the state of a source is a state of a source.
LEMMA StateFields ==
  /\ \A r \in SourceState, h \in Nat : [r EXCEPT !.failures = h] \in SourceState
  /\ \A r \in SourceState : Failing(r) \in SourceState /\ Spent(r) \in SourceState /\ Failing(Spent(r)) \in SourceState
  /\ \A r \in SourceState : [r EXCEPT !.cooling = FALSE] \in SourceState /\ [r EXCEPT !.spent = 0, !.cooling = FALSE] \in SourceState
  /\ \A r \in SourceState, edition \in Nat, tells \in {"rules", "move", "stop"} :
       LET manifest == [edition |-> edition, tells |-> tells] IN
       Read(r, manifest) \in SourceState /\ (tells # "stop" => Read(r, manifest).hash = edition)
<1>1. \A r \in SourceState, h \in Nat : [r EXCEPT !.failures = h] \in SourceState
  BY DEF SourceState
<1>2. \A r \in SourceState : Spent(r) \in SourceState
  BY DEF SourceState, Spent
<1>d. DegradeAfter \in Nat
  BY SourcesAssumption
<1>3. \A r \in SourceState : Failing(r) \in SourceState
  <2> TAKE r \in SourceState
  <2> DEFINE n == IF r.failures < DegradeAfter THEN r.failures + 1 ELSE r.failures
             x == IF r.failures + 1 >= DegradeAfter THEN "degraded" ELSE r.state
             c == r.failures + 1 >= DegradeAfter \/ r.cooling
  <2>1. n \in Nat /\ x \in {"active", "degraded", "stopped", "moved"} /\ c \in BOOLEAN
    BY <1>d DEF SourceState
  <2>2. Failing(r) = [r EXCEPT !.failures = n, !.state = x, !.cooling = c]
    BY DEF Failing, SourceState
  <2> HIDE DEF n, x, c
  <2> QED BY <2>1, <2>2 DEF SourceState
<1>4. \A r \in SourceState : [r EXCEPT !.cooling = FALSE] \in SourceState /\ [r EXCEPT !.spent = 0, !.cooling = FALSE] \in SourceState
  BY DEF SourceState
<1>5. \A r \in SourceState, edition \in Nat, tells \in {"rules", "move", "stop"} :
       LET manifest == [edition |-> edition, tells |-> tells] IN
       Read(r, manifest) \in SourceState /\ (tells # "stop" => Read(r, manifest).hash = edition)
  <2> TAKE r \in SourceState, edition \in Nat, tells \in {"rules", "move", "stop"}
  <2> DEFINE manifest == [edition |-> edition, tells |-> tells]
  <2>1. CASE tells = "stop"
    BY <2>1 DEF SourceState, Read
  <2>2. CASE tells # "stop"
    <3> DEFINE x == IF tells = "move" THEN "moved" ELSE "active"
    <3>1. x \in {"active", "degraded", "stopped", "moved"}
      OBVIOUS
    <3>2. Read(r, manifest) = [r EXCEPT !.hash = edition, !.failures = 0, !.cooling = FALSE, !.state = x]
      BY <2>2 DEF Read
    <3> HIDE DEF x
    <3>5. Read(r, manifest) \in SourceState
      <4>1. [r EXCEPT !.hash = edition, !.failures = 0] \in SourceState
        BY DEF SourceState
      <4>2. \A q \in SourceState : [q EXCEPT !.cooling = FALSE, !.state = x] \in SourceState
        BY <3>1 DEF SourceState
      <4>3. Read(r, manifest) = [[r EXCEPT !.hash = edition, !.failures = 0] EXCEPT !.cooling = FALSE, !.state = x]
        BY <3>2 DEF SourceState
      <4> QED BY <4>1, <4>2, <4>3
    <3>6. Read(r, manifest).hash = edition
      BY <3>2 DEF SourceState
    <3> QED BY <3>5, <3>6
  <2> QED BY <2>1, <2>2
<1> QED BY <1>1, <1>2, <1>3, <1>4, <1>5

\* One entry of what a manager knows changes.
LEMMA KnownMoves ==
  ASSUME SourcesInv, NEW m \in Manager, NEW s \in Source, known[m] # Absent, known[m][s] \in SourceState,
         NEW r \in SourceState, known' = [known EXCEPT ![m][s] = r]
  PROVE  /\ known' \in KnownType
         /\ \A o \in Manager : known[o] # Absent => known'[o] # Absent
         /\ \A o \in Manager, z \in Source : known[o] # Absent /\ known[o][z] \in SourceState => known'[o][z] \in SourceState
<1>t. known \in KnownType
  BY DEF SourcesInv, SourcesTyped, KnownType
<1>1. known[m] \in [Source -> {Absent} \cup SourceState]
  BY <1>t DEF KnownType
<1>2. known' = [known EXCEPT ![m] = [known[m] EXCEPT ![s] = r]]
  BY <1>t, <1>1 DEF KnownType
<1> DEFINE q == [known[m] EXCEPT ![s] = r]
<1>3. q \in [Source -> {Absent} \cup SourceState] /\ \A z \in Source : known[m][z] \in SourceState => q[z] \in SourceState
  BY <1>1
<1>4. q # Absent
  BY <1>3, SourcesAssumption
<1> HIDE DEF q
<1> QED BY <1>t, <1>1, <1>2, <1>3, <1>4 DEF KnownType, q
\* What a manager is at changes for one manager only, but for the update that finds
\* others at its source.
LEMMA DoingMoves ==
  ASSUME SourcesInv, NEW m \in Manager, NEW r \in {Idle} \cup Asking \cup Writing, doing' = [doing EXCEPT ![m] = r]
  PROVE  /\ doing' \in [Writer -> {Idle} \cup Asking \cup Writing \cup Editing] /\ doing'[User] \in {Idle} \cup Editing
         /\ \A o \in Manager : doing'[o] \in {Idle} \cup Asking \cup Writing
         /\ doing'[m] = r /\ \A o \in Manager \ {m} : doing'[o] = doing[o]
<1>1. doing \in [Writer -> {Idle} \cup Asking \cup Writing \cup Editing] /\ m \in Writer /\ m # User /\ User \in Writer /\ Manager \subseteq Writer
  BY SourcesConstants DEF SourcesInv, SourcesTyped
<1>2. doing' \in [Writer -> {Idle} \cup Asking \cup Writing \cup Editing] /\ doing'[m] = r /\ \A a \in Writer \ {m} : doing'[a] = doing[a]
  BY <1>1
<1>3. doing'[User] = doing[User] /\ \A o \in Manager \ {m} : doing'[o] = doing[o]
  BY <1>1, <1>2
<1> QED BY <1>2, <1>3 DEF SourcesInv, SourcesTyped

\* What the user does leaves the tasks of the managers alone.
LEMMA UserMoves ==
  ASSUME SourcesInv, NEW r \in {Idle} \cup Editing, doing' = [doing EXCEPT ![User] = r]
  PROVE  /\ doing' \in [Writer -> {Idle} \cup Asking \cup Writing \cup Editing] /\ doing'[User] \in {Idle} \cup Editing
         /\ \A o \in Manager : doing'[o] \in {Idle} \cup Asking \cup Writing
         /\ \A o \in Manager : doing'[o] = doing[o]
<1>1. doing \in [Writer -> {Idle} \cup Asking \cup Writing \cup Editing] /\ User \notin Manager /\ User \in Writer /\ Manager \subseteq Writer
  BY SourcesConstants DEF SourcesInv, SourcesTyped
<1>2. doing' \in [Writer -> {Idle} \cup Asking \cup Writing \cup Editing] /\ doing'[User] = r /\ \A a \in Writer \ {User} : doing'[a] = doing[a]
  BY <1>1
<1>3. \A o \in Manager : doing'[o] = doing[o]
  BY <1>1, <1>2
<1> QED BY <1>2, <1>3 DEF SourcesInv, SourcesTyped

\* An update begins: who else is at the source is not alone any more.
LEMMA UpdateMoves ==
  ASSUME SourcesInv, NEW m \in Manager, NEW s \in Source, Update(m, s)
  PROVE  \/ /\ doing' = doing /\ spoilt' = spoilt
            /\ \E r \in SourceState : known' = [known EXCEPT ![m][s] = r]
         \/ /\ \E r \in SourceState : known' = [known EXCEPT ![m][s] = r]
            /\ doing[m] = Idle
            /\ doing' \in [Writer -> {Idle} \cup Asking \cup Writing \cup Editing] /\ doing'[User] = doing[User]
            /\ doing'[m] \in Asking /\ doing'[m].src = s
            /\ doing'[m].alone <=> \A o \in Manager \ {m} : ~BusyWith(o, s)
            /\ \A o \in Manager \ {m} :
                 IF BusyWith(o, s) THEN doing'[o] = [doing[o] EXCEPT !.alone = FALSE] ELSE doing'[o] = doing[o]
            /\ spoilt' = IF \A o \in Manager \ {m} : ~BusyWith(o, s) THEN spoilt ELSE spoilt \cup {s}
<1> DEFINE r == known[m][s]
           others == {o \in Manager \ {m} : BusyWith(o, s)}
<1>0. r \in SourceState /\ Spent(r) \in SourceState /\ Failing(Spent(r)) \in SourceState
  <2>1. known[m] # Absent /\ known[m][s] # Absent
    BY DEF Update, KnownTo
  <2>2. known[m] \in [Source -> {Absent} \cup SourceState]
    BY <2>1 DEF SourcesInv, SourcesTyped
  <2>3. r \in SourceState
    BY <2>1, <2>2
  <2> HIDE DEF r
  <2> QED BY <2>3, StateFields
<1>1. CASE r.state \in {"stopped", "moved"}
  BY <1>0, <1>1 DEF Update
<1>2. CASE r.state \notin {"stopped", "moved"}
  <2>1. /\ known' = [known EXCEPT ![m][s] = Spent(r)]
        /\ doing' = [a \in Writer |->
                  IF a = m THEN [at |-> "asking", src |-> s, alone |-> others = {}]
                  ELSE IF a \in others THEN [doing[a] EXCEPT !.alone = FALSE] ELSE doing[a]]
        /\ spoilt' = IF others = {} THEN spoilt ELSE spoilt \cup {s}
        /\ doing[m].at = "idle"
    BY <1>2 DEF Update
  <2>2. doing[m] = Idle
    BY <2>1, Places DEF SourcesInv
  <2>3. m \in Writer /\ User \in Writer /\ User \notin Manager /\ Manager \subseteq Writer
    BY SourcesConstants
  <2>4. others = {} <=> \A o \in Manager \ {m} : ~BusyWith(o, s)
    OBVIOUS
  <2>5. [at |-> "asking", src |-> s, alone |-> others = {}] \in Asking
    BY DEF Asking
  <2>6. \A a \in others : doing[a] \in Asking \cup Writing /\ [doing[a] EXCEPT !.alone = FALSE] \in Asking \cup Writing
    <3>1. \A a \in others : doing[a].at # "idle" /\ doing[a] \in {Idle} \cup Asking \cup Writing
      BY DEF BusyWith, SourcesInv, SourcesTyped
    <3>2. \A a \in others : doing[a] \in Asking \cup Writing
      BY <3>1, TaskFields
    <3> QED BY <3>2, TaskFields
  <2>7. User \notin others /\ \A o \in Manager \ {m} : o \in others <=> BusyWith(o, s)
    BY <2>3
  <2>8. [at |-> "asking", src |-> s, alone |-> others = {}].src = s /\ [at |-> "asking", src |-> s, alone |-> others = {}].alone = (others = {})
    OBVIOUS
  <2>9. doing \in [Writer -> {Idle} \cup Asking \cup Writing \cup Editing]
    BY DEF SourcesInv, SourcesTyped
  <2> HIDE DEF others
  <2>10. doing' \in [Writer -> {Idle} \cup Asking \cup Writing \cup Editing]
    BY <2>1, <2>5, <2>6, <2>9
  <2>11. doing'[m] = [at |-> "asking", src |-> s, alone |-> others = {}]
    BY <2>1, <2>3
  <2>12. doing'[User] = doing[User] /\ \A o \in Manager \ {m} : doing'[o] = IF o \in others THEN [doing[o] EXCEPT !.alone = FALSE] ELSE doing[o]
    BY <2>1, <2>3, <2>7
  <2>13. doing'[m] \in Asking /\ doing'[m].src = s /\ (doing'[m].alone <=> others = {})
    BY <2>5, <2>8, <2>11
  <2>14. \E q \in SourceState : known' = [known EXCEPT ![m][s] = q]
    BY <1>0, <2>1
  <2>15. \A o \in Manager \ {m} :
                 IF BusyWith(o, s) THEN doing'[o] = [doing[o] EXCEPT !.alone = FALSE] ELSE doing'[o] = doing[o]
    BY <2>7, <2>12
  <2>16. spoilt' = IF \A o \in Manager \ {m} : ~BusyWith(o, s) THEN spoilt ELSE spoilt \cup {s}
    BY <2>1, <2>4
  <2>17. doing'[m].alone <=> \A o \in Manager \ {m} : ~BusyWith(o, s)
    BY <2>4, <2>13
  <2> QED BY <2>2, <2>10, <2>12, <2>13, <2>14, <2>15, <2>16, <2>17
<1> QED BY <1>1, <1>2
DoingTyped ==
  /\ doing \in [Writer -> {Idle} \cup Asking \cup Writing \cup Editing] /\ doing[User] \in {Idle} \cup Editing
  /\ \A o \in Manager : doing[o] \in {Idle} \cup Asking \cup Writing
ListTyped ==
  /\ listed \in [Source -> {Absent} \cup Entry] /\ wrote \in [Source -> {Absent} \cup Entry]
  /\ copy \in [Writer -> {Absent} \cup [Source -> {Absent} \cup Entry]]
RestTyped ==
  /\ remote \in [Source -> [edition : Nat, tells : {"rules", "move", "stop"}]]
  /\ cache \in [Source -> Nat] /\ spoilt \subseteq Source

\* The types, in the parts that are proved one by one.
LEMMA TypedParts == SourcesTyped <=> DoingTyped /\ ListTyped /\ RestTyped /\ known \in KnownType
  BY DEF SourcesTyped, DoingTyped, ListTyped, RestTyped, KnownType

\* A manager at work has a task with a source.
LEMMA TaskSource ==
  ASSUME SourcesInv, NEW m \in Manager
  PROVE  /\ doing[m].at = "asking" => doing[m] \in Asking
         /\ doing[m].at \in {"noting", "adding", "fetching", "saving"} => doing[m] \in Writing
         /\ doing[m].at # "idle" => doing[m].src \in Source /\ doing[m] # Idle
         /\ doing[m].at = "idle" => doing[m] = Idle
<1>1. doing[m] = Idle \/ doing[m] \in Asking \/ doing[m] \in Writing
  BY DEF SourcesInv, SourcesTyped
<1> QED BY <1>1, TaskFields

\* Every step keeps the types of the list and its copies.
LEMMA ListTypes == SourcesInv /\ [SourcesNext]_sources => ListTyped'
<1> SUFFICES ASSUME SourcesInv, [SourcesNext]_sources PROVE ListTyped'
  OBVIOUS
<1>t. ListTyped
  BY TypedParts DEF SourcesInv
<1>0. ASSUME UNCHANGED <<listed, wrote, copy>> PROVE ListTyped'
  BY <1>0, <1>t DEF ListTyped
<1>1. ASSUME NEW a \in Writer, NEW s \in Source, NEW entry \in {Absent} \cup Entry, PutEntry(a, s, entry) PROVE ListTyped'
  <2>1. /\ listed' = [listed EXCEPT ![s] = entry] /\ wrote' = listed' /\ copy' = [copy EXCEPT ![a] = Absent]
    BY <1>1, Put
  <2> QED BY <1>t, <2>1 DEF ListTyped
<1>2. CASE UserWrites
  <2>1. \E s \in Source, entry \in {Absent} \cup Entry : PutEntry(User, s, entry)
    BY <1>2, UserPut
  <2> QED BY <2>1, <1>1, SourcesConstants
<1>3. ASSUME NEW m \in Manager, Note(m) \/ AddBack(m) PROVE ListTyped'
  <2>1. \E s \in Source, entry \in {Absent} \cup Entry : PutEntry(m, s, entry)
    BY <1>3, NotePut
  <2> QED BY <2>1, <1>1, SourcesConstants
<1>4. ASSUME NEW a \in Writer, TakeLock(a) PROVE ListTyped'
  BY <1>4, <1>t DEF TakeLock, TakeList, ListTyped
<1>5. ASSUME NEW m \in Manager, NEW b \in BOOLEAN, Ends(m, b) PROVE ListTyped'
  BY <1>5, <1>t DEF Ends, ListTyped
<1>6. CASE DialogEnds \/ UNCHANGED sources
  BY <1>0, <1>6 DEF DialogEnds, sources
<1>7. ASSUME NEW s \in Source, \/ \E what \in {"add", "remove", "switch", "move", "repoint"} : UserEdits(s, what)
                              \/ \E tells \in {"rules", "move", "stop"} : Publish(s, tells)
                              \/ \E m \in Manager : Update(m, s) \/ DayPasses(m, s)
      PROVE  ListTyped'
  BY <1>0, <1>7 DEF UserEdits, Publish, Update, DayPasses
<1>8. ASSUME NEW m \in Manager, \/ OpenManager(m) \/ ManifestFails(m) \/ RuleComes(m) \/ RuleFails(m) \/ RuleSaved(m)
                               \/ \E b \in BOOLEAN : ManifestComes(m, b)
      PROVE  ListTyped'
  BY <1>0, <1>8 DEF OpenManager, ManifestFails, RuleComes, RuleFails, RuleSaved, ManifestComes
<1> QED BY <1>2, <1>3, <1>4, <1>5, <1>6, <1>7, <1>8 DEF SourcesNext

\* The manifest of a source that a manager asked
LEMMA ManifestRead ==
  ASSUME SourcesInv, NEW m \in Manager, NEW b \in BOOLEAN, ManifestComes(m, b), NEW s, s = doing[m].src
  PROVE  /\ s \in Source /\ doing[m] \in Asking
         /\ \E r \in SourceState : known' = [known EXCEPT ![m][s] = r]
         /\ \/ doing' = [doing EXCEPT ![m] = Idle] /\ spoilt' = spoilt
            \/ \E r \in Writing :
                 /\ doing' = [doing EXCEPT ![m] = r]
                 /\ r.at = "noting" /\ r.src = s /\ r.alone = doing[m].alone
                 /\ \/ r.hash = r.edition /\ spoilt' = spoilt
                    \/ spoilt' = spoilt \cup {s}
<1>1. doing[m] \in Asking /\ s \in Source /\ doing[m].alone \in BOOLEAN
  BY TaskSource, TaskFields DEF ManifestComes
<1>2. known[m][s] \in SourceState
  BY <1>1, TaskFields DEF SourcesInv, BusyKnows
<1>3. /\ remote[s] = [edition |-> remote[s].edition, tells |-> remote[s].tells]
      /\ remote[s].edition \in Nat /\ remote[s].tells \in {"rules", "move", "stop"}
  BY <1>1 DEF SourcesInv, SourcesTyped
<1> DEFINE now == Read(known[m][s], remote[s])
<1>4. now \in SourceState /\ (remote[s].tells # "stop" => now.hash = remote[s].edition)
  <2>1. \A e \in Nat, t \in {"rules", "move", "stop"} : \A manifest : manifest = [edition |-> e, tells |-> t] =>
          Read(known[m][s], manifest) \in SourceState /\ (t # "stop" => Read(known[m][s], manifest).hash = e)
    BY <1>2, StateFields
  <2> QED BY <1>3, <2>1
<1>5. [now EXCEPT !.failures = 0] \in SourceState /\ now.hash \in Nat
  BY <1>4, StateFields DEF SourceState
<1> DEFINE task == [at |-> "noting", src |-> s, alone |-> doing[m].alone, hash |-> now.hash, edition |-> remote[s].edition]
<1>6. /\ task \in Writing /\ task.at = "noting" /\ task.src = s /\ task.alone = doing[m].alone
      /\ task.hash = now.hash /\ task.edition = remote[s].edition
  BY <1>1, <1>3, <1>5 DEF Writing
<1>7. /\ known' = [known EXCEPT ![m][s] = [now EXCEPT !.failures = 0]] \/ known' = [known EXCEPT ![m][s] = now]
      /\ \/ doing' = [doing EXCEPT ![m] = Idle] /\ spoilt' = spoilt
         \/ /\ doing' = [doing EXCEPT ![m] = task]
            /\ spoilt' = IF remote[s].tells = "stop" THEN spoilt \cup {s} ELSE spoilt
  BY DEF ManifestComes
<1> HIDE DEF now, task
<1>8. \E r \in SourceState : known' = [known EXCEPT ![m][s] = r]
  BY <1>4, <1>5, <1>7
<1>9. \/ doing' = [doing EXCEPT ![m] = Idle] /\ spoilt' = spoilt
      \/ \E r \in Writing :
           /\ doing' = [doing EXCEPT ![m] = r]
           /\ r.at = "noting" /\ r.src = s /\ r.alone = doing[m].alone
           /\ (r.hash = r.edition /\ spoilt' = spoilt) \/ spoilt' = spoilt \cup {s}
  BY <1>4, <1>6, <1>7
<1> QED BY <1>1, <1>8, <1>9
\* Every step keeps the types of the tasks, the lock and the cache.
LEMMA DoingTypes == SourcesInv /\ [SourcesNext]_sources => DoingTyped' /\ RestTyped'
<1> SUFFICES ASSUME SourcesInv, [SourcesNext]_sources PROVE DoingTyped' /\ RestTyped'
  OBVIOUS
<1>t. DoingTyped /\ RestTyped /\ Idle \in {Idle} \cup Asking \cup Writing
  BY TypedParts DEF SourcesInv
<1>i. Idle \in {Idle} \cup Editing
  OBVIOUS
<1>0. ASSUME doing' = doing, RestTyped' PROVE DoingTyped' /\ RestTyped'
  BY <1>0, <1>t DEF DoingTyped
<1>m. ASSUME NEW m \in Manager, NEW r \in {Idle} \cup Asking \cup Writing, doing' = [doing EXCEPT ![m] = r] PROVE DoingTyped'
  BY <1>m, DoingMoves DEF DoingTyped
<1>u. ASSUME NEW r \in {Idle} \cup Editing, doing' = [doing EXCEPT ![User] = r] PROVE DoingTyped'
  BY <1>u, UserMoves DEF DoingTyped
<1>s. ASSUME NEW m \in Manager PROVE Committed(m) => doing[m].src \in Source
  BY TaskSource DEF Committed
<1>1. CASE UserWrites
  <2>1. doing' = [doing EXCEPT ![User] = Idle] /\ doing[User].src \in Source
    BY <1>1, UserPut DEF UserWrites
  <2>2. RestTyped'
    BY <1>1, <1>t, <2>1 DEF UserWrites, RestTyped
  <2> QED BY <1>i, <1>u, <2>1, <2>2
<1>2. ASSUME NEW m \in Manager, Note(m) \/ AddBack(m) PROVE DoingTyped' /\ RestTyped'
  <2>d. doing[m] \in Writing /\ doing \in [Writer -> {Idle} \cup Asking \cup Writing \cup Editing] /\ m \in Writer
    BY <1>2, <1>t, NotePut, SourcesConstants DEF DoingTyped
  <2>e. [doing[m] EXCEPT !.at = "fetching"] \in Writing /\ [doing[m] EXCEPT !.at = "adding"] \in Writing
    BY <2>d, TaskFields
  <2>f. \/ doing' = [doing EXCEPT ![m] = [doing[m] EXCEPT !.at = "fetching"]]
        \/ doing' = [doing EXCEPT ![m] = [doing[m] EXCEPT !.at = "adding"]]
        \/ doing' = [doing EXCEPT ![m] = Idle]
    BY <1>2, <2>d, NotePut
  <2>1. \E r \in {Idle} \cup Asking \cup Writing : doing' = [doing EXCEPT ![m] = r]
    BY <2>e, <2>f
  <2>2. RestTyped'
    BY <1>2, <1>t DEF Note, AddBack, RestTyped
  <2> QED BY <1>m, <2>1, <2>2
<1>3. ASSUME NEW a \in Writer, TakeLock(a) PROVE DoingTyped' /\ RestTyped'
  BY <1>3, <1>0, <1>t DEF TakeLock, RestTyped
<1>4. ASSUME NEW m \in Manager, NEW b \in BOOLEAN, Ends(m, b) PROVE DoingTyped' /\ RestTyped'
  <2>1. RestTyped'
    BY <1>4, <1>t, <1>s DEF Ends, RestTyped
  <2> QED BY <1>4, <1>m, <1>t, <2>1 DEF Ends
<1>5. CASE DialogEnds \/ UNCHANGED sources
  BY <1>0, <1>5, <1>t DEF DialogEnds, sources, RestTyped
<1>6. ASSUME NEW s \in Source, NEW what \in {"add", "remove", "switch", "move", "repoint"}, UserEdits(s, what)
      PROVE  DoingTyped' /\ RestTyped'
  <2>1. [at |-> "editing", src |-> s, what |-> what] \in Editing
    BY DEF Editing
  <2>2. RestTyped'
    BY <1>6, <1>t DEF UserEdits, RestTyped
  <2> QED BY <1>6, <1>u, <2>1, <2>2 DEF UserEdits
<1>7. ASSUME NEW s \in Source, NEW tells \in {"rules", "move", "stop"}, Publish(s, tells) PROVE DoingTyped' /\ RestTyped'
  <2>1. remote' = [remote EXCEPT ![s] = [edition |-> remote[s].edition + 1, tells |-> tells]]
    BY <1>7, <1>t DEF Publish, RestTyped
  <2>2. remote[s].edition + 1 \in Nat
    BY <1>t DEF RestTyped
  <2>3. RestTyped'
    BY <1>7, <1>t, <2>1, <2>2 DEF Publish, RestTyped
  <2> QED BY <1>0, <1>7, <2>3 DEF Publish
<1>8. ASSUME NEW m \in Manager, NEW s \in Source, Update(m, s) PROVE DoingTyped' /\ RestTyped'
  <2>1. RestTyped'
    BY <1>8, <1>t, UpdateMoves DEF Update, RestTyped
  <2>2. \A o \in Manager : BusyWith(o, s) => [doing[o] EXCEPT !.alone = FALSE] \in Asking \cup Writing
    <3>1. \A o \in Manager : BusyWith(o, s) => doing[o] \in Asking \cup Writing
      BY <1>t, TaskFields DEF BusyWith, DoingTyped
    <3> QED BY <3>1, TaskFields
  <2>3. DoingTyped'
    <3>1. CASE doing' = doing
      BY <1>t, <3>1 DEF DoingTyped
    <3>2. CASE /\ doing' \in [Writer -> {Idle} \cup Asking \cup Writing \cup Editing] /\ doing'[User] = doing[User]
               /\ doing'[m] \in Asking
               /\ \A o \in Manager \ {m} :
                    IF BusyWith(o, s) THEN doing'[o] = [doing[o] EXCEPT !.alone = FALSE] ELSE doing'[o] = doing[o]
      <4>1. \A o \in Manager \ {m} : doing'[o] \in {Idle} \cup Asking \cup Writing
        BY <1>t, <2>2, <3>2 DEF DoingTyped
      <4>2. \A o \in Manager : doing'[o] \in {Idle} \cup Asking \cup Writing
        BY <3>2, <4>1
      <4> QED BY <1>t, <3>2, <4>2 DEF DoingTyped
    <3> QED BY <1>8, <3>1, <3>2, UpdateMoves
  <2> QED BY <2>1, <2>3
<1>9. ASSUME NEW m \in Manager, NEW s \in Source, DayPasses(m, s) PROVE DoingTyped' /\ RestTyped'
  BY <1>0, <1>9, <1>t DEF DayPasses, RestTyped
<1>10. ASSUME NEW m \in Manager, OpenManager(m) PROVE DoingTyped' /\ RestTyped'
  BY <1>0, <1>10, <1>t DEF OpenManager, RestTyped
<1>11. ASSUME NEW m \in Manager, ManifestFails(m) \/ RuleFails(m) PROVE DoingTyped' /\ RestTyped'
  <2>1. RestTyped'
    BY <1>11, <1>s, <1>t DEF ManifestFails, RuleFails, RestTyped
  <2> QED BY <1>11, <1>m, <1>t, <2>1 DEF ManifestFails, RuleFails
<1>12. ASSUME NEW m \in Manager, RuleSaved(m) PROVE DoingTyped' /\ RestTyped'
  <2>1. doing[m] \in Writing
    BY <1>12, TaskSource DEF RuleSaved
  <2>2. doing[m].edition \in Nat
    BY <2>1, TaskFields
  <2>3. RestTyped'
    BY <1>12, <1>t, <2>2 DEF RuleSaved, RestTyped
  <2> QED BY <1>12, <1>m, <1>t, <2>3 DEF RuleSaved
<1>13. ASSUME NEW m \in Manager, RuleComes(m) PROVE DoingTyped' /\ RestTyped'
  <2>1. doing[m] \in Writing
    BY <1>13, TaskSource DEF RuleComes
  <2>2. [doing[m] EXCEPT !.at = "saving"] \in Writing
    BY <2>1, TaskFields
  <2>3. doing' = [doing EXCEPT ![m] = [doing[m] EXCEPT !.at = "saving"]]
    BY <1>13, <1>t, SourcesConstants DEF RuleComes, DoingTyped
  <2>4. RestTyped'
    BY <1>13, <1>t DEF RuleComes, RestTyped
  <2> QED BY <1>m, <2>2, <2>3, <2>4
<1>14. ASSUME NEW m \in Manager, NEW b \in BOOLEAN, ManifestComes(m, b) PROVE DoingTyped' /\ RestTyped'
  <2>1. doing[m].src \in Source /\ spoilt' \in {spoilt, spoilt \cup {doing[m].src}}
    BY <1>14, ManifestRead
  <2>2. RestTyped'
    BY <1>14, <1>t, <2>1 DEF ManifestComes, RestTyped
  <2>3. \E r \in {Idle} \cup Asking \cup Writing : doing' = [doing EXCEPT ![m] = r]
    BY <1>14, ManifestRead
  <2> QED BY <1>m, <2>2, <2>3
<1> QED
  BY <1>1, <1>2, <1>3, <1>4, <1>5, <1>6, <1>7, <1>8, <1>9, <1>10, <1>11, <1>12, <1>13, <1>14 DEF SourcesNext

\* Every step keeps the types of what a manager knows, and a manager at work knows its source.
LEMMA KnownTypes == SourcesInv /\ [SourcesNext]_sources => known' \in KnownType /\ BusyKnows'
<1> SUFFICES ASSUME SourcesInv, [SourcesNext]_sources PROVE known' \in KnownType /\ BusyKnows'
  OBVIOUS
<1>t. known \in KnownType /\ BusyKnows
  BY TypedParts DEF SourcesInv
<1>0. ASSUME known' = known,
             \A o \in Manager : doing'[o] = Idle \/ (doing[o] # Idle /\ doing'[o].src = doing[o].src)
      PROVE  known' \in KnownType /\ BusyKnows'
  BY <1>0, <1>t DEF BusyKnows
<1>k. ASSUME NEW m \in Manager, NEW s \in Source, known[m] # Absent, known[m][s] \in SourceState, NEW r \in SourceState, known' = [known EXCEPT ![m][s] = r],
             \A o \in Manager : doing'[o] = Idle \/ (doing[o] # Idle /\ doing'[o].src = doing[o].src) \/ (o = m /\ doing'[o].src = s)
      PROVE  known' \in KnownType /\ BusyKnows'
  <2>1. /\ known' \in KnownType
        /\ \A o \in Manager : known[o] # Absent => known'[o] # Absent
        /\ \A o \in Manager, z \in Source : known[o] # Absent /\ known[o][z] \in SourceState => known'[o][z] \in SourceState
    BY <1>k, KnownMoves
  <2>2. \A o \in Manager : doing[o] # Idle => doing[o].src \in Source
    BY TaskSource
  <2>3. \A o \in Manager : doing[o] # Idle => known[o] # Absent /\ known[o][doing[o].src] \in SourceState
    BY <1>t DEF BusyKnows
  <2>4. ASSUME NEW o \in Manager, doing'[o] # Idle PROVE known'[o] # Absent /\ known'[o][doing'[o].src] \in SourceState
    <3>1. CASE doing[o] # Idle /\ doing'[o].src = doing[o].src
      BY <2>1, <2>2, <2>3, <3>1
    <3>2. CASE o = m /\ doing'[o].src = s
      BY <1>k, <2>1, <3>2
    <3> QED BY <1>k, <2>4, <3>1, <3>2
  <2> QED BY <2>1, <2>4 DEF BusyKnows
<1>n. \A m \in Manager, s \in Source : KnownTo(m, s) => known[m] # Absent /\ known[m][s] \in SourceState
  <2> SUFFICES ASSUME NEW m \in Manager, NEW s \in Source, known[m] # Absent, known[m][s] # Absent PROVE known[m][s] \in SourceState
    BY DEF KnownTo
  <2>1. known[m] \in [Source -> {Absent} \cup SourceState]
    BY <1>t DEF KnownType
  <2> QED BY <2>1
<1>m. ASSUME NEW m \in Manager, NEW r \in {Idle} \cup Asking \cup Writing, doing' = [doing EXCEPT ![m] = r],
             r = Idle \/ (doing[m] # Idle /\ r.src = doing[m].src)
      PROVE  \A o \in Manager : doing'[o] = Idle \/ (doing[o] # Idle /\ doing'[o].src = doing[o].src)
  <2>1. doing'[m] = r /\ \A o \in Manager \ {m} : doing'[o] = doing[o]
    BY <1>m, DoingMoves
  <2> QED BY <1>m, <2>1
<1>1. CASE UserWrites
  <2>1. doing' = [doing EXCEPT ![User] = Idle] /\ known' = known
    BY <1>1 DEF UserWrites
  <2> QED BY <1>0, <2>1, UserMoves
<1>2. ASSUME NEW m \in Manager, Note(m) \/ AddBack(m) PROVE known' \in KnownType /\ BusyKnows'
  <2>1. doing[m] \in Writing /\ doing[m] # Idle
    BY <1>2, NotePut, TaskFields
  <2>2. doing' \in {[doing EXCEPT ![m] = [@ EXCEPT !.at = x]] : x \in {"fetching", "adding"}} \/ doing' = [doing EXCEPT ![m] = Idle]
    BY <1>2, NotePut
  <2>3. ASSUME NEW x \in {"fetching", "adding"}, doing' = [doing EXCEPT ![m] = [@ EXCEPT !.at = x]]
        PROVE  \A o \in Manager : doing'[o] = Idle \/ (doing[o] # Idle /\ doing'[o].src = doing[o].src)
    <3>x. x \in {"noting", "adding", "fetching", "saving"}
      BY <2>3
    <3>1. [doing[m] EXCEPT !.at = x] \in Writing /\ [doing[m] EXCEPT !.at = x].src = doing[m].src
      BY <2>1, <3>x DEF Writing
    <3>2. doing' = [doing EXCEPT ![m] = [doing[m] EXCEPT !.at = x]]
      BY <2>3, SourcesConstants DEF SourcesInv, SourcesTyped
    <3> QED BY <1>m, <2>1, <3>1, <3>2
  <2>4. known' = known
    BY <1>2 DEF Note, AddBack
  <2> QED BY <1>0, <1>m, <2>2, <2>3, <2>4
<1>3. ASSUME NEW a \in Writer, TakeLock(a) PROVE known' \in KnownType /\ BusyKnows'
  BY <1>3, <1>0 DEF TakeLock, TakeList
<1>4. ASSUME NEW m \in Manager, NEW b \in BOOLEAN, Ends(m, b) PROVE known' \in KnownType /\ BusyKnows'
  <2>1. doing' = [doing EXCEPT ![m] = Idle] /\ known' = [known EXCEPT ![m] = Absent]
    BY <1>4 DEF Ends
  <2>2. doing'[m] = Idle /\ \A o \in Manager \ {m} : doing'[o] = doing[o]
    BY <2>1, DoingMoves
  <2> QED BY <1>t, <2>1, <2>2 DEF KnownType, BusyKnows
<1>5. CASE DialogEnds \/ UNCHANGED sources
  BY <1>0, <1>5 DEF DialogEnds, sources
<1>6. ASSUME NEW s \in Source, NEW what \in {"add", "remove", "switch", "move", "repoint"}, UserEdits(s, what)
      PROVE  known' \in KnownType /\ BusyKnows'
  <2>1. [at |-> "editing", src |-> s, what |-> what] \in Editing
    BY DEF Editing
  <2> QED BY <1>0, <1>6, <2>1, UserMoves DEF UserEdits
<1>7. ASSUME NEW s \in Source, NEW tells \in {"rules", "move", "stop"}, Publish(s, tells) PROVE known' \in KnownType /\ BusyKnows'
  BY <1>0, <1>7 DEF Publish
<1>8. ASSUME NEW m \in Manager, NEW s \in Source, Update(m, s) PROVE known' \in KnownType /\ BusyKnows'
  <2>1. known[m] # Absent /\ known[m][s] \in SourceState
    BY <1>8, <1>n DEF Update
  <2>2. \E r \in SourceState : known' = [known EXCEPT ![m][s] = r]
    BY <1>8, UpdateMoves
  <2>3. \A o \in Manager : BusyWith(o, s) => doing[o] # Idle /\ [doing[o] EXCEPT !.alone = FALSE].src = doing[o].src
    <3>1. \A o \in Manager : BusyWith(o, s) => doing[o] \in Asking \cup Writing
      BY TaskFields DEF BusyWith, SourcesInv, SourcesTyped
    <3> QED BY <3>1, TaskFields
  <2>4. \A o \in Manager : doing'[o] = Idle \/ (doing[o] # Idle /\ doing'[o].src = doing[o].src) \/ (o = m /\ doing'[o].src = s)
    <3>1. CASE doing' = doing
      BY <3>1
    <3>2. CASE /\ doing'[m].src = s
               /\ \A o \in Manager \ {m} :
                    IF BusyWith(o, s) THEN doing'[o] = [doing[o] EXCEPT !.alone = FALSE] ELSE doing'[o] = doing[o]
      <4>1. \A o \in Manager \ {m} : doing'[o] = doing[o] \/ (doing[o] # Idle /\ doing'[o].src = doing[o].src)
        BY <2>3, <3>2
      <4> QED BY <3>2, <4>1
    <3> QED BY <1>8, <3>1, <3>2, UpdateMoves
  <2>5. PICK r \in SourceState : known' = [known EXCEPT ![m][s] = r]
    BY <2>2
  <2> QED BY <1>k, <2>1, <2>4, <2>5
<1>9. ASSUME NEW m \in Manager, NEW s \in Source, DayPasses(m, s) PROVE known' \in KnownType /\ BusyKnows'
  <2>1. known[m] # Absent /\ known[m][s] \in SourceState
    BY <1>9, <1>n DEF DayPasses
  <2>2. /\ [known[m][s] EXCEPT !.cooling = FALSE] \in SourceState
        /\ [known[m][s] EXCEPT !.spent = 0, !.cooling = FALSE] \in SourceState
    BY <2>1, StateFields
  <2>3. \/ known' = [known EXCEPT ![m][s] = [known[m][s] EXCEPT !.cooling = FALSE]]
        \/ known' = [known EXCEPT ![m][s] = [known[m][s] EXCEPT !.spent = 0, !.cooling = FALSE]]
    <3>1. CASE known' = [known EXCEPT ![m][s].cooling = FALSE]
      BY <1>t, <3>1 DEF KnownType
    <3>2. CASE known' = [known EXCEPT ![m][s].spent = 0, ![m][s].cooling = FALSE]
      BY <1>t, <2>1, <3>2 DEF KnownType
    <3> QED BY <1>9, <3>1, <3>2 DEF DayPasses
  <2>4. doing' = doing
    BY <1>9 DEF DayPasses
  <2> QED BY <1>k, <2>1, <2>2, <2>3, <2>4
<1>10. ASSUME NEW m \in Manager, OpenManager(m) PROVE known' \in KnownType /\ BusyKnows'
  <2>1. known[m] = Absent /\ doing' = doing
    BY <1>10 DEF OpenManager
  <2>2. \A s \in Source : listed[s] \in {Absent} \cup Entry
    BY DEF SourcesInv, SourcesTyped
  <2> DEFINE new == [s \in Source |-> IF listed[s] = Absent \/ (listed[s] # Absent /\ listed[s].switched) THEN Absent
                         ELSE [state |-> "active", hash |-> listed[s].hash, failures |-> 0, cooling |-> FALSE, spent |-> 0]]
  <2>3. \A s \in Source : listed[s] # Absent =>
          [state |-> "active", hash |-> listed[s].hash, failures |-> 0, cooling |-> FALSE, spent |-> 0] \in SourceState
    BY <2>2 DEF Entry, SourceState
  <2>4. new \in [Source -> {Absent} \cup SourceState]
    BY <2>3
  <2>5. known' = [known EXCEPT ![m] = new]
    BY <1>10 DEF OpenManager
  <2> HIDE DEF new
  <2>6. doing[m] = Idle
    BY <1>t, <2>1 DEF BusyKnows
  <2> QED BY <1>t, <2>1, <2>4, <2>5, <2>6 DEF KnownType, BusyKnows
<1>11. ASSUME NEW m \in Manager, ManifestFails(m) PROVE known' \in KnownType /\ BusyKnows'
  <2> DEFINE s == doing[m].src
  <2>1. s \in Source /\ doing[m] # Idle
    BY <1>11, TaskSource DEF ManifestFails
  <2>2. known[m] # Absent /\ known[m][s] \in SourceState
    BY <1>t, <2>1 DEF BusyKnows
  <2>3. Failing(known[m][s]) \in SourceState
    BY <2>2, StateFields
  <2>4. known[m] \in [Source -> {Absent} \cup SourceState]
    BY <1>t, <2>2 DEF KnownType
  <2>5. known' = [known EXCEPT ![m][s] = Failing(known[m][s])]
    BY <1>11, <1>t, <2>1, <2>4 DEF ManifestFails, KnownType
  <2>6. \A o \in Manager : doing'[o] = Idle \/ (doing[o] # Idle /\ doing'[o].src = doing[o].src)
    BY <1>11, <1>m DEF ManifestFails
  <2> HIDE DEF s
  <2> QED BY <1>k, <2>1, <2>2, <2>3, <2>5, <2>6
<1>12. ASSUME NEW m \in Manager, RuleFails(m) \/ RuleSaved(m) PROVE known' \in KnownType /\ BusyKnows'
  <2>1. doing' = [doing EXCEPT ![m] = Idle] /\ known' = known
    BY <1>12 DEF RuleFails, RuleSaved
  <2> QED BY <1>0, <1>m, <2>1
<1>13. ASSUME NEW m \in Manager, RuleComes(m) PROVE known' \in KnownType /\ BusyKnows'
  <2>1. doing[m] \in Writing
    BY <1>13, TaskSource DEF RuleComes
  <2>2. [doing[m] EXCEPT !.at = "saving"] \in Writing /\ [doing[m] EXCEPT !.at = "saving"].src = doing[m].src /\ doing[m] # Idle
    BY <2>1, TaskFields
  <2>3. doing' = [doing EXCEPT ![m] = [doing[m] EXCEPT !.at = "saving"]] /\ known' = known
    BY <1>13, SourcesConstants DEF RuleComes, SourcesInv, SourcesTyped
  <2> QED BY <1>0, <1>m, <2>2, <2>3
<1>14. ASSUME NEW m \in Manager, NEW b \in BOOLEAN, ManifestComes(m, b) PROVE known' \in KnownType /\ BusyKnows'
  <2> DEFINE s == doing[m].src
  <2>1. s \in Source /\ doing[m] \in Asking /\ doing[m] # Idle
    BY <1>14, ManifestRead, TaskFields
  <2>2. known[m] # Absent /\ known[m][s] \in SourceState
    BY <1>t, <2>1 DEF BusyKnows
  <2>3. \E r \in SourceState : known' = [known EXCEPT ![m][s] = r]
    BY <1>14, ManifestRead
  <2>4. \E r \in {Idle} \cup Asking \cup Writing : doing' = [doing EXCEPT ![m] = r] /\ (r = Idle \/ r.src = s)
    BY <1>14, ManifestRead
  <2>5. \A o \in Manager : doing'[o] = Idle \/ (doing[o] # Idle /\ doing'[o].src = doing[o].src)
    BY <1>m, <2>1, <2>4
  <2> HIDE DEF s
  <2>6. PICK r \in SourceState : known' = [known EXCEPT ![m][s] = r]
    BY <2>3
  <2> QED BY <1>k, <2>1, <2>2, <2>5, <2>6
<1> QED
  BY <1>1, <1>2, <1>3, <1>4, <1>5, <1>6, <1>7, <1>8, <1>9, <1>10, <1>11, <1>12, <1>13, <1>14 DEF SourcesNext

-----------------------------------------------------------------------------
(* Updates and the hashes they keep                                          *)

\* A step in which no manager comes to a source, and none that is at one is put off its
\* hash, leaves the updates as they are.
LEMMA AloneKept ==
  ASSUME SourcesInv, spoilt \subseteq spoilt',
         \A o \in Manager : \/ doing'[o] = Idle
                            \/ /\ doing[o] # Idle /\ doing'[o] # Idle
                               /\ doing'[o].src = doing[o].src /\ doing'[o].alone = doing[o].alone
                               /\ \/ doing'[o] \notin Writing \/ doing'[o].src \in spoilt' \/ doing'[o].hash = doing'[o].edition
                                  \/ doing[o] \in Writing /\ doing'[o].hash = doing[o].hash /\ doing'[o].edition = doing[o].edition
  PROVE  AloneIs'
<1>1. \A o \in Manager : doing[o] # Idle <=> doing[o].at # "idle"
  BY TaskSource, TaskFields
<1>2. \A o \in Manager, s \in Source : BusyWith(o, s)' => BusyWith(o, s) /\ doing'[o] # Idle
  BY <1>1, TaskFields DEF BusyWith
<1>3. \A m, o \in Manager : \A s \in Source : BusyWith(m, s)' /\ BusyWith(o, s)' /\ doing'[m].alone => m = o
  BY <1>2 DEF SourcesInv, AloneIs
<1>4. ASSUME NEW m \in Manager, NEW s \in Source \ spoilt', BusyWith(m, s)'
      PROVE  doing'[m].alone /\ (doing'[m] \in Writing => doing'[m].hash = doing'[m].edition)
  <2>1. BusyWith(m, s) /\ doing'[m] # Idle /\ s \notin spoilt /\ doing'[m].src = s
    BY <1>2, <1>4 DEF BusyWith
  <2>2. doing[m].alone /\ (doing[m] \in Writing => doing[m].hash = doing[m].edition)
    BY <2>1 DEF SourcesInv, AloneIs
  <2> QED BY <1>4, <2>1, <2>2
<1> QED BY <1>3, <1>4 DEF AloneIs

\* An update is alone until somebody else begins one of the same source, or the user changes it.
LEMMA AloneSteps == SourcesInv /\ [SourcesNext]_sources => AloneIs'
<1> SUFFICES ASSUME SourcesInv, [SourcesNext]_sources PROVE AloneIs'
  OBVIOUS
<1>a. AloneIs
  BY DEF SourcesInv
<1>0. ASSUME \A o \in Manager : doing'[o] = doing[o], spoilt \subseteq spoilt' PROVE AloneIs'
  BY <1>0, <1>a DEF AloneIs, BusyWith
<1>i. ASSUME NEW m \in Manager, doing' = [doing EXCEPT ![m] = Idle], spoilt \subseteq spoilt' PROVE AloneIs'
  <2>1. doing'[m] = Idle /\ \A o \in Manager \ {m} : doing'[o] = doing[o]
    BY <1>i, DoingMoves
  <2>2. \A o \in Manager : doing'[o] = Idle \/ (doing[o] # Idle /\ doing'[o] = doing[o])
    BY <2>1
  <2> QED BY <1>i, <2>2, AloneKept
<1>w. ASSUME NEW m \in Manager, NEW r \in Writing, doing' = [doing EXCEPT ![m] = r], spoilt \subseteq spoilt',
             doing[m] # Idle, r.src = doing[m].src, r.alone = doing[m].alone,
             \/ r.hash = r.edition \/ r.src \in spoilt'
             \/ doing[m] \in Writing /\ r.hash = doing[m].hash /\ r.edition = doing[m].edition
      PROVE  AloneIs'
  <2>a. r \in {Idle} \cup Asking \cup Writing /\ r # Idle
    BY <1>w, TaskFields
  <2>1. doing'[m] = r /\ (\A o \in Manager \ {m} : doing'[o] = doing[o]) /\ r # Idle
    BY <1>w, <2>a, DoingMoves
  <2>2. \A o \in Manager \ {m} : doing'[o] = Idle \/ (doing[o] # Idle /\ doing'[o] = doing[o])
    BY <2>1
  <2> QED BY <1>w, <2>1, <2>2, AloneKept
<1>1. CASE UserWrites
  <2>1. doing' = [doing EXCEPT ![User] = Idle] /\ spoilt \subseteq spoilt'
    BY <1>1 DEF UserWrites
  <2> QED BY <1>0, <2>1, UserMoves
<1>2. ASSUME NEW m \in Manager, Note(m) \/ AddBack(m) PROVE AloneIs'
  <2>1. doing[m] \in Writing /\ doing[m] # Idle /\ spoilt' = spoilt
    BY <1>2, NotePut, TaskFields DEF Note, AddBack
  <2>2. \/ doing' = [doing EXCEPT ![m] = [doing[m] EXCEPT !.at = "fetching"]]
        \/ doing' = [doing EXCEPT ![m] = [doing[m] EXCEPT !.at = "adding"]]
        \/ doing' = [doing EXCEPT ![m] = Idle]
    BY <1>2, NotePut, SourcesConstants DEF SourcesInv, SourcesTyped
  <2>3. ASSUME NEW x \in {"fetching", "adding"}, doing' = [doing EXCEPT ![m] = [doing[m] EXCEPT !.at = x]] PROVE AloneIs'
    <3> DEFINE r == [doing[m] EXCEPT !.at = x]
    <3>1. r \in Writing /\ r.src = doing[m].src /\ r.alone = doing[m].alone /\ r.hash = doing[m].hash /\ r.edition = doing[m].edition
      BY <2>1 DEF Writing
    <3>2. doing' = [doing EXCEPT ![m] = r]
      BY <2>3
    <3> HIDE DEF r
    <3> QED BY <1>w, <2>1, <3>1, <3>2
  <2> QED BY <1>i, <2>1, <2>2, <2>3
<1>3. ASSUME NEW a \in Writer, TakeLock(a) PROVE AloneIs'
  BY <1>3, <1>0 DEF TakeLock, TakeList
<1>4. ASSUME NEW m \in Manager, NEW b \in BOOLEAN, Ends(m, b) PROVE AloneIs'
  BY <1>4, <1>i DEF Ends
<1>5. CASE DialogEnds \/ UNCHANGED sources
  BY <1>0, <1>5 DEF DialogEnds, sources
<1>6. ASSUME NEW s \in Source, NEW what \in {"add", "remove", "switch", "move", "repoint"}, UserEdits(s, what)
      PROVE  AloneIs'
  <2>1. [at |-> "editing", src |-> s, what |-> what] \in Editing
    BY DEF Editing
  <2>2. spoilt \subseteq spoilt'
    BY <1>6 DEF UserEdits
  <2> QED BY <1>0, <1>6, <2>1, <2>2, UserMoves DEF UserEdits
<1>7. ASSUME NEW s \in Source, NEW tells \in {"rules", "move", "stop"}, Publish(s, tells) PROVE AloneIs'
  BY <1>0, <1>7 DEF Publish
<1>8. ASSUME NEW m \in Manager, NEW s \in Source, Update(m, s) PROVE AloneIs'
  <2>1. CASE doing' = doing /\ spoilt' = spoilt
    BY <1>0, <2>1
  <2>2. CASE /\ doing[m] = Idle /\ doing'[m] \in Asking /\ doing'[m].src = s
             /\ doing'[m].alone <=> \A o \in Manager \ {m} : ~BusyWith(o, s)
             /\ \A o \in Manager \ {m} :
                  IF BusyWith(o, s) THEN doing'[o] = [doing[o] EXCEPT !.alone = FALSE] ELSE doing'[o] = doing[o]
             /\ spoilt' = IF \A o \in Manager \ {m} : ~BusyWith(o, s) THEN spoilt ELSE spoilt \cup {s}
    <3>1. \A z \in Source : BusyWith(m, z)' => z = s
      BY <2>2 DEF BusyWith
    <3>2. \A o \in Manager \ {m} : BusyWith(o, s) => doing[o] \in Asking \cup Writing
      BY TaskFields DEF BusyWith, SourcesInv, SourcesTyped
    <3>r. \A r \in Asking \cup Writing : [r EXCEPT !.alone = FALSE].src = r.src /\ ~[r EXCEPT !.alone = FALSE].alone
      BY DEF Asking, Writing
    <3>3. \A o \in Manager \ {m} : BusyWith(o, s) => doing'[o].src = s /\ ~doing'[o].alone
      BY <2>2, <3>2, <3>r DEF BusyWith
    <3>4. \A o \in Manager \ {m} : ~BusyWith(o, s) => doing'[o] = doing[o]
      BY <2>2
    <3>5. \A o \in Manager \ {m} : \A z \in Source : BusyWith(o, z)' => BusyWith(o, z)
      <4>1. \A o \in Manager \ {m} : \A z \in Source : BusyWith(o, s) /\ BusyWith(o, z)' => z = s
        BY <3>3 DEF BusyWith
      <4>2. \A o \in Manager \ {m} : \A z \in Source : ~BusyWith(o, s) /\ BusyWith(o, z)' => BusyWith(o, z)
        BY <3>4 DEF BusyWith
      <4> QED BY <4>1, <4>2
    <3>6. ASSUME NEW p \in Manager, NEW o \in Manager, NEW z \in Source, BusyWith(p, z)', BusyWith(o, z)', doing'[p].alone
          PROVE  p = o
      <4>1. CASE p = m
        <5>1. z = s /\ \A q \in Manager \ {m} : ~BusyWith(q, s)
          BY <2>2, <3>1, <3>6, <4>1
        <5> QED BY <3>5, <3>6, <4>1, <5>1
      <4>2. CASE p # m /\ o # m
        <5>1. BusyWith(p, z) /\ BusyWith(o, z)
          BY <3>5, <3>6, <4>2
        <5>2. ~BusyWith(p, s)
          BY <3>3, <3>6, <4>2
        <5>3. doing'[p] = doing[p]
          BY <3>4, <4>2, <5>2
        <5> QED BY <1>a, <3>6, <5>1, <5>3 DEF AloneIs
      <4>3. CASE p # m /\ o = m
        <5>1. z = s /\ BusyWith(p, s)
          BY <3>1, <3>5, <3>6, <4>3
        <5> QED BY <3>3, <3>6, <4>3, <5>1
      <4> QED BY <4>1, <4>2, <4>3
    <3>7. ASSUME NEW p \in Manager, NEW z \in Source \ spoilt', BusyWith(p, z)'
          PROVE  doing'[p].alone /\ (doing'[p] \in Writing => doing'[p].hash = doing'[p].edition)
      <4>1. CASE p = m
        <5>1. z = s
          BY <3>1, <3>7, <4>1
        <5>2. \A o \in Manager \ {m} : ~BusyWith(o, s)
          BY <2>2, <3>7, <5>1
        <5> QED BY <2>2, <4>1, <5>2, TaskFields
      <4>2. CASE p # m
        <5>1. BusyWith(p, z) /\ z \notin spoilt
          BY <2>2, <3>5, <3>7, <4>2
        <5>2. ~BusyWith(p, s)
          <6>1. SUFFICES ASSUME BusyWith(p, s) PROVE FALSE
            OBVIOUS
          <6>2. z = s
            BY <5>1, <6>1 DEF BusyWith
          <6>3. s \in spoilt'
            BY <2>2, <4>2, <6>1
          <6> QED BY <3>7, <6>2, <6>3
        <5>3. doing'[p] = doing[p]
          BY <3>4, <4>2, <5>2
        <5> QED BY <1>a, <5>1, <5>3 DEF AloneIs
      <4> QED BY <4>1, <4>2
    <3> QED BY <3>6, <3>7 DEF AloneIs
  <2> QED BY <1>8, <2>1, <2>2, UpdateMoves
<1>9. ASSUME NEW m \in Manager, OpenManager(m) \/ \E s \in Source : DayPasses(m, s) PROVE AloneIs'
  BY <1>0, <1>9 DEF OpenManager, DayPasses
<1>10. ASSUME NEW m \in Manager, ManifestFails(m) \/ RuleFails(m) PROVE AloneIs'
  BY <1>10, <1>i DEF ManifestFails, RuleFails
<1>11. ASSUME NEW m \in Manager, RuleComes(m) PROVE AloneIs'
  <2>1. doing[m] \in Writing /\ doing[m] # Idle
    BY <1>11, TaskSource, TaskFields DEF RuleComes
  <2> DEFINE r == [doing[m] EXCEPT !.at = "saving"]
  <2>2. r \in Writing /\ r.src = doing[m].src /\ r.alone = doing[m].alone /\ r.hash = doing[m].hash /\ r.edition = doing[m].edition
    BY <2>1 DEF Writing
  <2>3. doing' = [doing EXCEPT ![m] = r] /\ spoilt' = spoilt
    BY <1>11, SourcesConstants DEF RuleComes, SourcesInv, SourcesTyped
  <2> HIDE DEF r
  <2> QED BY <1>w, <2>1, <2>2, <2>3
<1>12. ASSUME NEW m \in Manager, NEW b \in BOOLEAN, ManifestComes(m, b) PROVE AloneIs'
  <2>1. doing[m] \in Asking /\ doing[m] # Idle
    BY <1>12, ManifestRead, TaskFields
  <2>2. CASE doing' = [doing EXCEPT ![m] = Idle] /\ spoilt' = spoilt
    BY <1>i, <2>2
  <2>3. ASSUME NEW r \in Writing, doing' = [doing EXCEPT ![m] = r], r.src = doing[m].src, r.alone = doing[m].alone,
               (r.hash = r.edition /\ spoilt' = spoilt) \/ spoilt' = spoilt \cup {doing[m].src}
        PROVE  AloneIs'
    BY <1>w, <2>1, <2>3
  <2> QED BY <1>12, <2>2, <2>3, ManifestRead
<1>13. ASSUME NEW m \in Manager, RuleSaved(m) PROVE AloneIs'
  <2>1. doing[m] \in Writing /\ doing[m] # Idle /\ doing[m].at # "idle" /\ doing[m].src \in Source
    BY <1>13, TaskSource DEF RuleSaved
  <2>2. doing'[m] = Idle /\ \A o \in Manager \ {m} : doing'[o] = doing[o]
    BY <1>13, DoingMoves DEF RuleSaved
  <2>3. \A o \in Manager, s \in Source : BusyWith(o, s)' => o # m /\ BusyWith(o, s) /\ doing'[o] = doing[o]
    BY <2>2, TaskFields DEF BusyWith
  <2>4. ASSUME NEW s \in Source, s = doing[m].src, doing[m].alone PROVE \A o \in Manager : ~BusyWith(o, s)'
    <3>1. BusyWith(m, s)
      BY <2>1, <2>4 DEF BusyWith
    <3> QED BY <1>a, <2>3, <2>4, <3>1 DEF AloneIs
  <2>5. spoilt' = spoilt \/ (doing[m].alone /\ spoilt' = spoilt \ {doing[m].src})
    BY <1>13 DEF RuleSaved
  <2>6. \A o \in Manager, s \in Source \ spoilt' : BusyWith(o, s)' => s \notin spoilt
    BY <2>4, <2>5
  <2> QED BY <1>a, <2>3, <2>6 DEF AloneIs
<1> QED
  BY <1>1, <1>2, <1>3, <1>4, <1>5, <1>6, <1>7, <1>8, <1>9, <1>10, <1>11, <1>12, <1>13 DEF SourcesNext
\* A step in which no hash is written and no rule is kept: an entry may go, come new or
\* be changed otherwise, and an update that was between its writes ends spoilt.
LEMMA HashKept ==
  ASSUME SourcesInv, spoilt \subseteq spoilt',
         \A z \in Source : \/ listed'[z] = listed[z] \/ listed'[z] = Absent \/ listed'[z].hash = 0
                           \/ listed[z] # Absent /\ listed'[z].hash = listed[z].hash,
         \A z \in Source : cache'[z] = cache[z] \/ z \in spoilt',
         \A o \in Manager : doing'[o].at \in {"fetching", "saving"} =>
            /\ doing[o].at \in {"fetching", "saving"}
            /\ doing'[o].src = doing[o].src /\ doing'[o].hash = doing[o].hash /\ (doing'[o].alone => doing[o].alone),
         \A o \in Manager : doing[o].at \in {"fetching", "saving"} /\ doing'[o].at \notin {"fetching", "saving"} => doing[o].src \in spoilt'
  PROVE  HashSteps'
<1>h. HashSteps
  BY DEF SourcesInv
<1>1. ASSUME NEW m \in Manager, Committed(m)', doing'[m].alone
      PROVE  listed'[doing'[m].src] = Absent \/ listed'[doing'[m].src].hash \in {0, doing'[m].hash}
  <2>1. Committed(m) /\ doing[m].alone /\ doing'[m].src = doing[m].src /\ doing'[m].hash = doing[m].hash
    BY <1>1 DEF Committed
  <2>2. doing[m].src \in Source
    BY <2>1, TaskSource DEF Committed
  <2>3. listed[doing[m].src] = Absent \/ listed[doing[m].src].hash \in {0, doing[m].hash}
    BY <1>h, <2>1 DEF HashSteps
  <2> QED BY <2>1, <2>2, <2>3
<1>2. ASSUME NEW z \in Source \ spoilt', \A m \in Manager : ~(BusyWith(m, z) /\ Committed(m))'
      PROVE  listed'[z] = Absent \/ listed'[z].hash \in {0, cache'[z]}
  <2>1. \A m \in Manager : ~(BusyWith(m, z) /\ Committed(m))
    <3> SUFFICES ASSUME NEW m \in Manager, BusyWith(m, z), Committed(m) PROVE FALSE
      OBVIOUS
    <3>1. doing[m].src = z /\ doing'[m].at \in {"fetching", "saving"}
      BY DEF BusyWith, Committed
    <3> QED BY <1>2, <3>1 DEF BusyWith, Committed
  <2>2. listed[z] = Absent \/ listed[z].hash \in {0, cache[z]}
    BY <1>h, <2>1 DEF HashSteps
  <2> QED BY <2>2
<1> QED BY <1>1, <1>2 DEF HashSteps

\* Every step keeps the hash of a source in step with its cached rule.
LEMMA HashesKept == SourcesInv /\ [SourcesNext]_sources => HashSteps'
<1> SUFFICES ASSUME SourcesInv, [SourcesNext]_sources PROVE HashSteps'
  OBVIOUS
<1>h. HashSteps /\ AloneIs
  BY DEF SourcesInv
<1>t. listed \in [Source -> {Absent} \cup Entry] /\ cache \in [Source -> Nat]
  BY DEF SourcesInv, SourcesTyped
<1> DEFINE Quiet == /\ spoilt \subseteq spoilt' /\ \A z \in Source : cache'[z] = cache[z] \/ z \in spoilt'
<1>0. ASSUME Quiet, listed' = listed, \A o \in Manager : doing'[o] = doing[o] PROVE HashSteps'
  BY <1>0, HashKept
<1>i. ASSUME Quiet, listed' = listed, NEW m \in Manager, NEW r \in {Idle} \cup Asking \cup Writing, doing' = [doing EXCEPT ![m] = r],
             \/ r.at \notin {"fetching", "saving"} /\ (Committed(m) => doing[m].src \in spoilt')
             \/ doing[m].at \in {"fetching", "saving"} /\ r.src = doing[m].src /\ r.hash = doing[m].hash /\ r.alone = doing[m].alone
                  /\ r.at \in {"fetching", "saving"}
      PROVE  HashSteps'
  <2>1. doing'[m] = r /\ \A o \in Manager \ {m} : doing'[o] = doing[o]
    BY <1>i, DoingMoves
  <2>2. \A o \in Manager : doing'[o].at \in {"fetching", "saving"} =>
            /\ doing[o].at \in {"fetching", "saving"}
            /\ doing'[o].src = doing[o].src /\ doing'[o].hash = doing[o].hash /\ (doing'[o].alone => doing[o].alone)
    BY <1>i, <2>1
  <2>3. \A o \in Manager : doing[o].at \in {"fetching", "saving"} /\ doing'[o].at \notin {"fetching", "saving"} => doing[o].src \in spoilt'
    BY <1>i, <2>1 DEF Committed
  <2> QED BY <1>i, <2>2, <2>3, HashKept
<1>d. Idle \in {Idle} \cup Asking \cup Writing /\ Idle.at \notin {"fetching", "saving"}
  BY TaskFields
<1>1. CASE UserWrites
  <2> DEFINE s == doing[User].src
  <2>1. s \in Source /\ \E entry \in {Absent} \cup Entry :
              /\ entry = Absent \/ entry.hash = 0 \/ (listed[s] # Absent /\ entry.hash = listed[s].hash)
              /\ PutEntry(User, s, entry)
    BY <1>1, UserPut
  <2>2. PICK entry \in {Absent} \cup Entry :
              /\ entry = Absent \/ entry.hash = 0 \/ (listed[s] # Absent /\ entry.hash = listed[s].hash)
              /\ PutEntry(User, s, entry)
    BY <2>1
  <2>3. listed' = [listed EXCEPT ![s] = entry]
    BY <2>1, <2>2, Put, SourcesConstants
  <2>4. \A o \in Manager : doing'[o] = doing[o]
    BY <1>1, UserMoves DEF UserWrites
  <2>5. spoilt \subseteq spoilt' /\ \A z \in Source : cache'[z] = cache[z] \/ z \in spoilt'
    BY <1>1, <1>t DEF UserWrites
  <2> HIDE DEF s
  <2>6. \A z \in Source : \/ listed'[z] = listed[z] \/ listed'[z] = Absent \/ listed'[z].hash = 0
                          \/ listed[z] # Absent /\ listed'[z].hash = listed[z].hash
    BY <1>t, <2>1, <2>2, <2>3
  <2> QED BY <2>4, <2>5, <2>6, HashKept
<1>2. ASSUME NEW m \in Manager, Note(m) \/ AddBack(m) PROVE HashSteps'
  <2> DEFINE s == doing[m].src
  <2>1. s \in Source /\ doing[m] \in Writing /\ m \in Writer /\ UNCHANGED <<cache, spoilt>> /\ doing[m].at \in {"noting", "adding"}
    BY <1>2, NotePut, SourcesConstants DEF Note, AddBack
  <2>2. PICK entry \in {Absent} \cup Entry :
          /\ PutEntry(m, s, entry)
          /\ \/ /\ entry \in Entry /\ entry.hash = doing[m].hash
                /\ doing' = [doing EXCEPT ![m] = [@ EXCEPT !.at = "fetching"]]
             \/ entry = listed[s] /\ doing' \in {[doing EXCEPT ![m] = [@ EXCEPT !.at = "adding"]], [doing EXCEPT ![m] = Idle]}
    BY <1>2, NotePut
  <2>3. listed' = [listed EXCEPT ![s] = entry]
    BY <2>1, <2>2, Put
  <2>4. doing \in [Writer -> {Idle} \cup Asking \cup Writing \cup Editing]
    BY DEF SourcesInv, SourcesTyped
  <2>5. \A x \in {"fetching", "adding"} : LET r == [doing[m] EXCEPT !.at = x] IN
          r \in Writing /\ r.at = x /\ r.src = s /\ r.hash = doing[m].hash /\ r.alone = doing[m].alone
    BY <2>1 DEF Writing
  <2>6. CASE entry = listed[s] /\ doing' \in {[doing EXCEPT ![m] = [@ EXCEPT !.at = "adding"]], [doing EXCEPT ![m] = Idle]}
    <3>1. listed' = listed
      BY <1>t, <2>1, <2>3, <2>6
    <3>2. \/ doing' = [doing EXCEPT ![m] = [doing[m] EXCEPT !.at = "adding"]]
          \/ doing' = [doing EXCEPT ![m] = Idle]
      BY <2>1, <2>4, <2>6
    <3>3. Quiet /\ ~Committed(m)
      BY <2>1 DEF Committed
    <3>4. [doing[m] EXCEPT !.at = "adding"] \in {Idle} \cup Asking \cup Writing /\ [doing[m] EXCEPT !.at = "adding"].at \notin {"fetching", "saving"}
      BY <2>5
    <3> HIDE DEF Quiet
    <3> QED BY <1>d, <1>i, <3>1, <3>2, <3>3, <3>4
  <2>7. CASE /\ entry \in Entry /\ entry.hash = doing[m].hash
             /\ doing' = [doing EXCEPT ![m] = [@ EXCEPT !.at = "fetching"]]
    <3> DEFINE r == [doing[m] EXCEPT !.at = "fetching"]
    <3>1. r \in Writing /\ r.at = "fetching" /\ r.src = s /\ r.hash = doing[m].hash /\ r.alone = doing[m].alone
      BY <2>5
    <3>2. doing' = [doing EXCEPT ![m] = r]
      BY <2>1, <2>4, <2>7
    <3> HIDE DEF r
    <3>3. doing'[m] = r /\ \A o \in Manager \ {m} : doing'[o] = doing[o]
      BY <3>1, <3>2, DoingMoves
    <3>s. BusyWith(m, s)
      BY <2>1 DEF BusyWith
    <3> HIDE DEF s
    <3>4. ASSUME NEW o \in Manager, Committed(o)', doing'[o].alone
          PROVE  listed'[doing'[o].src] = Absent \/ listed'[doing'[o].src].hash \in {0, doing'[o].hash}
      <4>1. CASE o = m
        BY <1>t, <2>1, <2>3, <2>7, <3>1, <3>3, <4>1
      <4>2. CASE o # m
        <5>1. doing'[o] = doing[o] /\ Committed(o) /\ doing[o].alone /\ doing[o].at # "idle"
          BY <3>3, <3>4, <4>2 DEF Committed
        <5>2. doing[o].src # s
          BY <1>h, <2>1, <3>s, <4>2, <5>1 DEF AloneIs, BusyWith
        <5>3. listed[doing[o].src] = Absent \/ listed[doing[o].src].hash \in {0, doing[o].hash}
          BY <1>h, <5>1 DEF HashSteps
        <5>4. doing[o].src \in Source
          BY <5>1, TaskSource
        <5> QED BY <1>t, <2>3, <5>1, <5>2, <5>3, <5>4
      <4> QED BY <4>1, <4>2
    <3>5. ASSUME NEW z \in Source \ spoilt', \A o \in Manager : ~(BusyWith(o, z) /\ Committed(o))'
          PROVE  listed'[z] = Absent \/ listed'[z].hash \in {0, cache'[z]}
      <4>1. z # s
        BY <3>1, <3>3, <3>5 DEF BusyWith, Committed
      <4>2. \A o \in Manager : ~(BusyWith(o, z) /\ Committed(o))
        BY <2>1, <3>3, <3>5 DEF BusyWith, Committed
      <4>3. listed[z] = Absent \/ listed[z].hash \in {0, cache[z]}
        BY <1>h, <2>1, <3>5, <4>2 DEF HashSteps
      <4> QED BY <1>t, <2>1, <2>3, <4>1, <4>3
    <3> QED BY <3>4, <3>5 DEF HashSteps
  <2> QED BY <2>2, <2>6, <2>7
<1>3. ASSUME NEW a \in Writer, TakeLock(a) PROVE HashSteps'
  BY <1>3, <1>0 DEF TakeLock, TakeList
<1>4. ASSUME NEW m \in Manager, NEW b \in BOOLEAN, Ends(m, b) PROVE HashSteps'
  BY <1>4, <1>d, <1>i DEF Ends
<1>5. CASE DialogEnds \/ UNCHANGED sources
  BY <1>0, <1>5 DEF DialogEnds, sources
<1>6. ASSUME NEW s \in Source, NEW what \in {"add", "remove", "switch", "move", "repoint"}, UserEdits(s, what)
      PROVE  HashSteps'
  <2>1. [at |-> "editing", src |-> s, what |-> what] \in Editing
    BY DEF Editing
  <2>2. Quiet
    BY <1>6, <1>t DEF UserEdits
  <2> QED BY <1>0, <1>6, <2>1, <2>2, UserMoves DEF UserEdits
<1>7. ASSUME NEW s \in Source, NEW tells \in {"rules", "move", "stop"}, Publish(s, tells) PROVE HashSteps'
  BY <1>0, <1>7 DEF Publish
<1>8. ASSUME NEW m \in Manager, NEW s \in Source, Update(m, s) PROVE HashSteps'
  <2>1. UNCHANGED <<listed, cache>>
    BY <1>8 DEF Update
  <2>2. CASE doing' = doing /\ spoilt' = spoilt
    BY <1>0, <2>1, <2>2
  <2>3. CASE /\ doing[m] = Idle /\ doing'[m] \in Asking
             /\ \A o \in Manager \ {m} :
                  IF BusyWith(o, s) THEN doing'[o] = [doing[o] EXCEPT !.alone = FALSE] ELSE doing'[o] = doing[o]
             /\ spoilt' = IF \A o \in Manager \ {m} : ~BusyWith(o, s) THEN spoilt ELSE spoilt \cup {s}
    <3>1. \A o \in Manager \ {m} : BusyWith(o, s) => doing[o] \in Asking \cup Writing
      BY TaskFields DEF BusyWith, SourcesInv, SourcesTyped
    <3>2. \A r \in Asking : [r EXCEPT !.alone = FALSE].at = r.at /\ r.at = "asking"
      BY DEF Asking
    <3>3. \A r \in Writing : LET q == [r EXCEPT !.alone = FALSE] IN q.at = r.at /\ q.src = r.src /\ q.hash = r.hash /\ ~q.alone
      BY DEF Writing
    <3>4. ASSUME NEW o \in Manager
          PROVE  /\ doing'[o].at \in {"fetching", "saving"} =>
                      /\ doing[o].at \in {"fetching", "saving"}
                      /\ doing'[o].src = doing[o].src /\ doing'[o].hash = doing[o].hash /\ (doing'[o].alone => doing[o].alone)
                 /\ doing[o].at \in {"fetching", "saving"} => doing'[o].at \in {"fetching", "saving"}
      <4>1. CASE o = m
        BY <2>3, <4>1, TaskFields
      <4>2. CASE o # m /\ BusyWith(o, s)
        <5>1. doing'[o] = [doing[o] EXCEPT !.alone = FALSE] /\ doing[o] \in Asking \cup Writing
          BY <2>3, <3>1, <4>2
        <5>2. CASE doing[o] \in Asking
          BY <3>2, <5>1, <5>2
        <5>3. CASE doing[o] \in Writing
          BY <3>3, <5>1, <5>3
        <5> QED BY <5>1, <5>2, <5>3
      <4>3. CASE o # m /\ ~BusyWith(o, s)
        BY <2>3, <4>3
      <4> QED BY <4>1, <4>2, <4>3
    <3>5. spoilt \subseteq spoilt'
      BY <2>3
    <3> QED BY <2>1, <3>4, <3>5, HashKept
  <2> QED BY <1>8, <2>2, <2>3, UpdateMoves
<1>9. ASSUME NEW m \in Manager, OpenManager(m) \/ \E s \in Source : DayPasses(m, s) PROVE HashSteps'
  BY <1>0, <1>9 DEF OpenManager, DayPasses
<1>10. ASSUME NEW m \in Manager, ManifestFails(m) \/ RuleFails(m) PROVE HashSteps'
  <2>1. Quiet /\ listed' = listed /\ doing' = [doing EXCEPT ![m] = Idle] /\ (Committed(m) => doing[m].src \in spoilt')
    BY <1>10 DEF ManifestFails, RuleFails, Committed
  <2> QED BY <1>d, <1>i, <2>1
<1>11. ASSUME NEW m \in Manager, RuleComes(m) PROVE HashSteps'
  <2>1. doing[m] \in Writing /\ doing[m].at = "fetching"
    BY <1>11, TaskSource DEF RuleComes
  <2> DEFINE r == [doing[m] EXCEPT !.at = "saving"]
  <2>2. r \in Writing /\ r.src = doing[m].src /\ r.alone = doing[m].alone /\ r.hash = doing[m].hash /\ r.at = "saving"
    BY <2>1 DEF Writing
  <2>3. doing' = [doing EXCEPT ![m] = r] /\ UNCHANGED <<spoilt, listed, cache>>
    BY <1>11, SourcesConstants DEF RuleComes, SourcesInv, SourcesTyped
  <2> HIDE DEF r
  <2> QED BY <1>i, <2>1, <2>2, <2>3
<1>12. ASSUME NEW m \in Manager, NEW b \in BOOLEAN, ManifestComes(m, b) PROVE HashSteps'
  <2>1. doing[m].at = "asking" /\ UNCHANGED <<listed, cache>> /\ ~Committed(m)
    BY <1>12 DEF ManifestComes, Committed
  <2>2. spoilt \subseteq spoilt' /\ \E r \in {Idle} \cup Asking \cup Writing : doing' = [doing EXCEPT ![m] = r] /\ r.at \notin {"fetching", "saving"}
    BY <1>12, <1>d, ManifestRead
  <2> QED BY <1>i, <2>1, <2>2
<1>13. ASSUME NEW m \in Manager, RuleSaved(m) PROVE HashSteps'
  <2> DEFINE s == doing[m].src
  <2>1. doing[m] \in Writing /\ s \in Source /\ Committed(m) /\ BusyWith(m, s)
    BY <1>13, TaskSource DEF RuleSaved, Committed, BusyWith
  <2>2. doing'[m] = Idle /\ \A o \in Manager \ {m} : doing'[o] = doing[o]
    BY <1>13, DoingMoves DEF RuleSaved
  <2>3. /\ listed' = listed /\ cache' = [cache EXCEPT ![s] = doing[m].edition]
        /\ spoilt' = IF doing[m].alone /\ doing[m].hash = doing[m].edition THEN spoilt \ {s} ELSE spoilt
    BY <1>13 DEF RuleSaved
  <2> HIDE DEF s
  <2>4. ASSUME NEW o \in Manager, Committed(o)', doing'[o].alone
        PROVE  listed'[doing'[o].src] = Absent \/ listed'[doing'[o].src].hash \in {0, doing'[o].hash}
    <3>1. o # m /\ doing'[o] = doing[o] /\ Committed(o)
      BY <2>2, <2>4, TaskFields DEF Committed
    <3> QED BY <1>h, <2>3, <2>4, <3>1 DEF HashSteps
  <2>5. ASSUME NEW z \in Source \ spoilt', \A o \in Manager : ~(BusyWith(o, z) /\ Committed(o))'
        PROVE  listed'[z] = Absent \/ listed'[z].hash \in {0, cache'[z]}
    <3>1. CASE z = s
      <4>1. doing[m].alone /\ doing[m].hash = doing[m].edition
        BY <1>h, <2>1, <2>3, <2>5, <3>1 DEF AloneIs
      <4>2. listed[s] = Absent \/ listed[s].hash \in {0, doing[m].hash}
        BY <1>h, <2>1, <4>1 DEF HashSteps, s
      <4>3. cache'[s] = doing[m].edition
        BY <1>t, <2>1, <2>3
      <4> QED BY <2>3, <3>1, <4>1, <4>2, <4>3
    <3>2. CASE z # s
      <4>1. z \notin spoilt /\ cache'[z] = cache[z]
        BY <1>t, <2>3, <2>5, <3>2
      <4>2. \A o \in Manager : ~(BusyWith(o, z) /\ Committed(o))
        <5>1. ~BusyWith(m, z)
          BY <2>1, <3>2 DEF BusyWith
        <5>2. \A o \in Manager \ {m} : ~(BusyWith(o, z) /\ Committed(o))
          BY <2>2, <2>5 DEF BusyWith, Committed
        <5> QED BY <5>1, <5>2
      <4> QED BY <1>h, <2>3, <4>1, <4>2 DEF HashSteps
    <3> QED BY <3>1, <3>2
  <2> QED BY <2>4, <2>5 DEF HashSteps
<1> QED
  BY <1>1, <1>2, <1>3, <1>4, <1>5, <1>6, <1>7, <1>8, <1>9, <1>10, <1>11, <1>12, <1>13 DEF SourcesNext

\* Every step keeps all of it.
LEMMA SourcesStep == SourcesInv /\ [SourcesNext]_sources => SourcesInv'
<1> SUFFICES ASSUME SourcesInv, [SourcesNext]_sources PROVE SourcesInv'
  OBVIOUS
<1>1. SourcesTyped' <=> DoingTyped' /\ ListTyped' /\ RestTyped' /\ (known \in KnownType)'
  BY DEF SourcesTyped, DoingTyped, ListTyped, RestTyped, KnownType
<1>2. (known \in KnownType)' /\ BusyKnows'
  BY KnownTypes DEF KnownType
<1>3. SourcesTyped'
  BY <1>1, <1>2, ListTypes, DoingTypes
<1> QED BY <1>2, <1>3, ListKept, AloneSteps, HashesKept DEF SourcesInv

\* For any sources, managers and limits: the list of sources is what was last written of
\* each entry, and the hash in it is that of the rule in the cache, unless an update
\* failed, was cut short or was not alone.
THEOREM SourcesKeepWrites == SourcesSpec => []SourcesKept
<1>1. SourcesInv => SourcesKept
  <2> SUFFICES ASSUME SourcesInv PROVE HashTruthful
    BY DEF SourcesInv, SourcesKept
  <2> SUFFICES ASSUME NEW s \in Source \ spoilt, \A m \in Manager : ~BusyWith(m, s) PROVE listed[s] = Absent \/ listed[s].hash \in {0, cache[s]}
    BY DEF HashTruthful
  <2> QED BY DEF SourcesInv, HashSteps
<1> QED BY <1>1, SourcesStart, SourcesStep, PTL DEF SourcesSpec


-----------------------------------------------------------------------------
(* What a crawl runs with                                                    *)

Worded == Words \cup {NotSaid}
Named == ProfileName \cup {NotSaid}
Widgets == [conc : Nat \ {0}, robots : BOOLEAN, profile : Named, mode : Modes, enabled : BOOLEAN, current : Named]
GoodConfig == {c \in ConfigRead : ValidConfig(c)}
Drafts == [cfg : GoodConfig, lo : Int, hi : Int, note : Worded]
Writings == [conc : Nat \ {0}, robots : BOOLEAN, profile : Named, adv : GoodConfig]

\* The widgets show a proxy of the chosen profile, or none.
WidgetsHold(w) == w \in Widgets /\ w.current \in {NotSaid, w.profile} /\ (w.enabled => w.current # NotSaid)

WindowHolds ==
  /\ WidgetsHold(win) /\ adv \in GoodConfig /\ saved \subseteq Writings /\ usable \subseteq ProfileName /\ leftMode \in BOOLEAN
  /\ dlg \subseteq Drafts /\ \A d \in dlg : d.cfg.mode = adv.mode

\* What the command line has read can be used, and on its way to the proxies it is valid.
Layers ==
  [step : {"layers", "proxy"}, file : [adv : GoodConfig, robots : BOOLEAN \cup {NotSaid}], flags : FlagLayer, env : EnvLayer,
   set : {x \in SetLayer : Junk \notin {x.conc, x.hi, x.level}}]
ShellHolds ==
  /\ shellRun.step \in {"layers", "proxy"} => shellRun \in Layers
  /\ shellRun.step = "proxy" => ValidConfig(Overrides(shellRun))

LayersInv == WindowHolds /\ ShellHolds /\ ModeShown /\ LoadGivesBack /\ UppermostHolds

\* What _update_proxy_session makes of the widgets and a configuration: the configuration
\* changes in its mode at most, and where the two agreed on the mode they still do.
LEMMA ProxyForKeeps ==
  ASSUME SettingsAssumption, usable \subseteq ProfileName,
         NEW w, NEW c \in GoodConfig, w \in Widgets
  PROVE  LET r == ProxyFor(w, c) IN
         /\ WidgetsHold(r.win) /\ r.adv \in GoodConfig
         /\ r.win.conc = w.conc /\ r.win.robots = w.robots /\ r.win.profile = w.profile
         /\ r.adv.conc = c.conc /\ r.adv.robots = c.robots
         /\ w.profile \in usable => r.win.current = w.profile /\ w.profile # NotSaid /\ r.win.mode = w.mode /\ r.adv = c
         /\ w.profile \notin usable => r.win.current = NotSaid /\ r.win.mode = "direct_only"
         /\ w.mode = c.mode \/ r.win.mode # w.mode =>
              r.adv.mode = r.win.mode /\ (r.adv.mode # "direct_only" => r.win.current # NotSaid)
<1>1. CASE w.profile \in usable
  <2>1. ProxyFor(w, c) = [win |-> [w EXCEPT !.enabled = TRUE, !.current = w.profile], adv |-> c]
    BY <1>1 DEF ProxyFor
  <2>2. w.profile # NotSaid /\ w.profile \in ProfileName
    BY <1>1 DEF SettingsAssumption
  <2> DEFINE x == [w EXCEPT !.enabled = TRUE, !.current = w.profile]
  <2>3. WidgetsHold(x) /\ x.conc = w.conc /\ x.robots = w.robots /\ x.profile = w.profile /\ x.mode = w.mode /\ x.current = w.profile
    BY <2>2 DEF Widgets, WidgetsHold, Named
  <2>4. ProxyFor(w, c) = [win |-> x, adv |-> c]
    BY <2>1
  <2> HIDE DEF x
  <2> QED BY <1>1, <2>2, <2>3, <2>4
<1>2. CASE w.profile \notin usable
  <2> DEFINE x == [w EXCEPT !.enabled = FALSE, !.current = NotSaid, !.mode = "direct_only"]
             y == IF w.mode = "direct_only" THEN c ELSE [c EXCEPT !.mode = "direct_only"]
  <2>1. ProxyFor(w, c) = [win |-> x, adv |-> y]
    BY <1>2 DEF ProxyFor
  <2>2. y \in GoodConfig /\ y.conc = c.conc /\ y.robots = c.robots
        /\ (w.mode = c.mode \/ "direct_only" # w.mode => y.mode = "direct_only")
    <3>1. c \in ConfigRead /\ ValidConfig(c)
      BY DEF GoodConfig
    <3>2. [c EXCEPT !.mode = "direct_only"] \in ConfigRead
      <4>1. "direct_only" \in Words
        BY DEF SettingsAssumption, Modes
      <4> QED BY <3>1, <4>1 DEF ConfigRead
    <3> QED BY <3>1, <3>2 DEF GoodConfig, ValidConfig, ConfigRead
  <2>3. WidgetsHold(x) /\ x.conc = w.conc /\ x.robots = w.robots /\ x.profile = w.profile /\ x.mode = "direct_only" /\ x.current = NotSaid
    BY DEF Widgets, WidgetsHold, Named, Modes
  <2> HIDE DEF x, y
  <2> QED BY <1>2, <2>1, <2>2, <2>3
<1> QED BY <1>1, <1>2

\* The list of profiles that is read again keeps the choice or drops it.
LEMMA ReloadedKeeps ==
  ASSUME SettingsAssumption, NEW w \in Widgets
  PROVE  Reloaded(w) \in Widgets /\ Reloaded(w).conc = w.conc /\ Reloaded(w).robots = w.robots /\ Reloaded(w).mode = w.mode
         /\ (w.profile \in usable => Reloaded(w) = w)
BY DEF Reloaded, Widgets, Named

\* The layer that is heard, and no layer above it is, is the uppermost.
LEMMA UppermostIs ==
  ASSUME NEW n \in Nat, NEW layers, DOMAIN layers = 1 .. n, NEW i \in 1 .. n,
         layers[i] \notin {NotSaid, Junk}, \A j \in 1 .. i - 1 : layers[j] \in {NotSaid, Junk}
  PROVE  Uppermost(layers) = layers[i]
<1> DEFINE heard == {k \in DOMAIN layers : layers[k] \notin {NotSaid, Junk}}
<1>1. i \in heard /\ \A j \in heard : i <= j
  OBVIOUS
<1>2. \A k \in heard : (\A j \in heard : k <= j) => k = i
  <2> SUFFICES ASSUME NEW k \in heard, \A j \in heard : k <= j PROVE k = i
    OBVIOUS
  <2>1. k \in 1 .. n /\ k <= i /\ i <= k
    BY <1>1
  <2> QED BY <2>1
<1>3. (CHOOSE k \in heard : \A j \in heard : k <= j) = i
  <2> HIDE DEF heard
  <2> QED BY <1>1, <1>2
<1> QED BY <1>3 DEF Uppermost

\* Of two, three or four layers of which the last always says something.
LEMMA UppermostOfTwo ==
  ASSUME NEW a, NEW d, d \notin {NotSaid, Junk}
  PROVE  Uppermost(<<a, d>>) = IF a \in {NotSaid, Junk} THEN d ELSE a
<1> DEFINE l == <<a, d>>
<1>1. DOMAIN l = 1 .. 2 /\ l[1] = a /\ l[2] = d
  OBVIOUS
<1> HIDE DEF l
<1>2. \A i \in 1 .. 2 : l[i] \notin {NotSaid, Junk} /\ (\A j \in 1 .. i - 1 : l[j] \in {NotSaid, Junk}) => Uppermost(l) = l[i]
  BY <1>1, UppermostIs
<1>3. Uppermost(l) = IF a \in {NotSaid, Junk} THEN d ELSE a
  BY <1>1, <1>2
<1> QED BY <1>3 DEF l

\* See UppermostOfTwo.
LEMMA UppermostOfThree ==
  ASSUME NEW a, NEW b, NEW d, d \notin {NotSaid, Junk}
  PROVE  Uppermost(<<a, b, d>>) = IF a \in {NotSaid, Junk} THEN IF b \in {NotSaid, Junk} THEN d ELSE b ELSE a
<1> DEFINE l == <<a, b, d>>
<1>1. DOMAIN l = 1 .. 3 /\ l[1] = a /\ l[2] = b /\ l[3] = d
  OBVIOUS
<1> HIDE DEF l
<1>2. \A i \in 1 .. 3 : l[i] \notin {NotSaid, Junk} /\ (\A j \in 1 .. i - 1 : l[j] \in {NotSaid, Junk}) => Uppermost(l) = l[i]
  BY <1>1, UppermostIs
<1>3. Uppermost(l) = IF a \in {NotSaid, Junk} THEN IF b \in {NotSaid, Junk} THEN d ELSE b ELSE a
  BY <1>1, <1>2
<1> QED BY <1>3 DEF l

\* See UppermostOfTwo.
LEMMA UppermostOfFour ==
  ASSUME NEW a, NEW b, NEW c, NEW d, d \notin {NotSaid, Junk}
  PROVE  Uppermost(<<a, b, c, d>>) =
           IF a \in {NotSaid, Junk} THEN IF b \in {NotSaid, Junk} THEN IF c \in {NotSaid, Junk} THEN d ELSE c ELSE b ELSE a
<1> DEFINE l == <<a, b, c, d>>
<1>1. DOMAIN l = 1 .. 4 /\ l[1] = a /\ l[2] = b /\ l[3] = c /\ l[4] = d
  OBVIOUS
<1> HIDE DEF l
<1>2. \A i \in 1 .. 4 : l[i] \notin {NotSaid, Junk} /\ (\A j \in 1 .. i - 1 : l[j] \in {NotSaid, Junk}) => Uppermost(l) = l[i]
  BY <1>1, UppermostIs
<1>3. CASE a \notin {NotSaid, Junk}
  BY <1>1, <1>2, <1>3 DEF l
<1>4. CASE a \in {NotSaid, Junk} /\ b \notin {NotSaid, Junk}
  BY <1>1, <1>2, <1>4 DEF l
<1>5. CASE a \in {NotSaid, Junk} /\ b \in {NotSaid, Junk} /\ c \notin {NotSaid, Junk}
  <2>1. \A j \in 1 .. 3 - 1 : l[j] \in {NotSaid, Junk}
    BY <1>1, <1>5
  <2> QED BY <1>1, <1>2, <1>5, <2>1 DEF l
<1>6. CASE a \in {NotSaid, Junk} /\ b \in {NotSaid, Junk} /\ c \in {NotSaid, Junk}
  <2>1. \A j \in 1 .. 4 - 1 : l[j] \in {NotSaid, Junk}
    BY <1>1, <1>6
  <2> QED BY <1>1, <1>2, <1>6, <2>1 DEF l
<1> QED BY <1>3, <1>4, <1>5, <1>6

\* A window that opens has the default, and no command line has run.
LEMMA LayersHoldFirst ==
  ASSUME SettingsAssumption
  PROVE  SettingsInit => LayersInv
<1> SUFFICES ASSUME SettingsInit PROVE LayersInv
  OBVIOUS
<1>1. DefaultConfig \in GoodConfig /\ DefaultConfig.conc = 2 /\ DefaultConfig.mode = "direct_only"
  BY DEF DefaultConfig, Config, GoodConfig, ConfigRead, ValidConfig, Modes, SettingsAssumption
<1>2. WindowHolds
  <2>1. win \in Widgets
    BY <1>1 DEF SettingsInit, Widgets, Named, Modes
  <2> QED BY <1>1, <2>1 DEF SettingsInit, WindowHolds, WidgetsHold
<1>3. ShellHolds /\ UppermostHolds
  BY DEF SettingsInit, ShellHolds, UppermostHolds
<1>4. ModeShown /\ LoadGivesBack
  BY <1>1 DEF SettingsInit, ModeShown, LoadGivesBack
<1> QED BY <1>2, <1>3, <1>4 DEF LayersInv

\* The window leaves the command line to itself.
LEMMA WindowAlone ==
  ASSUME LayersInv, UNCHANGED shellRun
  PROVE  ShellHolds' /\ UppermostHolds'
BY DEF LayersInv, ShellHolds, UppermostHolds, Overrides, FromEnv, LevelOf

\* The widgets and the configuration are set together, with no dialog open.
LEMMA BecomesHolds ==
  ASSUME SettingsAssumption, WindowHolds, NEW w \in Widgets, NEW c \in GoodConfig, Becomes(ProxyFor(w, c)),
         dlg' = {}, usable' = usable, saved' = saved, leftMode' \in BOOLEAN,
         ~leftMode' => w.mode = c.mode \/ win'.mode # w.mode
  PROVE  WindowHolds' /\ ModeShown' /\ win'.conc = w.conc /\ win'.robots = w.robots /\ adv'.conc = c.conc
<1> DEFINE r == ProxyFor(w, c)
<1>1. win' = r.win /\ adv' = r.adv
  BY DEF Becomes
<1>2. usable \subseteq ProfileName
  BY DEF WindowHolds
<1>3. /\ WidgetsHold(r.win) /\ r.adv \in GoodConfig
      /\ r.win.conc = w.conc /\ r.win.robots = w.robots /\ r.adv.conc = c.conc
      /\ w.mode = c.mode \/ r.win.mode # w.mode =>
           r.adv.mode = r.win.mode /\ (r.adv.mode # "direct_only" => r.win.current # NotSaid)
  BY <1>2, ProxyForKeeps
<1> HIDE DEF r
<1>4. WindowHolds'
  BY <1>1, <1>3 DEF WindowHolds, WidgetsHold
<1>5. ModeShown'
  BY <1>1, <1>3 DEF ModeShown
<1> QED BY <1>1, <1>3, <1>4, <1>5

\* Another number and another tick on the widgets
LEMMA WidgetsSet ==
  ASSUME NEW w, WidgetsHold(w), NEW n \in Nat \ {0}, NEW b \in BOOLEAN
  PROVE  LET x == [w EXCEPT !.conc = n, !.robots = b] IN
         WidgetsHold(x) /\ x.conc = n /\ x.robots = b /\ x.profile = w.profile /\ x.mode = w.mode /\ x.current = w.current
<1> DEFINE x == [w EXCEPT !.conc = n, !.robots = b]
<1>1. w \in Widgets
  BY DEF WidgetsHold
<1>2. x \in Widgets
  BY <1>1 DEF Widgets
<1>3. x.conc = n /\ x.robots = b /\ x.profile = w.profile /\ x.mode = w.mode /\ x.current = w.current /\ x.enabled = w.enabled
  BY <1>1 DEF Widgets
<1> HIDE DEF x
<1>4. WidgetsHold(x)
  BY <1>2, <1>3 DEF WidgetsHold
<1> QED BY <1>3, <1>4 DEF x

\* What is done in the window itself, and with its profiles
LEMMA WindowKeepsLayers ==
  ASSUME SettingsAssumption, LayersInv,
         SetWidgets \/ OpenAdvanced \/ SaveConfig \/ ResetApp \/ (\E p \in Named : PickProfile(p))
         \/ (\E m \in Modes : PickMode(m)) \/ (\E p \in ProfileName : ProfileChanges(p))
  PROVE  LayersInv'
<1> SUFFICES WindowHolds' /\ ModeShown' /\ LoadGivesBack' /\ UNCHANGED shellRun
  BY WindowAlone DEF LayersInv
<1> USE DEF LayersInv
<1>1. CASE SetWidgets
  <2>1. PICK n \in 1 .. 2, b \in BOOLEAN : win' = [win EXCEPT !.conc = n, !.robots = b]
    BY <1>1 DEF SetWidgets
  <2>2. WidgetsHold(win') /\ win'.mode = win.mode /\ win'.current = win.current
    <3>1. n \in Nat \ {0}
      OBVIOUS
    <3>2. win \in Widgets
      BY DEF WindowHolds, WidgetsHold
    <3>3. win' \in Widgets
      BY <2>1, <3>1, <3>2 DEF Widgets
    <3>4. win'.profile = win.profile /\ win'.mode = win.mode /\ win'.current = win.current /\ win'.enabled = win.enabled
      BY <2>1, <3>2 DEF Widgets
    <3> QED BY <3>3, <3>4 DEF WindowHolds, WidgetsHold
  <2>3. UNCHANGED <<adv, dlg, saved, usable, leftMode, shellRun>> /\ back' = {}
    BY <1>1 DEF SetWidgets, Main, SettingsAct
  <2> QED BY <2>2, <2>3 DEF WindowHolds, WidgetsHold, ModeShown, LoadGivesBack
<1>2. CASE OpenAdvanced
  <2> DEFINE d == [cfg |-> adv, lo |-> IF adv.lo < 1 THEN 1 ELSE adv.lo, hi |-> IF adv.hi < 1 THEN 1 ELSE adv.hi, note |-> NotSaid]
  <2>1. dlg' = {d} /\ UNCHANGED <<win, adv, saved, usable, leftMode, back, shellRun>>
    BY <1>2 DEF OpenAdvanced, Main, SettingsAct
  <2>2. d \in Drafts /\ d.cfg = adv
    BY DEF WindowHolds, GoodConfig, ConfigRead, Drafts, Worded
  <2> HIDE DEF d
  <2> QED BY <2>1, <2>2 DEF WindowHolds, WidgetsHold, ModeShown, LoadGivesBack, WindowRuns
<1>3. CASE SaveConfig
  <2> DEFINE f == [conc |-> win.conc, robots |-> win.robots, profile |-> win.profile, adv |-> adv]
  <2>1. saved' = {f} /\ UNCHANGED <<win, adv, dlg, usable, leftMode, back, shellRun>>
    BY <1>3 DEF SaveConfig, Main, SettingsAct
  <2>2. f \in Writings
    BY DEF WindowHolds, WidgetsHold, Widgets, Writings
  <2> HIDE DEF f
  <2> QED BY <2>1, <2>2 DEF WindowHolds, WidgetsHold, ModeShown, LoadGivesBack, WindowRuns
<1>4. CASE ResetApp
  <2> DEFINE w == ProxyFor(Reloaded(win), adv).win
  <2>1. win' = [w EXCEPT !.conc = DefaultConfig.conc, !.robots = TRUE] /\ adv' = DefaultConfig
        /\ UNCHANGED <<dlg, saved, usable, shellRun>> /\ leftMode' = TRUE /\ back' = {} /\ dlg = {}
    BY <1>4 DEF ResetApp, Main, SettingsAct
  <2>2. WidgetsHold(w)
    BY ProxyForKeeps, ReloadedKeeps DEF WindowHolds, WidgetsHold
  <2>3. DefaultConfig \in GoodConfig /\ DefaultConfig.conc = 2
    BY DEF DefaultConfig, Config, GoodConfig, ConfigRead, ValidConfig, Modes, SettingsAssumption
  <2> HIDE DEF w
  <2>4. WidgetsHold([w EXCEPT !.conc = DefaultConfig.conc, !.robots = TRUE])
    <3>1. DefaultConfig.conc \in Nat \ {0} /\ TRUE \in BOOLEAN
      BY <2>3
    <3> QED BY <2>2, <3>1, WidgetsSet, Zenon
  <2> QED BY <2>1, <2>3, <2>4 DEF WindowHolds, WidgetsHold, ModeShown, LoadGivesBack
<1>5. ASSUME NEW p \in Named, PickProfile(p)
      PROVE  WindowHolds' /\ ModeShown' /\ LoadGivesBack' /\ UNCHANGED shellRun
  <2> DEFINE w == [win EXCEPT !.profile = p]
  <2>1. Becomes(ProxyFor(w, adv)) /\ dlg' = {} /\ UNCHANGED <<saved, usable, shellRun>> /\ back' = {}
        /\ leftMode' = (leftMode /\ win'.mode = win.mode)
    BY <1>5 DEF PickProfile, Main, SettingsAct
  <2>2. w \in Widgets /\ w.mode = win.mode /\ adv \in GoodConfig
    BY DEF WindowHolds, WidgetsHold, Widgets
  <2> HIDE DEF w
  <2>3. ~leftMode' => w.mode = adv.mode \/ win'.mode # w.mode
    BY <2>1, <2>2 DEF ModeShown
  <2>4. leftMode' \in BOOLEAN
    BY <2>1
  <2> QED BY <2>1, <2>2, <2>3, <2>4, BecomesHolds DEF LoadGivesBack
<1>6. ASSUME NEW m \in Modes, PickMode(m)
      PROVE  WindowHolds' /\ ModeShown' /\ LoadGivesBack' /\ UNCHANGED shellRun
  <2>1. win' = [win EXCEPT !.mode = m] /\ adv' = [adv EXCEPT !.mode = m] /\ win.enabled /\ dlg = {} /\ back' = {}
        /\ UNCHANGED <<dlg, saved, usable, shellRun>> /\ leftMode' = FALSE
    BY <1>6 DEF PickMode, Main, SettingsAct
  <2>2. WidgetsHold(win') /\ win'.mode = m /\ win'.current # NotSaid
    BY <2>1 DEF WindowHolds, WidgetsHold, Widgets
  <2>3. adv' \in GoodConfig /\ adv'.mode = m
    <3>1. adv \in ConfigRead /\ ValidConfig(adv)
      BY DEF WindowHolds, GoodConfig
    <3>2. adv' \in ConfigRead
      <4>1. m \in Words
        BY DEF SettingsAssumption
      <4> QED BY <2>1, <3>1, <4>1 DEF ConfigRead
    <3> QED BY <2>1, <3>1, <3>2 DEF ConfigRead, GoodConfig, ValidConfig
  <2> QED BY <2>1, <2>2, <2>3 DEF WindowHolds, WidgetsHold, ModeShown, LoadGivesBack
<1>7. ASSUME NEW p \in ProfileName, ProfileChanges(p)
      PROVE  WindowHolds' /\ ModeShown' /\ LoadGivesBack' /\ UNCHANGED shellRun
  <2>1. usable' \subseteq ProfileName /\ UNCHANGED <<win, adv, dlg, saved, leftMode, shellRun>> /\ back' = {}
    BY <1>7 DEF ProfileChanges, SettingsAct, WindowHolds
  <2> QED BY <2>1 DEF WindowHolds, WidgetsHold, ModeShown, LoadGivesBack
<1> QED BY <1>1, <1>2, <1>3, <1>4, <1>5, <1>6, <1>7

\* A file that is loaded sets the widgets whatever it holds, and the configuration where
\* it is valid; one that was saved here and whose profile is there gives back all.
LEMMA LoadsHold ==
  ASSUME SettingsAssumption, WindowHolds, dlg' = {}, usable' = usable, saved' = saved, leftMode' = TRUE,
         NEW f, f.conc \in Int, f.robots \in BOOLEAN, f.profile \in Named, f.adv \in ConfigRead, Loads(f)
  PROVE  WindowHolds' /\ (f.conc > 0 /\ ValidConfig(f.adv) /\ f.profile \in usable =>
                            adv' = f.adv /\ win'.conc = f.conc /\ win'.robots = f.robots /\ win'.current = f.profile
                            /\ (f.adv.mode \in Modes => win'.mode = f.adv.mode))
<1> DEFINE named == IF f.profile = NotSaid THEN win ELSE [win EXCEPT !.profile = IF f.profile \in usable THEN f.profile ELSE @]
           n == IF f.conc < 1 THEN 1 ELSE f.conc
           shown == [named EXCEPT !.conc = n, !.robots = f.robots]
           early == ProxyFor(Reloaded(shown), adv)
           whole == ProxyFor(early.win, f.adv)
<1>1. win \in Widgets /\ adv \in GoodConfig /\ usable \subseteq ProfileName
  BY DEF WindowHolds, WidgetsHold
<1>2. named \in Widgets /\ (f.profile \in usable => named.profile = f.profile)
  <2>1. CASE f.profile = NotSaid
    BY <1>1, <2>1 DEF SettingsAssumption
  <2>2. CASE f.profile # NotSaid
    <3>1. named = [win EXCEPT !.profile = IF f.profile \in usable THEN f.profile ELSE win.profile]
      BY <1>1, <2>2 DEF Widgets
    <3> QED BY <1>1, <3>1 DEF Widgets
  <2> QED BY <2>1, <2>2
<1> HIDE DEF named
<1>3. n \in Nat \ {0} /\ (f.conc > 0 => n = f.conc)
  OBVIOUS
<1> HIDE DEF n
<1>4. shown \in Widgets /\ shown.conc = n /\ shown.robots = f.robots /\ shown.profile = named.profile
  BY <1>2, <1>3 DEF Widgets
<1> HIDE DEF shown
<1>5. Reloaded(shown) \in Widgets /\ Reloaded(shown).conc = n /\ Reloaded(shown).robots = f.robots
      /\ (f.profile \in usable => Reloaded(shown).profile = f.profile)
  BY <1>2, <1>4, ReloadedKeeps
<1>6. WidgetsHold(early.win) /\ early.adv \in GoodConfig /\ early.win.conc = n /\ early.win.robots = f.robots
      /\ (f.profile \in usable => early.win.profile = f.profile)
  BY <1>1, <1>5, ProxyForKeeps
<1>7. Loads(f) <=> IF ValidConfig(f.adv)
                   THEN Becomes(IF whole.win.current = NotSaid THEN whole ELSE [whole EXCEPT !.win.mode = IF f.adv.mode \in Modes THEN f.adv.mode ELSE @])
                   ELSE Becomes(early)
  BY DEF Loads, named, n, shown
<1>8. CASE ~ValidConfig(f.adv)
  <2> HIDE DEF early, whole
  <2>1. win' = early.win /\ adv' = early.adv
    BY <1>7, <1>8 DEF Becomes
  <2> QED BY <1>6, <1>8, <2>1 DEF WindowHolds
<1>9. CASE ValidConfig(f.adv)
  <2>1. f.adv \in GoodConfig
    BY <1>9 DEF GoodConfig
  <2> HIDE DEF early
  <2>2. /\ WidgetsHold(whole.win) /\ whole.adv \in GoodConfig /\ whole.win.conc = n /\ whole.win.robots = f.robots
        /\ (f.profile \in usable => whole.win.current = f.profile /\ f.profile # NotSaid /\ whole.adv = f.adv)
    <3>1. early.win \in Widgets
      BY <1>6 DEF WidgetsHold
    <3> QED BY <1>1, <1>6, <2>1, <3>1, ProxyForKeeps
  <2>3. \E x, y : whole = [win |-> x, adv |-> y]
    BY DEF ProxyFor
  <2> HIDE DEF whole
  <2>4. PICK x, y : whole = [win |-> x, adv |-> y]
    BY <2>3
  <2>5. x = whole.win /\ y = whole.adv
    BY <2>4
  <2>6. CASE x.current = NotSaid
    <3>1. win' = x /\ adv' = y
      BY <1>7, <1>9, <2>5, <2>6 DEF Becomes
    <3> QED BY <1>3, <2>2, <2>5, <2>6, <3>1 DEF WindowHolds
  <2>7. CASE x.current # NotSaid
    <3> DEFINE m == IF f.adv.mode \in Modes THEN f.adv.mode ELSE x.mode
    <3>1. [whole EXCEPT !.win.mode = IF f.adv.mode \in Modes THEN f.adv.mode ELSE @] = [win |-> [x EXCEPT !.mode = m], adv |-> y]
      BY <2>4
    <3>2. win' = [x EXCEPT !.mode = m] /\ adv' = y
      BY <1>7, <1>9, <2>5, <2>7, <3>1 DEF Becomes
    <3>3. x \in Widgets /\ m \in Modes
      BY <2>2, <2>5 DEF WidgetsHold, Widgets
    <3>4. win' \in Widgets /\ win'.mode = m /\ win'.conc = x.conc /\ win'.robots = x.robots /\ win'.current = x.current
          /\ win'.profile = x.profile /\ win'.enabled = x.enabled
      BY <3>2, <3>3 DEF Widgets
    <3>5. WidgetsHold(win')
      BY <2>2, <2>5, <3>4 DEF WidgetsHold
    <3> QED BY <1>3, <2>2, <2>5, <3>2, <3>4, <3>5 DEF WindowHolds
  <2> QED BY <2>6, <2>7
<1> QED BY <1>8, <1>9

\* What the dialog gives is the configuration it was opened with, but for what was edited.
LEMMA FromDialogIs ==
  ASSUME NEW d \in Drafts, Checked(d)
  PROVE  FromDialog(d) \in GoodConfig /\ FromDialog(d).mode = d.cfg.mode
<1> DEFINE c == [d.cfg EXCEPT !.lo = d.lo, !.hi = d.hi]
<1>1. d.cfg \in ConfigRead /\ ValidConfig(d.cfg) /\ d.lo \in Int /\ d.hi \in Int /\ d.note \in Worded
  BY DEF Drafts, GoodConfig
<1>2. c \in ConfigRead /\ c.mode = d.cfg.mode /\ c.conc = d.cfg.conc /\ c.lo = d.lo /\ c.hi = d.hi
  BY <1>1 DEF ConfigRead
<1> HIDE DEF c
<1>3. FromDialog(d) = IF d.note = NotSaid THEN c ELSE [c EXCEPT !.note = d.note]
  BY DEF FromDialog, WithContact, c
<1>4. FromDialog(d) \in ConfigRead /\ FromDialog(d).mode = d.cfg.mode /\ FromDialog(d).conc = d.cfg.conc
      /\ FromDialog(d).lo = d.lo /\ FromDialog(d).hi = d.hi
  <2>1. CASE d.note = NotSaid
    BY <1>2, <1>3, <2>1
  <2>2. CASE d.note # NotSaid
    <3>1. d.note \in Words /\ FromDialog(d) = [c EXCEPT !.note = d.note]
      BY <1>1, <1>3, <2>2 DEF Worded
    <3> QED BY <1>2, <3>1 DEF ConfigRead
  <2> QED BY <2>1, <2>2
<1> QED BY <1>1, <1>4 DEF GoodConfig, ValidConfig, Checked

\* What is done in the advanced dialog
LEMMA DialogKeepsLayers ==
  ASSUME SettingsAssumption, LayersInv, NEW d \in dlg, EditAdvanced(d) \/ ApplyAdvanced(d) \/ CloseAdvanced(d)
  PROVE  LayersInv'
<1> SUFFICES WindowHolds' /\ ModeShown' /\ LoadGivesBack' /\ UNCHANGED shellRun
  BY WindowAlone DEF LayersInv
<1> USE DEF LayersInv
<1>1. d \in Drafts /\ d.cfg.mode = adv.mode
  BY DEF WindowHolds
<1>2. CASE EditAdvanced(d)
  <2>1. PICK lo \in 1 .. 2, hi \in 1 .. 2, note \in {NotSaid, "dialog"} : dlg' = {[d EXCEPT !.lo = lo, !.hi = hi, !.note = note]}
    BY <1>2 DEF EditAdvanced
  <2> DEFINE e == [d EXCEPT !.lo = lo, !.hi = hi, !.note = note]
  <2>2. lo \in Int /\ hi \in Int /\ note \in Worded
    BY DEF SettingsAssumption, Worded
  <2>3. e \in Drafts /\ e.cfg = d.cfg
    BY <1>1, <2>2 DEF Drafts
  <2>4. dlg' = {e}
    BY <2>1
  <2> HIDE DEF e
  <2>5. UNCHANGED <<win, adv, saved, usable, leftMode, back, shellRun>>
    BY <1>2 DEF EditAdvanced, SettingsAct
  <2> QED BY <1>1, <2>3, <2>4, <2>5 DEF WindowHolds, WidgetsHold, ModeShown, LoadGivesBack, WindowRuns
<1>3. CASE ApplyAdvanced(d)
  <2>1. Checked(d) /\ adv' = FromDialog(d) /\ UNCHANGED <<win, dlg, saved, usable, leftMode, shellRun>> /\ back' = {}
    BY <1>3 DEF ApplyAdvanced, SettingsAct
  <2>2. adv' \in GoodConfig /\ adv'.mode = adv.mode
    BY <1>1, <2>1, FromDialogIs
  <2> QED BY <2>1, <2>2 DEF WindowHolds, WidgetsHold, ModeShown, LoadGivesBack
<1>4. CASE CloseAdvanced(d)
  <2>1. PICK c \in GoodConfig : Becomes(ProxyFor(Reloaded(win), c)) /\ c.mode = adv.mode
    <3>1. CASE Checked(d) /\ Settled(win, FromDialog(d))
      BY <1>1, <3>1, FromDialogIs DEF Settled
    <3>2. CASE Settled(win, adv)
      BY <3>2 DEF Settled, WindowHolds
    <3> QED BY <1>4, <3>1, <3>2 DEF CloseAdvanced
  <2>2. Reloaded(win) \in Widgets /\ Reloaded(win).mode = win.mode
    BY ReloadedKeeps DEF WindowHolds, WidgetsHold
  <2>3. dlg' = {} /\ back' = {} /\ UNCHANGED <<saved, usable, shellRun>> /\ leftMode' = (leftMode /\ win'.mode = win.mode)
    BY <1>4 DEF CloseAdvanced, SettingsAct
  <2>4. ~leftMode' => Reloaded(win).mode = c.mode \/ win'.mode # Reloaded(win).mode
    BY <2>1, <2>2, <2>3 DEF ModeShown
  <2>5. leftMode' \in BOOLEAN
    BY <2>3
  <2> QED BY <2>1, <2>2, <2>3, <2>4, <2>5, BecomesHolds DEF LoadGivesBack
<1> QED BY <1>2, <1>3, <1>4

\* Files that are loaded
LEMMA LoadKeepsLayers ==
  ASSUME SettingsAssumption, LayersInv, LoadSaved \/ LoadOther
  PROVE  LayersInv'
<1> SUFFICES WindowHolds' /\ ModeShown' /\ LoadGivesBack' /\ UNCHANGED shellRun
  BY WindowAlone DEF LayersInv
<1> USE DEF LayersInv
<1>1. CASE LoadSaved
  <2>1. PICK f \in saved : Loads(f) /\ back' = IF f.profile \in usable THEN {f} ELSE {}
    BY <1>1 DEF LoadSaved
  <2>2. leftMode' = TRUE /\ dlg = {} /\ UNCHANGED <<dlg, saved, usable, shellRun>>
    BY <1>1 DEF LoadSaved, Main, SettingsAct
  <2>3. f.conc \in Int /\ f.conc > 0 /\ f.robots \in BOOLEAN /\ f.profile \in Named /\ f.adv \in ConfigRead /\ ValidConfig(f.adv)
    BY DEF WindowHolds, Writings, GoodConfig
  <2>4. WindowHolds' /\ (f.profile \in usable =>
          adv' = f.adv /\ win'.conc = f.conc /\ win'.robots = f.robots /\ win'.current = f.profile
                            /\ (f.adv.mode \in Modes => win'.mode = f.adv.mode))
    BY <2>1, <2>2, <2>3, LoadsHold
  <2>5. LoadGivesBack'
    <3> SUFFICES ASSUME NEW g \in back'
                 PROVE  WindowRuns' = [g.adv EXCEPT !.conc = g.conc, !.robots = g.robots] /\ win'.current = g.profile
                        /\ (g.adv.mode \in Modes => win'.mode = g.adv.mode)
      BY DEF LoadGivesBack
    <3>1. g = f /\ f.profile \in usable
      BY <2>1
    <3> QED BY <2>4, <3>1 DEF WindowRuns
  <2> QED BY <2>2, <2>4, <2>5 DEF ModeShown
<1>2. CASE LoadOther
  <2>1. PICK f \in SettingFile : Loads([conc |-> f.adv.conc, robots |-> f.robots, profile |-> NotSaid, adv |-> f.adv])
    BY <1>2 DEF LoadOther
  <2>2. leftMode' = TRUE /\ back' = {} /\ dlg = {} /\ UNCHANGED <<dlg, saved, usable, shellRun>>
    BY <1>2 DEF LoadOther, Main, SettingsAct
  <2> DEFINE g == [conc |-> f.adv.conc, robots |-> f.robots, profile |-> NotSaid, adv |-> f.adv]
  <2>3. f.adv \in ConfigRead /\ f.robots \in BOOLEAN
    BY DEF SettingsAssumption
  <2>4. g.conc \in Int /\ g.robots \in BOOLEAN /\ g.profile \in Named /\ g.adv \in ConfigRead
    BY <2>3 DEF ConfigRead, Named
  <2>5. Loads(g)
    BY <2>1
  <2> HIDE DEF g
  <2>6. WindowHolds'
    BY <2>2, <2>4, <2>5, LoadsHold
  <2> QED BY <2>2, <2>6 DEF ModeShown, LoadGivesBack
<1> QED BY <1>1, <1>2

\* What the command line hands to the crawl holds of each layer what the uppermost says.
LEMMA RunIsUppermost ==
  ASSUME SettingsAssumption, NEW s \in Layers, ValidConfig(Overrides(s))
  PROVE  LET cfg == WithContact(Overrides(s), s.flags.note) IN
         /\ cfg.conc = Uppermost(<<s.set.conc, s.flags.conc, s.env.conc, s.file.adv.conc>>)
         /\ cfg.robots = Uppermost(<<s.flags.robots, s.file.robots, s.file.adv.robots>>)
         /\ cfg.hi = Uppermost(<<s.set.hi, s.file.adv.hi>>)
         /\ cfg.note = Uppermost(<<s.flags.note, s.env.note, s.file.adv.note>>)
         /\ LevelOf(s) = Uppermost(<<s.set.level, s.flags.level, s.env.level, "prefs">>)
         /\ ValidConfig(cfg)
<1> DEFINE a == s.file.adv
           over == Overrides(s)
           cfg == WithContact(over, s.flags.note)
           conc == IF s.env.conc \in {NotSaid, Junk} THEN a.conc ELSE s.env.conc
<1>1. a \in ConfigRead /\ s.file.robots \in BOOLEAN \cup {NotSaid} /\ s.flags \in FlagLayer /\ s.env \in EnvLayer /\ s.set \in SetLayer
      /\ Junk \notin {s.set.conc, s.set.hi, s.set.level}
  BY DEF Layers, GoodConfig
<1>2. /\ a.conc \in Int /\ a.robots \in BOOLEAN /\ a.hi \in Int /\ a.lo \in Int /\ a.note \in Words
      /\ s.flags.conc \in Int \cup {NotSaid} /\ s.flags.robots \in BOOLEAN \cup {NotSaid}
      /\ s.flags.level \in Words \cup {NotSaid} /\ s.flags.note \in Words \cup {NotSaid}
      /\ s.env.conc \in Int \cup {NotSaid, Junk} /\ s.env.level \in Words \cup {NotSaid, Junk} /\ s.env.note \in Words \cup {NotSaid}
      /\ s.set.conc \in Int \cup {NotSaid} /\ s.set.hi \in Int \cup {NotSaid} /\ s.set.level \in Words \cup {NotSaid}
  BY <1>1 DEF SettingsAssumption, ConfigRead
<1>3. /\ NotSaid # Junk /\ "prefs" \in Words
      /\ \A x \in Int : x \notin {NotSaid, Junk}
      /\ \A x \in BOOLEAN : x \notin {NotSaid, Junk}
      /\ \A x \in Words : x \notin {NotSaid, Junk}
  BY DEF SettingsAssumption
<1> DEFINE from == FromEnv(a, s.env)
<1>4. conc \in Int /\ Or(s.env.note, a.note) \in Words
  BY <1>2 DEF Or
<1>5. from \in ConfigRead /\ from.conc = conc /\ from.robots = a.robots /\ from.lo = a.lo /\ from.hi = a.hi
      /\ from.note = Or(s.env.note, a.note)
  <2> DEFINE f == [a EXCEPT !.conc = conc]
  <2>1. f \in ConfigRead /\ f.conc = conc /\ f.robots = a.robots /\ f.lo = a.lo /\ f.hi = a.hi /\ f.note = a.note
    BY <1>1, <1>4 DEF ConfigRead
  <2>2. f = [a EXCEPT !.conc = IF s.env.conc \in {NotSaid, Junk} THEN @ ELSE s.env.conc]
    BY <1>1 DEF ConfigRead
  <2> HIDE DEF f
  <2>3. from = IF s.env.note = NotSaid THEN f ELSE [f EXCEPT !.note = s.env.note]
    BY <2>2 DEF FromEnv, WithContact
  <2>4. CASE s.env.note = NotSaid
    BY <2>1, <2>3, <2>4 DEF Or
  <2>5. CASE s.env.note # NotSaid
    <3>1. s.env.note \in Words /\ from = [f EXCEPT !.note = s.env.note]
      BY <1>2, <2>3, <2>5
    <3> QED BY <2>1, <2>5, <3>1 DEF Or, ConfigRead
  <2> QED BY <2>4, <2>5
<1> HIDE DEF conc, from
<1> DEFINE c == Or(s.set.conc, Or(s.flags.conc, conc))
           b == Or(s.flags.robots, Or(s.file.robots, a.robots))
           h == Or(s.set.hi, a.hi)
<1>6. c \in Int /\ b \in BOOLEAN /\ h \in Int
  BY <1>1, <1>2, <1>4 DEF Or
<1>7. over \in ConfigRead /\ over.conc = c /\ over.robots = b /\ over.hi = h /\ over.note = Or(s.env.note, a.note)
  <2>1. over = [from EXCEPT !.conc = c, !.robots = b, !.hi = h]
    BY <1>5 DEF Overrides, from, ConfigRead
  <2> HIDE DEF over, c, b, h
  <2> QED BY <1>5, <1>6, <2>1 DEF ConfigRead
<1> HIDE DEF over, c, b, h
<1>8. cfg.conc = c /\ cfg.robots = b /\ cfg.hi = h /\ cfg.lo = over.lo /\ cfg.note = Or(s.flags.note, Or(s.env.note, a.note))
  <2>1. CASE s.flags.note = NotSaid
    BY <1>7, <2>1 DEF WithContact, Or
  <2>2. CASE s.flags.note # NotSaid
    <3>1. s.flags.note \in Words /\ cfg = [over EXCEPT !.note = s.flags.note]
      BY <1>2, <2>2 DEF WithContact
    <3> QED BY <1>7, <2>2, <3>1 DEF Or, ConfigRead
  <2> QED BY <2>1, <2>2
<1> HIDE DEF cfg
<1>9. ValidConfig(cfg)
  BY <1>7, <1>8 DEF ValidConfig, over
<1>10. cfg.conc = Uppermost(<<s.set.conc, s.flags.conc, s.env.conc, a.conc>>)
  <2>1. Uppermost(<<s.set.conc, s.flags.conc, s.env.conc, a.conc>>) =
          IF s.set.conc \in {NotSaid, Junk}
          THEN IF s.flags.conc \in {NotSaid, Junk} THEN IF s.env.conc \in {NotSaid, Junk} THEN a.conc ELSE s.env.conc ELSE s.flags.conc
          ELSE s.set.conc
    <3>1. a.conc \notin {NotSaid, Junk}
      BY <1>2, <1>3
    <3> QED BY <3>1, UppermostOfFour, Zenon
  <2>2. s.set.conc # Junk /\ s.flags.conc # Junk
    BY <1>2, <1>3
  <2> QED BY <1>8, <2>1, <2>2 DEF Or, c, conc
<1>11. cfg.robots = Uppermost(<<s.flags.robots, s.file.robots, a.robots>>)
  <2>1. Uppermost(<<s.flags.robots, s.file.robots, a.robots>>) =
          IF s.flags.robots \in {NotSaid, Junk} THEN IF s.file.robots \in {NotSaid, Junk} THEN a.robots ELSE s.file.robots ELSE s.flags.robots
    <3>1. a.robots \notin {NotSaid, Junk}
      BY <1>2, <1>3
    <3> QED BY <3>1, UppermostOfThree, Zenon
  <2>2. s.flags.robots # Junk /\ s.file.robots # Junk
    BY <1>1, <1>2, <1>3
  <2> QED BY <1>8, <2>1, <2>2 DEF Or, b
<1>12. cfg.hi = Uppermost(<<s.set.hi, a.hi>>)
  <2>1. Uppermost(<<s.set.hi, a.hi>>) = IF s.set.hi \in {NotSaid, Junk} THEN a.hi ELSE s.set.hi
    <3>1. a.hi \notin {NotSaid, Junk}
      BY <1>2, <1>3
    <3> QED BY <3>1, UppermostOfTwo, Zenon
  <2>2. s.set.hi # Junk
    BY <1>2, <1>3
  <2> QED BY <1>8, <2>1, <2>2 DEF Or, h
<1>13. cfg.note = Uppermost(<<s.flags.note, s.env.note, a.note>>)
  <2>1. Uppermost(<<s.flags.note, s.env.note, a.note>>) =
          IF s.flags.note \in {NotSaid, Junk} THEN IF s.env.note \in {NotSaid, Junk} THEN a.note ELSE s.env.note ELSE s.flags.note
    <3>1. a.note \notin {NotSaid, Junk}
      BY <1>2, <1>3
    <3> QED BY <3>1, UppermostOfThree, Zenon
  <2>2. s.flags.note # Junk /\ s.env.note # Junk
    BY <1>2, <1>3
  <2> QED BY <1>8, <2>1, <2>2 DEF Or
<1>14. LevelOf(s) = Uppermost(<<s.set.level, s.flags.level, s.env.level, "prefs">>)
  <2>1. Uppermost(<<s.set.level, s.flags.level, s.env.level, "prefs">>) =
          IF s.set.level \in {NotSaid, Junk}
          THEN IF s.flags.level \in {NotSaid, Junk} THEN IF s.env.level \in {NotSaid, Junk} THEN "prefs" ELSE s.env.level ELSE s.flags.level
          ELSE s.set.level
    <3>1. "prefs" \notin {NotSaid, Junk}
      BY <1>3
    <3> QED BY <3>1, UppermostOfFour, Zenon
  <2>2. s.set.level # Junk /\ s.flags.level # Junk
    BY <1>2, <1>3
  <2> QED BY <1>3, <2>1, <2>2 DEF Or, LevelOf
<1> QED BY <1>9, <1>10, <1>11, <1>12, <1>13, <1>14 DEF cfg, over

\* What the command line does: it reads, lays over each other, refuses or runs.
LEMMA ShellKeepsLayers ==
  ASSUME SettingsAssumption, LayersInv, ShellReads \/ ShellLayers \/ ShellRuns \/ ShellEnds \/ ShellFails
  PROVE  LayersInv'
<1>1. UNCHANGED <<win, adv, dlg, saved, usable, leftMode, back>>
  BY DEF ShellReads, ShellLayers, ShellRuns, ShellEnds, ShellFails, Shell
<1>2. WindowHolds' /\ ModeShown' /\ LoadGivesBack'
  BY <1>1 DEF LayersInv, WindowHolds, WidgetsHold, ModeShown, LoadGivesBack, WindowRuns
<1> SUFFICES ShellHolds' /\ UppermostHolds'
  BY <1>2 DEF LayersInv
<1>3. CASE shellRun'.step \notin {"layers", "proxy", "ran"}
  BY <1>3 DEF ShellHolds, UppermostHolds
<1>4. CASE ShellReads
  <2>1. PICK f \in ShellFiles, fl \in FlagLayer, env \in EnvLayer, set \in SetLayer :
          shellRun' = IF ~ValidConfig(f.adv) \/ Junk \in {set.conc, set.hi, set.level} THEN Refused
                   ELSE [step |-> "layers", file |-> f, flags |-> fl, env |-> env, set |-> set]
    BY <1>4 DEF ShellReads
  <2>2. CASE ~ValidConfig(f.adv) \/ Junk \in {set.conc, set.hi, set.level}
    BY <1>3, <2>1, <2>2 DEF Refused
  <2>3. CASE ValidConfig(f.adv) /\ Junk \notin {set.conc, set.hi, set.level}
    <3>1. f \in [adv : GoodConfig, robots : BOOLEAN \cup {NotSaid}]
      <4>1. CASE f = [adv |-> DefaultConfig, robots |-> NotSaid]
        <5>1. DefaultConfig \in ConfigRead
          BY DEF DefaultConfig, Config, ConfigRead, Modes, SettingsAssumption
        <5> QED BY <2>3, <4>1, <5>1 DEF GoodConfig
      <4>2. ASSUME NEW x \in saved, f = [adv |-> x.adv, robots |-> x.robots]
            PROVE  f \in [adv : GoodConfig, robots : BOOLEAN \cup {NotSaid}]
        <5>1. x.adv \in GoodConfig /\ x.robots \in BOOLEAN
          BY DEF LayersInv, WindowHolds, Writings
        <5> QED BY <4>2, <5>1
      <4>3. ASSUME NEW x \in SettingFile, f = [adv |-> x.adv, robots |-> IF x.window THEN x.robots ELSE NotSaid]
            PROVE  f \in [adv : GoodConfig, robots : BOOLEAN \cup {NotSaid}]
        <5>1. x.adv \in ConfigRead /\ x.robots \in BOOLEAN
          BY DEF SettingsAssumption
        <5> QED BY <2>3, <4>3, <5>1 DEF GoodConfig
      <4> QED BY <4>1, <4>2, <4>3 DEF ShellFiles
    <3>2. shellRun' = [step |-> "layers", file |-> f, flags |-> fl, env |-> env, set |-> set]
      BY <2>1, <2>3
    <3>3. shellRun' \in Layers /\ shellRun'.step = "layers"
      BY <2>3, <3>1, <3>2 DEF Layers
    <3> QED BY <3>3 DEF ShellHolds, UppermostHolds
  <2> QED BY <2>2, <2>3
<1>5. CASE ShellLayers
  <2>1. shellRun.step = "layers" /\ shellRun \in Layers
    BY <1>5 DEF ShellLayers, Shell, LayersInv, ShellHolds
  <2>2. CASE shellRun' = Refused
    BY <1>3, <2>2 DEF Refused
  <2>3. CASE ValidConfig(Overrides(shellRun)) /\ shellRun' = [shellRun EXCEPT !.step = "proxy"]
    <3>1. shellRun' \in Layers /\ shellRun'.step = "proxy" /\ shellRun'.file = shellRun.file /\ shellRun'.flags = shellRun.flags
          /\ shellRun'.env = shellRun.env /\ shellRun'.set = shellRun.set
      BY <2>1, <2>3 DEF Layers
    <3>2. ValidConfig(Overrides(shellRun'))
      BY <2>3, <3>1 DEF Overrides
    <3> QED BY <3>1, <3>2 DEF ShellHolds, UppermostHolds
  <2> QED BY <1>5, <2>2, <2>3 DEF ShellLayers
<1>6. CASE ShellRuns
  <2>1. shellRun.step = "proxy" /\ shellRun \in Layers /\ ValidConfig(Overrides(shellRun))
    BY <1>6 DEF ShellRuns, Shell, LayersInv, ShellHolds
  <2>2. CASE shellRun' = Refused
    BY <1>3, <2>2 DEF Refused
  <2>3. CASE shellRun' = [step |-> "ran", asked |-> shellRun, level |-> LevelOf(shellRun), profile |-> shellRun.flags.profile,
                          cfg |-> WithContact(Overrides(shellRun), shellRun.flags.note)]
    <3>1. shellRun'.step = "ran" /\ shellRun'.asked = shellRun /\ shellRun'.level = LevelOf(shellRun)
          /\ shellRun'.cfg = WithContact(Overrides(shellRun), shellRun.flags.note)
      BY <2>3
    <3>2. ShellHolds'
      BY <3>1 DEF ShellHolds
    <3>3. UppermostHolds'
      BY <2>1, <3>1, RunIsUppermost DEF UppermostHolds
    <3> QED BY <3>2, <3>3
  <2> QED BY <1>6, <2>2, <2>3 DEF ShellRuns
<1>7. CASE ShellEnds \/ ShellFails
  BY <1>3, <1>7 DEF ShellEnds, ShellFails
<1> QED BY <1>4, <1>5, <1>6, <1>7

\* Each step keeps what is known of the two entrances.
LEMMA SettingsStepKeeps ==
  ASSUME SettingsAssumption, LayersInv, [SettingsNext]_settings
  PROVE  LayersInv'
<1>1. CASE UNCHANGED settings
  BY <1>1 DEF settings, LayersInv, WindowHolds, WidgetsHold, ShellHolds, ModeShown, LoadGivesBack, UppermostHolds, WindowRuns,
              Overrides, FromEnv, LevelOf
<1>2. CASE SettingsNext
  BY <1>2, WindowKeepsLayers, DialogKeepsLayers, LoadKeepsLayers, ShellKeepsLayers DEF SettingsNext, Named
<1> QED BY <1>1, <1>2

\* Whatever was loaded, edited or reset in the window its configuration is valid and its
\* mode the one shown, a saved file gives back what was saved, and on the command line the
\* uppermost layer that says anything has its word: config.py, cli/main.py, gui/main_window.py,
\* gui/advanced_dialog.py.
THEOREM LayersStay == SettingsSpec => []LayersSound
<1>1. SettingsInit => LayersInv
  BY SettingsAssumption, LayersHoldFirst
<1>2. LayersInv /\ [SettingsNext]_settings => LayersInv'
  BY SettingsAssumption, SettingsStepKeeps
<1>3. LayersInv => LayersSound
  <2> SUFFICES ASSUME LayersInv PROVE LayersSound
    OBVIOUS
  <2>1. adv \in ConfigRead /\ ValidConfig(adv) /\ win.conc \in Nat \ {0} /\ win.robots \in BOOLEAN
    BY DEF LayersInv, WindowHolds, WidgetsHold, Widgets, GoodConfig
  <2>2. WindowRuns.conc = win.conc /\ WindowRuns.lo = adv.lo /\ WindowRuns.hi = adv.hi
    BY <2>1 DEF WindowRuns, ConfigRead
  <2>3. WindowValid
    BY <2>1, <2>2 DEF WindowValid, ValidConfig
  <2> QED BY <2>3 DEF LayersSound, LayersInv
<1> QED BY <1>1, <1>2, <1>3, PTL DEF SettingsSpec
=============================================================================
