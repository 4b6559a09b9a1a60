---------------------------- MODULE DialogWorkers ----------------------------
(***************************************************************************)
(* The threads of the dialogs for rules and settings: gui/rules_dialog.py, *)
(* gui/_ai_profile_page.py, gui/_proxy_profile_page.py.  Each page of a    *)
(* dialog has at most one worker it knows of.  A worker posts its answer   *)
(* to the thread of the interface, which handles what is posted in order,  *)
(* and a dialog that closes stops the workers of its pages one by one,     *)
(* waiting for each with the interface standing still.                     *)
(*                                                                         *)
(* What a page does about its worker differs in a few ways only, given by  *)
(* Kind: `ends' where the page forgets the worker when the thread is over  *)
(* and not when its answer comes; `again' where it asks only whether the   *)
(* thread runs before it starts another; `permit' where the thread shares  *)
(* the one permit of the process for the generation of rules.              *)
(***************************************************************************)
EXTENDS Naturals, Sequences, FiniteSets, SequencesExt

CONSTANTS
  Pages,    \* the sequence in which a closing dialog cleans up
  Kind,
  NoOne,    \* the permit is free
  MaxWorkers, MaxOpenings

PageSet == Range(Pages)
DialogWorker == PageSet \X (1 .. MaxWorkers)

\* The page that generates rules hears the answer, not the end of its thread.
ASSUME WorkersAssumption ==
  /\ MaxWorkers \in Nat \ {0} /\ MaxOpenings \in Nat
  /\ Pages \in Seq(PageSet) /\ NoOne \notin DialogWorker
  /\ \A p \in PageSet : Kind[p] \in [ends : BOOLEAN, again : BOOLEAN, permit : BOOLEAN] /\ (Kind[p].permit => ~Kind[p].ends)

VARIABLES
  dialog,   \* open, closed, or how many pages it has yet to clean up
  worker,   \* of each page the number of the worker it knows of, or 0
  job,      \* of each worker where its thread is
  told,     \* workers that were cancelled, their signals disconnected
  posted,   \* what the interface has to handle: answers and ends of workers
  pulse,    \* _pulse_refcount
  permit,   \* who has the permit
  openings,
  past,     \* workers of dialogs that are gone
  loose     \* history: workers forgotten because of what another had posted

dialogs == <<dialog, worker, job, told, posted, pulse, permit, openings, past, loose>>

Started(p) == {n \in 1 .. MaxWorkers : job[<<p, n>>] # "none"}
Alive(w) == job[w] \in {"waits", "runs", "answered"}
Less(n) == IF n = 0 THEN 0 ELSE n - 1

-----------------------------------------------------------------------------
(* The user                                                                  *)

\* A button that is off until the answer comes is a page that has its worker.
Refuses(p) == worker[p] # 0 /\ (Kind[p].again => Alive(<<p, worker[p]>>))

StartJob(p) ==
  /\ dialog = "open" /\ ~Refuses(p)
  /\ LET n == Cardinality(Started(p)) + 1 IN
     /\ n <= MaxWorkers
     /\ worker' = [worker EXCEPT ![p] = n]
     /\ job' = [job EXCEPT ![<<p, n>>] = IF Kind[p].permit THEN "waits" ELSE "runs"]
  /\ pulse' = pulse + 1
  /\ UNCHANGED <<dialog, told, posted, permit, openings, past, loose>>

\* accept and reject
CloseDialog ==
  /\ dialog = "open" /\ dialog' = "closing"
  /\ UNCHANGED <<worker, job, told, posted, pulse, permit, openings, past, loose>>

\* Another dialog of the same sort; what was posted to the old one changes nothing here.
Reopen ==
  /\ dialog = "closed" /\ openings < MaxOpenings
  /\ dialog' = "open" /\ openings' = openings + 1
  /\ worker' = [p \in PageSet |-> 0] /\ pulse' = 0 /\ posted' = <<>>
  /\ past' = {w \in DialogWorker : job[w] # "none"}
  /\ UNCHANGED <<job, told, permit, loose>>

-----------------------------------------------------------------------------
(* The threads                                                               *)

TakePermit(w) ==
  /\ job[w] = "waits" /\ permit = NoOne
  /\ permit' = w /\ job' = [job EXCEPT ![w] = "runs"]
  /\ UNCHANGED <<dialog, worker, told, posted, pulse, openings, past, loose>>

Posts(w) == posted' = IF w \in past THEN posted ELSE Append(posted, w)

\* Two minutes without the permit are an error, which is an answer.
PermitRefused(w) ==
  /\ job[w] = "waits" /\ permit # NoOne
  /\ job' = [job EXCEPT ![w] = "answered"]
  /\ Posts(w)
  /\ UNCHANGED <<dialog, worker, told, pulse, permit, openings, past, loose>>

\* A result or an error.  A worker may be cancelled too late to notice.
Answers(w) ==
  /\ job[w] = "runs"
  /\ job' = [job EXCEPT ![w] = "answered"]
  /\ IF Kind[w[1]].ends THEN UNCHANGED posted ELSE Posts(w)
  /\ UNCHANGED <<dialog, worker, told, pulse, permit, openings, past, loose>>

\* run() returns, after an answer or without one, once it is cancelled.
JobOver(w) ==
  /\ job[w] = "answered" \/ (job[w] = "runs" /\ w \in told)
  /\ job' = [job EXCEPT ![w] = "ended"]
  /\ permit' = IF permit = w THEN NoOne ELSE permit
  /\ IF Kind[w[1]].ends THEN Posts(w) ELSE UNCHANGED posted
  /\ UNCHANGED <<dialog, worker, told, pulse, openings, past, loose>>

-----------------------------------------------------------------------------
(* The interface                                                             *)

\* Mutant: the page is not told that it is idle again.
MutHandle ==
  /\ dialog # "closing" /\ posted # <<>> /\ posted' = Tail(posted)
  /\ LET w == Head(posted)
         p == w[1]
     IN /\ worker' = [worker EXCEPT ![p] = 0] /\ UNCHANGED pulse
        /\ loose' = IF worker[p] \in {0, w[2]} THEN loose ELSE loose \cup {<<p, worker[p]>>}
  /\ UNCHANGED <<dialog, job, told, permit, openings, past>>

\* The page forgets its worker, whichever worker this was posted by.
Handle ==
  /\ dialog # "closing" /\ posted # <<>> /\ posted' = Tail(posted)
  /\ LET w == Head(posted)
         p == w[1]
     IN \/ /\ worker' = [worker EXCEPT ![p] = 0] /\ pulse' = Less(pulse)
           /\ loose' = IF worker[p] \in {0, w[2]} THEN loose ELSE loose \cup {<<p, worker[p]>>}
        \/ w \in told /\ UNCHANGED <<worker, pulse, loose>>
  /\ UNCHANGED <<dialog, job, told, permit, openings, past>>

\* The page the closing dialog is at: the first that has a worker
Cleaned(p) == worker[p] = 0
At(p) ==
  /\ dialog = "closing" /\ ~Cleaned(p)
  /\ \A i, j \in DOMAIN Pages : i < j /\ Pages[j] = p => Cleaned(Pages[i])

Forget(p) == worker' = [worker EXCEPT ![p] = 0] /\ pulse' = Less(pulse)

\* _cleanup_worker: what does not run is forgotten, what runs is cut off and cancelled.
CutOffJob(p) ==
  /\ At(p) /\ Alive(<<p, worker[p]>>) /\ <<p, worker[p]>> \notin told
  /\ told' = told \cup {<<p, worker[p]>>}
  /\ UNCHANGED <<dialog, worker, job, posted, pulse, permit, openings, past, loose>>

Release(p) ==
  /\ At(p) /\ ~Alive(<<p, worker[p]>>) /\ Forget(p)
  /\ UNCHANGED <<dialog, job, told, posted, permit, openings, past, loose>>

\* wait() runs out and the thread is terminated, with all it holds.
Terminate(p) ==
  /\ At(p) /\ Alive(<<p, worker[p]>>) /\ <<p, worker[p]>> \in told
  /\ job' = [job EXCEPT ![<<p, worker[p]>>] = "killed"] /\ Forget(p)
  /\ UNCHANGED <<dialog, told, posted, permit, openings, past, loose>>

DialogClosed ==
  /\ dialog = "closing" /\ (\A p \in PageSet : Cleaned(p)) /\ dialog' = "closed"
  /\ UNCHANGED <<worker, job, told, posted, pulse, permit, openings, past, loose>>

DialogsInit ==
  /\ dialog = "open" /\ worker = [p \in PageSet |-> 0] /\ job = [w \in DialogWorker |-> "none"]
  /\ told = {} /\ posted = <<>> /\ pulse = 0 /\ permit = NoOne /\ openings = 1
  /\ past = {} /\ loose = {}

WorkerStep(w) == TakePermit(w) \/ PermitRefused(w) \/ Answers(w) \/ JobOver(w)
Clean == DialogClosed \/ \E p \in PageSet : CutOffJob(p) \/ Release(p) \/ Terminate(p)

DialogsNext ==
  \/ CloseDialog \/ Reopen \/ Handle \/ Clean
  \/ \E p \in PageSet : StartJob(p)
  \/ \E w \in DialogWorker : WorkerStep(w)

\* Requests have time limits, and the loop of the interface goes on.
DialogsFair == WF_dialogs(Handle) /\ WF_dialogs(Clean) /\ \A w \in DialogWorker : WF_dialogs(WorkerStep(w))

DialogsSpec == DialogsInit /\ [][DialogsNext]_dialogs /\ DialogsFair

DialogsTypeOK ==
  /\ dialog \in {"open", "closing", "closed"} /\ worker \in [PageSet -> 0 .. MaxWorkers]
  /\ pulse \in 0 .. Cardinality(DialogWorker) /\ permit \in DialogWorker \cup {NoOne} /\ told \subseteq DialogWorker

-----------------------------------------------------------------------------
\* No thread is at work after its dialog is closed, but one whose page forgot it because
\* a worker before it had only then been heard to end.
NoneOutlives == dialog = "closed" => \A w \in DialogWorker : job[w] \in {"waits", "runs"} => w \in loose

\* No two threads generate rules at a time, whatever was cancelled or terminated.
OneGeneration ==
  \A w \in DialogWorker : Kind[w[1]].permit /\ job[w] = "runs" => permit = w

\* While the dialog is open its bar moves if, and only if, a worker is not yet done.
PulseTrue ==
  dialog = "open" => pulse = Cardinality({w \in DialogWorker \ (told \cup past) :
    job[w] \in {"waits", "runs"} \/ (Kind[w[1]].ends /\ job[w] = "answered")
      \/ \E i \in DOMAIN posted : posted[i] = w})

\* All three: a dialog leaves no thread behind, makes one rule at a time, and shows
\* whether it is at work.
DialogSound == NoneOutlives /\ OneGeneration /\ PulseTrue

\* A worker no one has heard of, or a dialog that is to close: neither is for ever.
Unsettled == dialog = "closing" \/ \E p \in PageSet : worker[p] # 0
DialogsEnd == Unsettled ~> ~Unsettled
=============================================================================
