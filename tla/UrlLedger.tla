------------------------------ MODULE UrlLedger ------------------------------
(***************************************************************************)
(* What the persistent store promises about each URL, whatever table its   *)
(* rows happen to be in.  A URL is "unseen" until it is admitted, then     *)
(* "pending" until it is either "completed" or "failed".  Completion is    *)
(* for ever.  A pending URL is only ever forgotten in the very step that   *)
(* completes the page it was redirected to.                                *)
(***************************************************************************)
CONSTANT Url

VARIABLE status   \* what the store knows of each URL

Status == {"unseen", "pending", "failed", "completed"}

TypeOK == status \in [Url -> Status]

Init == status = [u \in Url |-> "unseen"]

NotCompleted == {u \in Url : status[u] # "completed"}

\* A URL that was never seen, or was given up, enters the frontier.
Admit(u) ==
  /\ status[u] \in {"unseen", "failed"}
  /\ status' = [status EXCEPT ![u] = "pending"]

\* The page `page' is done.  It was fetched as `asked', which is forgotten
\* when it is an alias of the page and nothing else is waiting for it.
Complete(asked, page) ==
  \E s \in {status[asked], "unseen"} :
    /\ status[asked] = "completed" => s = "completed"
    /\ status' = [status EXCEPT ![asked] = s, ![page] = "completed"]

\* URLs that were tried, or will not be tried any more, are given up.
GiveUp(S) ==
  /\ S \subseteq NotCompleted
  /\ status' = [u \in Url |-> IF u \in S THEN "failed" ELSE status[u]]

\* The record of given-up URLs is dropped, so that they can be met again.
ForgetFailures(S) ==
  /\ \A u \in S : status[u] = "failed"
  /\ status' = [u \in Url |-> IF u \in S THEN "unseen" ELSE status[u]]

\* A crawl that has completed nothing starts from an empty store.
StartAfresh ==
  /\ NotCompleted = Url
  /\ status' = [u \in Url |-> "unseen"]

Next ==
  \/ \E S \in SUBSET Url : GiveUp(S) \/ ForgetFailures(S)
  \/ \E u \in Url : Admit(u)
  \/ \E asked, page \in Url : Complete(asked, page)
  \/ StartAfresh

Spec == Init /\ [][Next]_status

=============================================================================
