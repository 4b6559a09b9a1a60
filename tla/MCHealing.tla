------------------------------ MODULE MCHealing ------------------------------
(***************************************************************************)
(* The engine with a history of the links its completed pages hold.        *)
(***************************************************************************)
EXTENDS MCCrawlEngine

\* Links of completed pages, within the depth limit, not met since
VARIABLE owed

Extracted ==
  UNION {IF pc[i] = "finalize" /\ pc'[i] = "links" /\ job[i].depth + 1 < depthLimit
         THEN job[i].links ELSE {} : i \in Worker}

HistorySpec ==
  /\ EngineInit /\ owed = {}
  /\ [][EngineNext /\ owed' = (owed \cup Extracted) \ (Known' \cup Failed')]_<<vars, owed>>

\* Once start-up has healed the link graph, no child of a completed page is
\* missing, however the session before it ended.
LostChildrenHealed == main = "seed" => owed = {}

=============================================================================
