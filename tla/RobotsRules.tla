----------------------------- MODULE RobotsRules -----------------------------
(***************************************************************************)
(* class AsyncRobotsParser of network/robots.py: a robots.txt is read line *)
(* by line into groups, one per user agent, and a path is allowed or not   *)
(* by the most specific rule of the group that is ours.  Next to the       *)
(* parser's state the lines read are kept, and RFC 9309 is stated of them. *)
(*                                                                         *)
(* How a rule's wildcards match is a constant, and so is its length.       *)
(***************************************************************************)
EXTENDS Naturals, Sequences, FiniteSetsExt

CONSTANTS
  Agent,    \* user agents, "ours" and "*" among them
  Rule,     \* paths of Allow and Disallow lines
  Length,   \* the length of each
  Path,     \* paths of URLs
  Matches,  \* the paths that a rule matches
  Delay,    \* values of Crawl-delay and Request-rate lines
  MaxDelay,  \* the longest that is taken, 3600 s
  MaxLines  \* bound on the file

ASSUME RulesAssumption ==
  /\ {"ours", "*"} \subseteq Agent
  /\ Length \in [Rule -> Nat \ {0}] /\ Matches \in [Rule -> SUBSET Path]
  /\ Delay \subseteq Nat /\ MaxDelay \in Nat /\ MaxLines \in Nat

VARIABLES
  groups,    \* each agent met: its rules and its delay, 0 for none
  current,   \* current_ua, "" before the first
  sitemaps,  \* how many
  lines      \* history: the lines read

rules == <<groups, current, sitemaps, lines>>

AgentLine == [is : {"agent"}, of : Agent]
RuleLine == [is : {"allow", "disallow"}, of : Rule]
DelayLine == [is : {"delay"}, of : Delay]
SitemapLine == [is : {"sitemap"}, of : {""}]

Group == [allow : SUBSET Rule, disallow : SUBSET Rule, delay : Delay \cup {0}]
NewGroup == [allow |-> {}, disallow |-> {}, delay |-> 0]

RulesTypeOK ==
  /\ DOMAIN groups \subseteq Agent /\ \A a \in DOMAIN groups : groups[a] \in Group
  /\ current \in DOMAIN groups \cup {""} /\ sitemaps \in 0 .. MaxLines

-----------------------------------------------------------------------------
(* parse                                                                     *)

Keep(line) == lines' = Append(lines, line)
SetGroup(g) == groups' = [groups EXCEPT ![current] = g]

\* Mutant: a second group for the same agent starts afresh.
MutAgentMet(line) ==
  /\ groups' = [a \in DOMAIN groups \cup {line.of} |-> IF a = line.of THEN NewGroup ELSE groups[a]]
  /\ current' = line.of /\ UNCHANGED sitemaps

\* Each user-agent line takes over from the one before.
AgentMet(line) ==
  /\ groups' = [a \in DOMAIN groups \cup {line.of} |-> IF a \in DOMAIN groups THEN groups[a] ELSE NewGroup]
  /\ current' = line.of /\ UNCHANGED sitemaps

RuleMet(line) ==
  /\ IF current = "" THEN UNCHANGED groups
     ELSE IF line.is = "allow" THEN SetGroup([groups[current] EXCEPT !.allow = @ \cup {line.of}])
     ELSE SetGroup([groups[current] EXCEPT !.disallow = @ \cup {line.of}])
  /\ UNCHANGED <<current, sitemaps>>

DelayMet(line) ==
  /\ IF current = "" \/ line.of \notin 1 .. MaxDelay THEN UNCHANGED groups
     ELSE SetGroup([groups[current] EXCEPT !.delay = line.of])
  /\ UNCHANGED <<current, sitemaps>>

SitemapMet ==
  /\ sitemaps' = sitemaps + (IF current = "" THEN 0 ELSE 1)
  /\ UNCHANGED <<groups, current>>

RulesInit == groups = [a \in {} |-> NewGroup] /\ current = "" /\ sitemaps = 0 /\ lines = <<>>

RulesNext ==
  /\ Len(lines) < MaxLines
  /\ \/ \E l \in AgentLine : AgentMet(l) /\ Keep(l)
     \/ \E l \in RuleLine : RuleMet(l) /\ Keep(l)
     \/ \E l \in DelayLine : DelayMet(l) /\ Keep(l)
     \/ \E l \in SitemapLine : SitemapMet /\ Keep(l)

RulesSpec == RulesInit /\ [][RulesNext]_rules

-----------------------------------------------------------------------------
(* can_fetch                                                                 *)

OurGroup == IF "ours" \in DOMAIN groups THEN {groups["ours"]}
        ELSE IF "*" \in DOMAIN groups THEN {groups["*"]} ELSE {}

\* The length of the longest rule that matches, 0 if none does
Best(some, path) == Max({Length[r] : r \in {q \in some : path \in Matches[q]}} \cup {0})

\* A disallowing rule has to be longer than the best that allows.
CanFetch(path) == \A g \in OurGroup : Best(g.disallow, path) <= Best(g.allow, path)

-----------------------------------------------------------------------------
(* RFC 9309 of the lines themselves                                          *)

\* The agents whose group line i belongs to: those of the nearest run of
\* user-agent lines before it.
AgentsOf(i) ==
  LET before == {j \in 1 .. i : lines[j].is = "agent"}
      run == {j \in before : \A k \in j .. Max(before) : lines[k].is = "agent"}
  IN IF before = {} THEN {} ELSE {lines[j].of : j \in run}

Named == {lines[i].of : i \in {j \in DOMAIN lines : lines[j].is = "agent"}}
Us == IF "ours" \in Named THEN "ours" ELSE "*"
Applies(kind) == {lines[i].of : i \in {j \in DOMAIN lines : lines[j].is = kind /\ Us \in AgentsOf(j)}}

Allowed(path) ==
  LET hits(kind) == {r \in Applies(kind) : path \in Matches[r]}
  IN \A d \in hits("disallow") : \E a \in hits("allow") : Length[a] >= Length[d]

\* No two user-agent lines in a row: where they are, the code gives the rules to
\* the last agent alone.
OneAgentPerGroup == \A i \in 2 .. Len(lines) : ~(lines[i].is = "agent" /\ lines[i - 1].is = "agent")

\* Groups in any order, repeated, interleaved with groups of others or empty, and
\* rules of any length: the verdict on every path is that of RFC 9309.
VerdictOfRFC == OneAgentPerGroup => \A path \in Path : CanFetch(path) <=> Allowed(path)
=============================================================================
