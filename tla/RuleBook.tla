------------------------------- MODULE RuleBook -------------------------------
(***************************************************************************)
(* The rules of extraction from their files to a page: rules/_loader.py,   *)
(* _lifecycle.py, _state.py and _matcher.py.  A snapshot is built of the   *)
(* files of three sources and of the file that says which rules are        *)
(* switched off; a crawl is refused over a snapshot in conflict, and keeps *)
(* the one it began with; each page is answered with one rule, through an  *)
(* index by domain and a cache by host that belong to the snapshot.        *)
(*                                                                         *)
(* A pattern is abstracted to the pages it fits and its length, a host to  *)
(* itself and the domains above it.  Files are written, and switches set,  *)
(* by other processes at any time.                                         *)
(***************************************************************************)
EXTENDS Naturals, FiniteSets, FiniteSetsExt

CONSTANTS
  RuleFile,    \* files that may be there: [name, from, version, scope, domains, pattern, on, order]
  Shelf,       \* the sets of them that are
  Page, HostOf,
  Above,       \* of a host: the domains it is below
  FitsPages,   \* of a pattern: the pages it is found in
  Size,        \* and its length
  NameRank,    \* names in their order
  MaxRules,    \* MAX_RULES_TOTAL
  MaxGeneric,  \* rules_max_generic
  NoFile,      \* rules_state.json is not there
  MaxAnswers   \* bound: pages answered, and changes of files

MaxSize == Max({0} \cup {Size[p] : p \in DOMAIN Size})
MaxVersion == Max({0} \cup {f.version : f \in RuleFile})

RuleNames == {f.name : f \in RuleFile}
Default == "default"

\* There are finitely many files and patterns, and a name has a place of its own in the order.
ASSUME BookAssumption ==
  /\ MaxRules \in Nat /\ MaxGeneric \in Nat /\ MaxAnswers \in Nat
  /\ \A s \in Shelf : s \subseteq RuleFile
  /\ \A f \in RuleFile : /\ f.from \in {"pip", "remote", "user"} /\ f.version \in Nat \ {0} /\ f.order \in Nat
                         /\ f.pattern # "" => f.pattern \in DOMAIN Size
  /\ IsFiniteSet(RuleFile) /\ IsFiniteSet(DOMAIN Size) /\ \A p \in DOMAIN Size : Size[p] \in Nat
  /\ \A m, n \in RuleNames : NameRank[n] \in Nat /\ (NameRank[m] = NameRank[n] => m = n)

VARIABLES
  shelf,     \* the rule files
  switches,  \* names switched off by rules_state.json, or NoFile
  loaded,      \* the snapshot of RuleLifecycle
  used,      \* the snapshot of the crawl, or none
  memory,    \* _match_cache of that snapshot: host to name
  answered,   \* history: pages answered since and how, [page, rule]
  acts

book == <<shelf, switches, loaded, used, memory, answered, acts>>

-----------------------------------------------------------------------------
(* build_rule_snapshot                                                       *)

Priority(from) == CASE from = "pip" -> 0 [] from = "remote" -> 1 [] from = "user" -> 2

\* _resolve_scope
ScopeOf(f) ==
  IF f.scope # "" THEN f.scope
  ELSE IF f.domains # {} THEN (IF f.pattern # "" THEN "domain_pattern" ELSE "domain_all")
  ELSE IF f.pattern # "" THEN "global_pattern" ELSE "any"

\* validate_rule, of the name and of the scope: what fails it is skipped when it is loaded.
Valid(f) ==
  /\ f.name # Default
  /\ ScopeOf(f) \in {"domain_pattern", "domain_all", "global_pattern", "any"}
  /\ ScopeOf(f) \in {"domain_pattern", "domain_all"} <=> f.domains # {}
  /\ ScopeOf(f) \in {"domain_pattern", "global_pattern"} => f.pattern # ""

Generic(f) == ScopeOf(f) \in {"global_pattern", "any"}
Patterned(f) == ScopeOf(f) \in {"domain_pattern", "global_pattern"}
LengthOf(f) == IF Patterned(f) THEN Size[f.pattern] ELSE 0

Outranks(f, g) ==
  \/ Priority(f.from) < Priority(g.from)
  \/ Priority(f.from) = Priority(g.from) /\ f.version > g.version

\* _deduplicate_rules: of one name, the first of the best
Deduplicated(files) ==
  {f \in files : \A g \in files \ {f} : g.name = f.name =>
                   Outranks(f, g) \/ (~Outranks(g, f) /\ f.order < g.order)}

ScopeRank(f) ==
  CASE ScopeOf(f) = "domain_pattern" -> 0 [] ScopeOf(f) = "domain_all" -> 1
    [] ScopeOf(f) = "global_pattern" -> 2 [] OTHER -> 3

\* The first difference decides.
SortsBefore(a, b) ==
  LET unequal == {i \in DOMAIN a : a[i] # b[i]} IN unequal # {} /\ a[Min(unequal)] < b[Min(unequal)]

\* _rule_sort_key; what is equal stays where its name was first met.
SortKey(f, files) ==
  <<ScopeRank(f), MaxSize - LengthOf(f), MaxVersion - f.version,
    Min({g.order : g \in {h \in files : h.name = f.name}})>>

\* Both limits keep what comes first, whether it is switched on or not.
WithinLimits(rules, files) ==
  LET sooner(f) == {g \in rules : SortsBefore(SortKey(g, files), SortKey(f, files))}
      first == {f \in rules : Cardinality(sooner(f)) < MaxRules}
  IN {f \in first : Generic(f) => Cardinality({g \in sooner(f) : Generic(g)}) < MaxGeneric}

\* The state file, where there is one, against the rule's own flag
SwitchedOn(f) == IF switches = NoFile THEN f.on ELSE f.name \notin switches

Snapshot ==
  LET files == {f \in shelf : Valid(f)}
  IN {f \in WithinLimits(Deduplicated(files), files) : SwitchedOn(f)}

\* _detect_ambiguous_rules
Alike(f, g) ==
  /\ ScopeOf(f) = ScopeOf(g) /\ f.domains = g.domains /\ f.version = g.version
  /\ Patterned(f) => f.pattern = g.pattern
Conflict(rules) == \E f, g \in rules : f # g /\ Alike(f, g)

-----------------------------------------------------------------------------
(* _do_match                                                                 *)

Indexed(rules, domain) == {f \in rules : domain \in f.domains}

DomainScore(host, f) ==
  IF f.domains = {} THEN 2 ELSE IF host \in f.domains THEN 0 ELSE 1

Candidates(rules, page) ==
  LET host == HostOf[page]
      found == Indexed(rules, host) \cup (UNION {Indexed(rules, d) : d \in Above[host]}) \cup {f \in rules : Generic(f)}
  IN {f \in found : Patterned(f) => page \in FitsPages[f.pattern]}

\* The order of the candidates
Preferred(host, f, g) ==
  LET key(h) == <<DomainScore(host, h), MaxSize - LengthOf(h), MaxVersion - h.version, Priority(h.from), NameRank[h.name]>>
  IN SortsBefore(key(f), key(g))

Winner(rules, page) ==
  CHOOSE f \in Candidates(rules, page) :
    \A g \in Candidates(rules, page) \ {f} : Preferred(HostOf[page], f, g)

-----------------------------------------------------------------------------
(* What happens                                                              *)

Act == acts < MaxAnswers /\ acts' = acts + 1

\* Rules are imported, deleted, downloaded.
FilesChange ==
  /\ Act /\ shelf' \in Shelf \ {shelf}
  /\ UNCHANGED <<switches, loaded, used, memory, answered>>

\* set_rule_enabled, the read, the change and the write under one lock
SetRuleEnabled(name, on) ==
  /\ Act
  /\ LET off == IF switches = NoFile THEN {} ELSE switches
     IN switches' = IF on THEN off \ {name} ELSE off \cup {name}
  /\ UNCHANGED <<shelf, loaded, used, memory, answered>>

\* A damaged file is removed by the next reader: no rule is off any more but those
\* that say so themselves.
StateLost ==
  /\ Act /\ switches # NoFile /\ switches' = NoFile
  /\ UNCHANGED <<shelf, loaded, used, memory, answered>>

\* initial_load, which takes no rules where it fails, and the gate of run(); the
\* workers get the snapshot by reference.
CrawlWithRules ==
  /\ Act /\ used = {}
  /\ loaded' \in {Snapshot, {}}
  /\ IF Conflict(loaded') THEN UNCHANGED <<used, memory>>
     ELSE used' = {[rules |-> loaded']} /\ memory' = [h \in {} |-> Default]
  /\ UNCHANGED <<shelf, switches, answered>>

\* reload, after sources were updated: it replaces what the life cycle holds, not
\* what the workers have, and no gate is asked.
Reload ==
  /\ Act /\ used # {} /\ loaded' = Snapshot
  /\ UNCHANGED <<shelf, switches, used, memory, answered>>

Remembered(host, name) == memory' = [h \in DOMAIN memory \cup {host} |-> IF h = host THEN name ELSE memory[h]]

\* Mutant: the answer of a pattern is remembered for the host as well.
MutRuleFor(page) ==
  LET host == HostOf[page] IN
  \E u \in used : \E rule \in RuleNames \cup {Default} :
    /\ Act
    /\ \/ host \in DOMAIN memory /\ rule = memory[host] /\ UNCHANGED memory
       \/ host \notin DOMAIN memory /\ Candidates(u.rules, page) # {}
            /\ rule = Winner(u.rules, page).name /\ Remembered(host, rule)
    /\ answered' = answered \cup {[page |-> page, rule |-> rule]}
    /\ UNCHANGED <<shelf, switches, loaded, used>>

\* The cache is asked first, and keeps the default and what has no pattern.
RuleFor(page) ==
  LET host == HostOf[page] IN
  \E u \in used : \E rule \in RuleNames \cup {Default} :
    /\ Act
    /\ \/ host \in DOMAIN memory /\ rule = memory[host] /\ UNCHANGED memory
       \/ /\ host \notin DOMAIN memory /\ Candidates(u.rules, page) = {}
          /\ rule = Default /\ Remembered(host, rule)
       \/ /\ host \notin DOMAIN memory /\ Candidates(u.rules, page) # {}
          /\ rule = Winner(u.rules, page).name
          /\ IF Patterned(Winner(u.rules, page)) THEN UNCHANGED memory ELSE Remembered(host, rule)
    /\ answered' = answered \cup {[page |-> page, rule |-> rule]}
    /\ UNCHANGED <<shelf, switches, loaded, used>>

\* An entry runs out after an hour, or is the oldest of too many.
Forget(host) ==
  /\ Act /\ host \in DOMAIN memory
  /\ memory' = [h \in DOMAIN memory \ {host} |-> memory[h]]
  /\ UNCHANGED <<shelf, switches, loaded, used, answered>>

BookInit ==
  /\ shelf \in Shelf /\ switches = NoFile
  /\ loaded = {} /\ used = {} /\ memory = [h \in {} |-> Default] /\ answered = {} /\ acts = 0

BookNext ==
  \/ FilesChange \/ StateLost \/ CrawlWithRules \/ Reload
  \/ \E n \in RuleNames, on \in BOOLEAN : SetRuleEnabled(n, on)
  \/ \E p \in Page : RuleFor(p)
  \/ \E p \in Page : Forget(HostOf[p])

BookSpec == BookInit /\ [][BookNext]_book

BookTypeOK ==
  /\ shelf \in Shelf /\ (switches = NoFile \/ switches \subseteq RuleNames)
  /\ loaded \subseteq RuleFile /\ Cardinality(used) <= 1
  /\ answered \subseteq [page : Page, rule : RuleNames \cup {Default}]

-----------------------------------------------------------------------------
\* The reference: what applies to a page by itself, without index or cache
RuleApplies(f, page) ==
  /\ f.domains = {} \/ HostOf[page] \in f.domains \/ f.domains \cap Above[HostOf[page]] # {}
  /\ Patterned(f) => page \in FitsPages[f.pattern]
RightAnswers(rules, page) ==
  LET best == {f \in rules : RuleApplies(f, page) /\ \A g \in rules \ {f} : RuleApplies(g, page) => ~Preferred(HostOf[page], g, f)}
  IN IF best = {} THEN {Default} ELSE {f.name : f \in best}

\* A page of a host that no pattern is meant for gets the rule that suits it best.  On
\* a host with patterns it may get what another page of the host was answered with,
\* but only if that needs no pattern.
AnswersFit ==
  \A u \in used : \A a \in answered :
    LET host == HostOf[a.page]
        near == {f \in u.rules : Patterned(f) /\ \E p \in Page : HostOf[p] = host /\ RuleApplies(f, p)}
    IN IF near = {} THEN a.rule \in RightAnswers(u.rules, a.page)
       ELSE \E p \in Page : /\ HostOf[p] = host /\ a.rule \in RightAnswers(u.rules, p)
                            /\ p # a.page => \A f \in u.rules : f.name = a.rule => ~Patterned(f)

\* One rule of a name, and none that a better one of that name should have replaced;
\* the crawl works with no two rules that nothing but their names could decide
\* between where they are meant for the same.
NamesAreOne ==
  \A u \in used : \A f, g \in u.rules : f # g => f.name # g.name /\ ~Alike(f, g)

\* A page is answered as AnswersFit allows, out of rules of which no two are equal to the
\* order of sources, scopes and names.
RulesAnswer == AnswersFit /\ NamesAreOne
=============================================================================
