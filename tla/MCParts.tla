------------------------------- MODULE MCParts -------------------------------
(***************************************************************************)
(* Parts that share no state, each by itself: the store under callers that *)
(* call anything at any time, the throttle of one domain, the breaker of   *)
(* one proxy, the actor of the browser pool, robots.txt, the plugins from  *)
(* their files to their process, the writer of the output file, what a run *)
(* opens and closes; and what outlives a crawl, the rules with their       *)
(* sources, their management, their making and their preview, the budget   *)
(* and the streams of AI calls, the preferences, what a crawl is given.    *)
(* One run explores all: the part that takes the first step is the one     *)
(* that takes them all.                                                    *)
(***************************************************************************)
EXTENDS CrawlState, DomainThrottle, ProxyBreaker, BrowserPool,
        RobotsCache, PluginRegistry, PluginState, PluginDiscovery,
        PageOutput, CrawlRun, PluginAdmission, PluginHost,
        RuleBook, RuleSources, AiCalls, Profiles, RuleDesk,
        PagePreview, CrawlSettings, SignedPackage, AiStreams, RuleMaking

VARIABLE part

OneDomain == [u \in Url |-> "host"]

\* Two rules on the same path, of which one is longer, and one as long on more
RuleLengths == [r \in {"short", "long", "same"} |-> IF r = "long" THEN 2 ELSE 1]
RulePaths == [r \in {"short", "long", "same"} |-> IF r = "long" THEN {"deep"} ELSE {"deep", "flat"}]

Cap1(n, a, b) == [name |-> n, after |-> a, before |-> b]
ManyOffers ==
  {<<>>, <<Cap1("a", "none", "none"), Cap1("b", "none", "a")>>, <<Cap1("b", "c", "none"), Cap1("c", "none", "none")>>,
   <<Cap1("c", "b", "none"), Cap1("d", "none", "none")>>, <<Cap1("d", "none", "none"), Cap1("a", "none", "d")>>,
   <<Cap1("a", "none", "none"), Cap1("a", "none", "none")>>, <<Cap1("d", "a", "none"), Cap1("b", "none", "none")>>}
DefOrd == <<"d", "a">>

\* Two pages with the same text, and one without any
SomeTexts == [p \in {"p", "q", "r"} |-> IF p = "r" THEN "blank" ELSE "x"]

\* Each needs the next, and it and its next need each other
Graph(x, y, z) == <<x, y, z>>
SomeGraphs == {Graph({2, 3}, {3}, {}), Graph({2}, {3}, {2})}
Sort(power, attested, empty, fault, rec) ==
  [power |-> power, signed |-> attested, empty |-> empty, fits |-> fault # "misfit",
   fault |-> IF fault = "misfit" THEN "none" ELSE fault, record |-> rec]
SomeSorts ==
  {Sort(0, FALSE, FALSE, "none", "none"), Sort(1, FALSE, FALSE, "none", "same"), Sort(2, TRUE, FALSE, "none", "unverified"),
   Sort(0, FALSE, TRUE, "malformed", "none"), Sort(0, FALSE, FALSE, "misfit", "none"),
   Sort(0, FALSE, TRUE, "none", "none")}

\* A plugin of a factory p, the __init__ above it and a module l of the name of a module
\* outside, and one of a factory alone: imports without a circle; with one in the
\* library; with the plugin in it; and one import that is not reported
Imp(form, m) == [to |-> m, form |-> form]
Imports(i, p, q, l, x, y) ==
  [m \in Mod |-> CASE m = "i" -> i [] m = "p" -> p [] m = "q" -> q [] m = "l" -> l [] m = "x" -> x [] m = "y" -> y [] OTHER -> <<>>]
Full(m) == Imp("plain", m)
ManyImports ==
  Imports(<<Imp("relative", "l")>>, <<Full("x")>>, <<Full("y")>>, <<Full("os")>>, <<Imp("relative", "y")>>, <<Full("socket")>>)
SomeImports ==
  {ManyImports,
   Imports(<<>>, <<Full("x"), Full("l")>>, <<Full("y")>>, <<>>, <<Full("y"), Full("socket")>>, <<Full("x")>>),
   Imports(<<Imp("relative", "l")>>, <<Full("l")>>, <<Full("x")>>, <<Full("p"), Full("x")>>, <<Full("socket")>>, <<Full("os")>>),
   Imports(<<Full("x")>>, <<Imp("hidden", "l")>>, <<Full("x"), Full("y")>>, <<Full("os")>>, <<Full("y"), Full("socket")>>, <<Full("os")>>)}
Granted(p, q) == [a \in {"p", "q"} |-> IF a = "p" THEN p ELSE q]
AllGranted == Granted({"socket", "os"}, {"socket", "os"})
SomeGranted == {AllGranted, Granted({"socket"}, {}), Granted({}, {"socket", "os"})}
SomeSources == {Mod, Mod \ {"l", "x"}}
SomeNames == [m \in Mod |-> IF m = "l" THEN "y" ELSE m]
SomeStarts == [p \in {"p", "q"} |-> IF p = "p" THEN <<"i", "p">> ELSE <<"q">>]
SomeInner == [p \in {"p", "q"} |-> IF p = "p" THEN {"i", "p", "l"} ELSE {"q"}]
SomeGrants == {{}, {"socket"}, {"socket", "os"}}
SomeVersions == {<<0, 0>>, <<1, 0>>, <<1, 1>>, <<1, 3>>, <<2, 0>>}

\* Rules of one name and of one scope, ones for any page, and one that is off
RF(n, fr, v, sc, d, p, on, o) == [name |-> n, from |-> fr, version |-> v, scope |-> sc, domains |-> d, pattern |-> p, on |-> on, order |-> o]
Files == {RF("a", "pip", 1, "", {"top"}, "", TRUE, 1), RF("b", "user", 1, "", {"host"}, "deep", TRUE, 4),
          RF("c", "remote", 2, "any", {}, "", TRUE, 2), RF("a", "user", 2, "", {"host"}, "", TRUE, 5),
          RF("d", "user", 1, "", {"top"}, "", TRUE, 6), RF("c", "remote", 1, "", {}, "deep", FALSE, 3),
          RF("e", "user", 1, "any", {"top"}, "", TRUE, 7)}
Shelves == {{f \in Files : f.order \in o} : o \in {{1, 2, 4}, {1, 3, 5}, {1, 2, 6}, {2, 4, 5, 7}, {3, 6}, {}}}
Hosts == [p \in {"shallow", "deep", "else"} |-> IF p = "else" THEN "other" ELSE "host"]
HostsAbove == [h \in {"host", "other"} |-> IF h = "host" THEN {"top"} ELSE {}]
Fits == [p \in {"deep"} |-> {"deep"}]
Sizes == [p \in {"deep"} |-> 2]
Ranks == [n \in {"a", "b", "c", "d", "e"} |-> CASE n = "a" -> 1 [] n = "b" -> 2 [] n = "c" -> 3 [] n = "d" -> 4 [] n = "e" -> 5]

\* The last has an endpoint twice.
EndpointLists == {<<2, 1>>, <<1, 1>>}

\* A rule in two versions, one of the reserved name, which no file may use, and one that
\* fails its schema otherwise
RuleOf(n, v, on, ok) == [name |-> n, version |-> v, on |-> on, valid |-> ok]
DeskRules ==
  {RuleOf("a", 1, TRUE, TRUE), RuleOf("a", 2, FALSE, TRUE), RuleOf("b", 1, TRUE, TRUE),
   RuleOf("default", 1, TRUE, FALSE), RuleOf("b", 2, TRUE, FALSE)}
ShippedRules == [p \in {<<"package", "b">>} |-> RuleOf("b", 1, TRUE, TRUE)]
HomePlaces == {<<"home", n>> : n \in {"a", "b", "default"}}
ExtraPlaces == {<<"extra", "a">>}
FirstDisk ==
  [p \in FilePlaces |->
    CASE p \in Preset -> Shipped[p] [] p = <<"extra", "a">> -> RuleOf("a", 2, FALSE, TRUE)
      [] p = <<"home", "a">> -> RuleOf("a", 1, TRUE, TRUE) [] OTHER -> NoRule]

\* Files of the bare form and of the window's, one with a mode that is not on the list, and
\* one that holds what is refused
FileOf(w, r, c) == [window |-> w, robots |-> r, adv |-> c]
SomeFiles ==
  {FileOf(FALSE, TRUE, Config(1, FALSE, 0, 1, "prefer_proxy", "file")),
   FileOf(TRUE, FALSE, Config(1, TRUE, 1, 1, "other", "file")),
   FileOf(TRUE, FALSE, Config(0, TRUE, 2, 1, "direct_only", "file"))}
EnvOf(c, l, n) == [conc |-> c, level |-> l, note |-> n]
SomeEnvs == {EnvOf(NotSaid, NotSaid, NotSaid), EnvOf(3, "env", "env"), EnvOf(0, Junk, NotSaid), EnvOf(Junk, "env", NotSaid)}
FlagsOf(c, r, l, n, p) == [conc |-> c, robots |-> r, level |-> l, note |-> n, profile |-> p]
SomeFlags ==
  {FlagsOf(NotSaid, NotSaid, NotSaid, NotSaid, NotSaid), FlagsOf(4, FALSE, "flag", "flag", "p"),
   FlagsOf(0, NotSaid, NotSaid, NotSaid, NotSaid)}
SaidOf(c, h, l) == [conc |-> c, hi |-> h, level |-> l]
SomeSets == {SaidOf(NotSaid, NotSaid, NotSaid), SaidOf(5, 0, NotSaid), SaidOf(5, 3, "set"), SaidOf(NotSaid, Junk, NotSaid)}

\* Wheels of two keys, one of them not in the log; and a signature beside the package
WheelOf(k, l, f) == [key |-> k, logged |-> l, file |-> f]
SomeWheels == <<WheelOf("ours", TRUE, "sig"), WheelOf("theirs", TRUE, "asc"), WheelOf("ours", FALSE, "none")>>
SigningOf(m, k) == [method |-> m, key |-> k]
SomeSignings ==
  {SigningOf("none", "missing"), SigningOf("sigstore", "ours"), SigningOf("sigstore", "missing"),
   SigningOf("gpg", "ours"), SigningOf("other", "ours")}
SomeSides == {[file |-> "none", key |-> "none", of |-> 0], [file |-> "asc", key |-> "ours", of |-> 3]}

\* One call in two pieces, and two of one piece each
SomeSpeech == {<<[id |-> "a", pieces |-> 2]>>, <<[id |-> "b", pieces |-> 1], [id |-> "c", pieces |-> 1]>>}

\* Selectors that find something, a blank, nothing, and one that raises
Finds == [s \in {"hit", "blank", "miss", "bad"} |->
            CASE s = "hit" -> "value" [] s = "blank" -> "blank" [] s = "miss" -> "nothing" [] s = "bad" -> "raises"]
Selectors(x, css) == [i \in DOMAIN css |-> [css |-> css[i], extract |-> x, attr |-> IF x = "attr" THEN "named" ELSE "", short |-> css[i] = ""]]
FieldOf(sels, m, t) == [key |-> "k", selectors |-> sels, multiple |-> m, transform |-> t]
SomeFields ==
  {<<FieldOf(Selectors("text", <<"miss", "hit">>), FALSE, {}), FieldOf(Selectors("text", <<"bad", "blank", "hit", "hit">>), TRUE, {})>>,
   <<FieldOf(Selectors("attr", <<"blank", "", "hit">>), FALSE, {}), FieldOf(Selectors("text", <<"", "hit">>), FALSE, {})>>,
   <<FieldOf(Selectors("attr", <<"miss", "bad", "blank", "hit">>), FALSE, {})>>, <<>>}

\* A rule that finds all, one that does not, one of a name that is taken, one whose scope
\* and field are no good; as text, as a call of a tool, and in prose
RuleMade(n, sc, d, p, f) == [schema |-> 1, version |-> 1, name |-> n, scope |-> sc, domains |-> d, pattern |-> p, fields |-> <<f>>]
SomeAnswers ==
  {[form |-> form, rule |-> rule] : form \in {"text", "tool", "prose"}, rule \in
     {RuleMade("n", "domain_pattern", {"d"}, "p", FieldOf(Selectors("text", <<"miss", "hit">>), TRUE, {"join"})),
      RuleMade("n", "", {}, "", FieldOf(Selectors("attr", <<"blank", "", "miss">>), FALSE, {})),
      RuleMade("default", "any", {}, "", FieldOf(Selectors("text", <<"hit">>), FALSE, {})),
      RuleMade("n", "any", {"d"}, "", FieldOf(Selectors("text", <<"hit">>), TRUE, {"regex"}))}}

core == <<db, throttle, breaker, pool, robots, rules>>
plugins == <<registry, state, discovery, output, runState, admission, host>>
longer == <<book, sources, aiCalls, prefs, desk>>
later == <<preview, settings, signed, streams, extraction, makingVars>>
parts == <<core, plugins, longer, later>>

PartsInit ==
  /\ part \in {"store", "throttle", "proxy", "pool", "robots", "rules", "registry", "state", "discovery", "output",
              "run", "admission", "host", "book", "sources", "calls", "profiles", "desk",
              "preview", "settings", "signature", "streams", "fields", "making"}
  /\ \/ part = "registry"
     \/ part # "registry" /\ offers = [p \in Owner |-> <<>>]
  /\ \/ part = "discovery" /\ disabled \in {{}, {2}}
     \/ /\ part # "discovery" /\ manifest = [p \in Package |-> Sort(0, FALSE, FALSE, "none", "none")]
        /\ needs = Graph({2}, {3}, {2}) /\ policy = "none" /\ disabled = {}
  /\ IF part = "admission" THEN /\ legible \in SomeSources /\ located = Addon /\ granted \in SomeGranted
                                /\ since \in [Addon -> Version \cup {Unscanned}] /\ since["q"] = Unscanned
                                /\ engine = (IF since["p"] = Unscanned THEN <<2, 0>> ELSE <<1, 0>>)
                                /\ imports \in (IF legible # Mod \/ since["p"] # Unscanned THEN {ManyImports} ELSE SomeImports)
                                /\ since["p"] # Unscanned => legible = Mod /\ granted = AllGranted
     ELSE /\ imports = ManyImports /\ legible = Mod /\ located = Addon /\ engine = <<1, 0>>
          /\ granted = [p \in Addon |-> {}] /\ since = [p \in Addon |-> Unscanned]
  /\ part = "book" \/ (part # "book" /\ shelf = {})
  /\ part = "sources" \/ (part # "sources" /\ listed = [x \in Source |-> Absent])
  /\ part = "profiles" \/ (part # "profiles" /\ topic = "paths")
  /\ disk = FirstDisk
  /\ part = "settings" \/ (part # "settings" /\ usable = {})
  /\ IF part = "signature" THEN wheels \in {{}, {1, 3}, {1, 2, 3}}
     ELSE wheels = {} /\ tree = [build |-> 1, others |-> 1, docs |-> 1, editable |-> FALSE, hashable |-> TRUE, side |-> CHOOSE s \in SideFiles : s.file = "none"]
  /\ part = "streams" \/ (part # "streams" /\ kind = "google")
  /\ part = "fields" \/ (part # "fields" /\ fieldsOf = [j \in Job |-> <<>>])
  /\ part = "making" \/ (part # "making" /\ provider = "openai" /\ strict = TRUE)
  /\ Init /\ ThrottleInit /\ BreakerInit /\ PoolInit /\ RobotsInit /\ RulesInit
  /\ RegistryInit /\ StateInit /\ DiscoveryInit /\ OutputInit /\ RunInit /\ AdmissionInit /\ HostInit
  /\ BookInit /\ SourcesInit /\ CallsInit /\ PrefsInit /\ DeskInit
  /\ PreviewInit /\ SettingsInit /\ SignedInit /\ StreamsInit /\ ExtractionInit /\ MakingInit

PartsNext ==
  /\ UNCHANGED part
  /\ \/ part = "store" /\ Next
        /\ UNCHANGED <<throttle, breaker, pool, robots, rules, plugins, longer, later>>
     \/ part = "throttle" /\ ThrottleNext
        /\ UNCHANGED <<db, breaker, pool, robots, rules, plugins, longer, later>>
     \/ part = "proxy" /\ BreakerNext
        /\ UNCHANGED <<db, throttle, pool, robots, rules, plugins, longer, later>>
     \/ part = "pool" /\ PoolNext
        /\ UNCHANGED <<db, throttle, breaker, robots, rules, plugins, longer, later>>
     \/ part = "robots" /\ RobotsNext
        /\ UNCHANGED <<db, throttle, breaker, pool, rules, plugins, longer, later>>
     \/ part = "rules" /\ RulesNext
        /\ UNCHANGED <<db, throttle, breaker, pool, robots, plugins, longer, later>>
     \/ part = "registry" /\ RegistryNext
        /\ UNCHANGED <<core, state, discovery, output, runState, admission, host, longer, later>>
     \/ part = "state" /\ StateNext
        /\ UNCHANGED <<core, registry, discovery, output, runState, admission, host, longer, later>>
     \/ part = "discovery" /\ DiscoveryNext
        /\ UNCHANGED <<core, registry, state, output, runState, admission, host, longer, later>>
     \/ part = "output" /\ OutputNext
        /\ UNCHANGED <<core, registry, state, discovery, runState, admission, host, longer, later>>
     \/ part = "run" /\ RunNext
        /\ UNCHANGED <<core, registry, state, discovery, output, admission, host, longer, later>>
     \/ part = "admission" /\ AdmissionNext
        /\ UNCHANGED <<core, registry, state, discovery, output, runState, host, longer, later>>
     \/ part = "host" /\ HostNext
        /\ UNCHANGED <<core, registry, state, discovery, output, runState, admission, longer, later>>
     \/ part = "book" /\ BookNext
        /\ UNCHANGED <<core, plugins, sources, aiCalls, prefs, desk, later>>
     \/ part = "sources" /\ SourcesNext
        /\ UNCHANGED <<core, plugins, book, aiCalls, prefs, desk, later>>
     \/ part = "calls" /\ CallsNext
        /\ UNCHANGED <<core, plugins, book, sources, prefs, desk, later>>
     \/ part = "profiles" /\ PrefsNext
        /\ UNCHANGED <<core, plugins, book, sources, aiCalls, desk, later>>
     \/ part = "desk" /\ DeskNext
        /\ UNCHANGED <<core, plugins, book, sources, aiCalls, prefs, later>>
     \/ part = "preview" /\ PreviewNext
        /\ UNCHANGED <<core, plugins, longer, settings, signed, streams, extraction, makingVars>>
     \/ part = "settings" /\ SettingsNext
        /\ UNCHANGED <<core, plugins, longer, preview, signed, streams, extraction, makingVars>>
     \/ part = "signature" /\ SignedNext
        /\ UNCHANGED <<core, plugins, longer, preview, settings, streams, extraction, makingVars>>
     \/ part = "streams" /\ StreamsNext
        /\ UNCHANGED <<core, plugins, longer, preview, settings, signed, extraction, makingVars>>
     \/ part = "fields" /\ ExtractionNext
        /\ UNCHANGED <<core, plugins, longer, preview, settings, signed, streams, makingVars>>
     \/ part = "making" /\ MakingNext
        /\ UNCHANGED <<core, plugins, longer, preview, settings, signed, streams, extraction>>

PartsSpec == PartsInit /\ [][PartsNext]_<<part, parts>>

\* Every part keeps its types: no counter leaves its range, no state is one that the
\* code does not know.
PartsTypeOK ==
  CASE part = "store" -> TypeOK
    [] part = "throttle" -> ThrottleTypeOK
    [] part = "proxy" -> BreakerTypeOK
    [] part = "pool" -> PoolTypeOK
    [] part = "robots" -> RobotsTypeOK
    [] part = "rules" -> RulesTypeOK
    [] part = "registry" -> RegistryTypeOK
    [] part = "state" -> StateTypeOK
    [] part = "discovery" -> DiscoveryTypeOK
    [] part = "output" -> OutputTypeOK
    [] part = "run" -> RunTypeOK
    [] part = "admission" -> AdmissionTypeOK
    [] part = "host" -> HostTypeOK
    [] part = "book" -> BookTypeOK
    [] part = "sources" -> SourcesTypeOK
    [] part = "calls" -> CallsTypeOK
    [] part = "profiles" -> PrefsTypeOK
    [] part = "desk" -> DeskTypeOK
    [] part = "preview" -> PreviewTypeOK
    [] part = "settings" -> SettingsTypeOK
    [] part = "signature" -> SignedTypeOK
    [] part = "streams" -> StreamsTypeOK
    [] part = "fields" -> ExtractionTypeOK
    [] part = "making" -> MakingTypeOK
=============================================================================
