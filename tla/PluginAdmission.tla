---------------------------- MODULE PluginAdmission ----------------------------
(***************************************************************************)
(* What stands between a plugin and its start: the scan of what its code   *)
(* imports, with caches that all scans share, the gates of                 *)
(* create_plugin_instance and of orchestrate_plugin_global: astroframe/    *)
(* _scanner.py, _lifecycle.py, _types.py.                                  *)
(*                                                                         *)
(* A module imports modules.  Some are roots: to import one, by whatever   *)
(* detour, takes the permission of its name.  A plugin is known by the     *)
(* module of its factory.  The scan reads source files: it cannot read     *)
(* all, sees not every import in them, and may not find the plugin.        *)
(***************************************************************************)
EXTENDS Naturals, Sequences, SequencesExt, FiniteSets

CONSTANTS
  Mod, Cause,      \* modules, and the roots among them
  Inner,           \* the modules of each plugin
  Starts,          \* the files a scan starts with: __init__ of the packages above the factory, and it
  LastName,        \* of a module: the last part of its name
  Graphs,          \* what may import what, in what form
  Grants,          \* effective permissions a plugin may have: the roots it may import
  Version,         \* <<major, minor>> of the engine and of deprecated_since
  Unscanned        \* nothing in a cache, no version

Addon == DOMAIN Inner
Outer == Mod \ UNION {Inner[p] : p \in Addon}

\* "hidden" is what no visitor reports: the submodule of `from package import submodule`,
\* and the __init__ of the packages above an imported module.
Form == {"plain", "relative", "hidden"}

\* A relative import stays in its package, which has one module of a name.
ASSUME AdmissionAssumption ==
  /\ Cause \subseteq Outer /\ Graphs \subseteq [Mod -> Seq([to : Mod, form : Form])]
  /\ \A p \in Addon : p \in Inner[p] /\ Inner[p] \subseteq Mod /\ Starts[p] \in Seq(Inner[p]) /\ Last(Starts[p]) = p
  /\ \A p \in Addon, g \in Graphs : \A m \in Inner[p] : \A i \in ToSet(g[m]) : i.form = "relative" => i.to \in Inner[p]
  /\ \A set \in {Inner[p] : p \in Addon} \cup {Outer} : IsInjective([m \in set |-> LastName[m]])
  /\ Version \subseteq Nat \X Nat

VARIABLES
  imports,   \* what each module imports, in what form
  legible,   \* modules with a source that can be read and parsed
  located,   \* plugins whose distribution, directory and factory file are found
  granted,   \* effective_permissions of each plugin
  since,     \* deprecated_since of each capability, or Unscanned
  engine,    \* version of the engine
  closures,  \* _closure_cache
  scans,     \* _scan_cache
  asked,     \* plugins that SubprocessPlugin.create was called for
  onLoad,    \* plugins whose on_load came back
  onUnload,  \* plugins whose on_unload was called
  blind      \* history: gates that let a plugin pass that was not found

code == <<imports, legible, granted, since>>
caches == <<closures, scans>>
admission == <<code, located, engine, caches, asked, onLoad, onUnload, blind>>

-----------------------------------------------------------------------------
(* The scan                                                                  *)

\* The import statements in a file: none where it cannot be read, or does not parse.
SourceOf(m) == IF m \in legible THEN imports[m] ELSE <<>>

\* _ImportCollector resolves relative imports.
Collected(m) ==
  LET reported == SelectSeq(SourceOf(m), LAMBDA i : i.form # "hidden")
  IN [k \in DOMAIN reported |-> reported[k].to]

\* Mutant: what the earlier imports led to is forgotten at the last.
RECURSIVE MutTrace(_, _, _)
MutTrace(m, visited, cache) ==
  IF m \in visited THEN [found |-> {}, cache |-> cache]
  ELSE IF cache[m] # Unscanned THEN [found |-> cache[m], cache |-> cache]
  ELSE LET walk == FoldLeft(LAMBDA acc, i :
                              IF i \in Cause THEN [acc EXCEPT !.found = {i}] ELSE MutTrace(i, visited \cup {m}, acc.cache),
                            [found |-> {}, cache |-> cache], Collected(m))
           found == IF m \in Cause THEN {m} ELSE walk.found
       IN [found |-> found, cache |-> [walk.cache EXCEPT ![m] = found]]

\* The roots a module leads to, and the cache after looking for them.  A module on the
\* way back to itself counts for nothing, and so does it in the entries of those that
\* were met meanwhile.
RECURSIVE Trace(_, _, _)
Trace(m, visited, cache) ==
  IF m \in visited THEN [found |-> {}, cache |-> cache]
  ELSE IF cache[m] # Unscanned THEN [found |-> cache[m], cache |-> cache]
  ELSE LET walk == FoldLeft(LAMBDA acc, i :
                              IF i \in Cause THEN [acc EXCEPT !.found = @ \cup {i}]
                              ELSE LET t == Trace(i, visited \cup {m}, acc.cache)
                                   IN [found |-> acc.found \cup t.found, cache |-> t.cache],
                            [found |-> {}, cache |-> cache], IF m \in Cause THEN <<>> ELSE Collected(m))
           found == IF m \in Cause THEN {m} ELSE walk.found
       IN [found |-> found, cache |-> [walk.cache EXCEPT ![m] = found]]

\* The file of the plugin that an import is taken for: its own, or one with the last
\* part of its name
FilesFor(p, m) == IF m \in Inner[p] THEN {m} ELSE {f \in Inner[p] : LastName[f] = LastName[m]}

\* The files of a plugin that its first ones lead to, one after the other
RECURSIVE FilesReached(_, _, _)
FilesReached(p, queue, met) ==
  IF queue = <<>> THEN met
  ELSE IF Contains(met, Head(queue)) THEN FilesReached(p, Tail(queue), met)
  ELSE LET all == Collected(Head(queue))
           more == FlattenSeq([k \in DOMAIN all |-> SetToSeq(FilesFor(p, all[k]))])
       IN FilesReached(p, Tail(queue) \o more, Append(met, Head(queue)))

\* What _SecurityVisitor traces in a file: a relative import as if its bare name were
\* that of a module outside
Judged(m) ==
  LET source == SourceOf(m)
      names(i) == CASE i.form = "plain" -> <<i.to>>
                    [] i.form = "relative" -> SetToSeq({o \in Outer : LastName[o] = LastName[i.to]})
                    [] i.form = "hidden" -> <<>>
  IN FlattenSeq([k \in DOMAIN source |-> names(source[k])])

\* Each import of each file is traced.
Scanned(p) ==
  FoldLeft(LAMBDA acc, file :
             FoldLeft(LAMBDA met, i : LET t == Trace(i, {}, met.cache) IN [found |-> met.found \cup t.found, cache |-> t.cache],
                      acc, Judged(file)),
           [found |-> {}, cache |-> closures], FilesReached(p, Starts[p], <<>>))

\* scan_plugin_package goes by without a look.
Overlooked(p) == scans[p] = Unscanned /\ p \notin located

\* scan_plugin_package: what it found the first time is what it finds.  Of a plugin that
\* it does not find it finds nothing, and does not remember it.
Scan(p) ==
  IF scans[p] # Unscanned \/ Overlooked(p) THEN UNCHANGED caches
  ELSE LET scan == Scanned(p) IN closures' = scan.cache /\ scans' = [scans EXCEPT ![p] = scan.found]

\* The gate of the first dimension, and what the history says of those that pass
Passes(p) == ~Overlooked(p) => scans'[p] \subseteq granted[p]
PassedBy(p, gate) == blind' = (blind \cup IF Overlooked(p) THEN {<<p, gate>>} ELSE {})

-----------------------------------------------------------------------------
(* The gates                                                                 *)

\* check_deprecation, and what create_plugin_instance makes of it
Severity(dep, eng) ==
  CASE dep = Unscanned -> "none"
    [] dep # Unscanned /\ dep = <<0, 0>> -> "warning"
    [] dep # Unscanned /\ dep # <<0, 0>> /\ dep[1] # eng[1] -> "warning"
    [] dep # Unscanned /\ dep # <<0, 0>> /\ dep[1] = eng[1] ->
         (CASE eng[2] < dep[2] -> "none"
            [] eng[2] - dep[2] \in {0, 1} -> "warning"
            [] eng[2] - dep[2] = 2 -> "error"
            [] OTHER -> "removed")

\* create_plugin_instance of a loaded plugin, which satisfies the second dimension of
\* the scanner by being loaded
Create(p, allow) ==
  /\ p \notin asked /\ onUnload = {} /\ Scan(p)
  /\ LET may == /\ Passes(p)
                /\ Severity(since[p], engine) \in {"none", "warning"} \cup (IF allow THEN {"error"} ELSE {}) IN
     \/ may /\ asked' = asked \cup {p} /\ PassedBy(p, "process")
     \/ UNCHANGED <<asked, blind>>     \* refused, or no factory of its kind and protocol
  /\ UNCHANGED <<code, located, engine, onLoad, onUnload>>

\* orchestrate_plugin_global, which does not look at deprecation
OnLoad(p) ==
  /\ p \notin onLoad /\ onUnload = {} /\ Scan(p)
  /\ \/ Passes(p) /\ onLoad' = onLoad \cup {p} /\ PassedBy(p, "on_load")
     \/ UNCHANGED <<onLoad, blind>>    \* blocked, no PluginGlobal, or it raised
  /\ UNCHANGED <<code, located, engine, asked, onUnload>>

\* _on_unload_all at the exit of the process
OnUnloadAll ==
  /\ onLoad # {} /\ onUnload = {} /\ onUnload' = onLoad
  /\ UNCHANGED <<code, located, engine, caches, asked, onLoad, blind>>

\* What pip knows of a plugin, or where its files are, changes under the process.
FilesMove(p) ==
  /\ onUnload = {} /\ located' = (IF p \in located THEN located \ {p} ELSE located \cup {p})
  /\ UNCHANGED <<code, engine, caches, asked, onLoad, onUnload, blind>>

\* The engine is upgraded and the process starts anew.
EngineUpgrade(v) ==
  /\ v \in Version /\ (engine[1] < v[1] \/ (engine[1] = v[1] /\ engine[2] < v[2]))
  /\ engine' = v
  /\ closures' = [m \in Mod |-> Unscanned] /\ scans' = [p \in Addon |-> Unscanned]
  /\ asked' = {} /\ onLoad' = {} /\ onUnload' = {} /\ blind' = {}
  /\ UNCHANGED <<code, located>>

AdmissionInit ==
  /\ imports \in Graphs /\ granted \in [Addon -> Grants] /\ since \in [Addon -> Version \cup {Unscanned}]
  /\ legible \in SUBSET Mod /\ located \in SUBSET Addon
  /\ engine \in Version
  /\ closures = [m \in Mod |-> Unscanned] /\ scans = [p \in Addon |-> Unscanned]
  /\ asked = {} /\ onLoad = {} /\ onUnload = {} /\ blind = {}

AdmissionNext ==
  \/ \E p \in Addon : OnLoad(p) \/ FilesMove(p) \/ \E allow \in BOOLEAN : Create(p, allow)
  \/ OnUnloadAll
  \/ \E v \in Version : EngineUpgrade(v)

AdmissionSpec == AdmissionInit /\ [][AdmissionNext]_admission

-----------------------------------------------------------------------------
(* Properties                                                                *)

AdmissionTypeOK ==
  /\ closures \in [Mod -> SUBSET Cause \cup {Unscanned}] /\ scans \in [Addon -> SUBSET Cause \cup {Unscanned}]
  /\ asked \subseteq Addon /\ onUnload \subseteq onLoad /\ onLoad \subseteq Addon /\ located \subseteq Addon
  /\ blind \subseteq (asked \X {"process"}) \cup (onLoad \X {"on_load"})

\* What some modules lead to, in as many steps as there are modules
LedTo(Succ(_), ms) ==
  LET f[k \in 0 .. Cardinality(Mod)] ==
        IF k = 0 THEN ms ELSE LET prev == f[k - 1] IN prev \cup UNION {Succ(m) : m \in prev \ Cause}
  IN f[Cardinality(Mod)]

\* By the imports that are reported, and by all that there are
Visible(ms) == LedTo(LAMBDA m : ToSet(Collected(m)), ms)
Needed(p) == LedTo(LAMBDA m : {i.to : i \in ToSet(imports[m])}, ToSet(Starts[p]))
NoCycle(ms) == \A m \in Visible(ms) \ Cause : m \notin Visible(ToSet(Collected(m)))

\* What a scan has to trace: the imports of all files its first ones lead to
Suspects(p) ==
  UNION {ToSet(Judged(f)) : f \in LedTo(LAMBDA m : UNION {FilesFor(p, i) : i \in ToSet(Collected(m))}, ToSet(Starts[p]))}

\* Whatever was scanned before and in whatever order: an entry of a cache has no root that
\* the imports the scanner sees do not lead to; and where these do not run in circles, it
\* has every one.
CachesExact ==
  /\ \A m \in Mod : closures[m] # Unscanned =>
       LET led == Visible({m}) \cap Cause
       IN closures[m] = led \/ (closures[m] \subseteq led /\ ~NoCycle({m}))
  /\ \A p \in Addon : scans[p] # Unscanned =>
       LET suspects == Suspects(p) led == Visible(suspects) \cap Cause
       IN scans[p] = led \/ (scans[p] \subseteq led /\ ~NoCycle(suspects))

\* Nothing is kept from the scanner: it can read all a plugin needs, no import is of a
\* form that it does not report, and none runs in a circle.
Plain(p) ==
  /\ \A m \in Needed(p) \ Cause : m \in legible /\ \A i \in ToSet(imports[m]) : i.form # "hidden"
  /\ NoCycle(Needed(p))

\* So a plugin that was found and keeps nothing from the scanner gets a process, or a call
\* of on_load, only if its permissions cover all its code leads to, relative imports and
\* detours through libraries included.
CoveredOnly ==
  \A p \in Addon :
    (p \in asked /\ <<p, "process">> \notin blind) \/ (p \in onLoad /\ <<p, "on_load">> \notin blind)
      => Needed(p) \cap Cause \subseteq granted[p] \/ ~Plain(p)

\* A newer engine of the same major version never thinks better of a capability.
Rank(s) == CASE s = "none" -> 0 [] s = "warning" -> 1 [] s = "error" -> 2 [] s = "removed" -> 3
NoReprieve ==
  \A p \in Addon, v \in Version :
    v[1] = engine[1] /\ v[2] > engine[2] => Rank(Severity(since[p], engine)) <= Rank(Severity(since[p], v))

\* What lets a plugin start is what the scan sees of its needs, whatever was scanned before.
AdmissionSound == CachesExact /\ CoveredOnly /\ NoReprieve
=============================================================================
