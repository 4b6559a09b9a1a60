---------------------------- MODULE PluginDiscovery ----------------------------
(***************************************************************************)
(* discover_plugins in astroframe/_loader.py: each installed package gets  *)
(* a status from its manifest, its trust record and the policy; packages   *)
(* that need one that is not loaded are turned down, until nothing         *)
(* changes; what each may do with the help of what it needs is added up    *)
(* in topological order; and those that gain power that way are judged     *)
(* once more, which may turn down others.                                  *)
(*                                                                         *)
(* The passes over the dictionary are in the order of the entry points,    *)
(* which is any order: a step handles any one package.                     *)
(***************************************************************************)
EXTENDS Naturals, FiniteSets

CONSTANTS
  Package,      \* names of packages
  Needs,        \* the graphs requires_plugins may form
  Kinds,        \* what a package may be: its manifest and its trust record
  Policy        \* values of require_approval

ASSUME DiscoveryAssumption ==
  /\ IsFiniteSet(Package) /\ Needs \subseteq [Package -> SUBSET Package]
  /\ Kinds \subseteq [power : 0 .. 2, signed : BOOLEAN, empty : BOOLEAN, fits : BOOLEAN,
                       fault : {"none", "unreadable", "malformed", "stranger", "engine"},
                       record : {"none", "same", "changed", "unverified"}]
  /\ Policy \subseteq {"all", "dangerous", "none"}

VARIABLES
  manifest,   \* what each package is
  needs,      \* the requires_plugins of each
  policy,     \* require_approval
  disabled,   \* the list of disabled packages
  status,     \* PluginRef.status
  effective,  \* effective_permission_level, from NORMAL = 0 to SIGNATURE = 2
  pass,      \* where discover_plugins is
  closed      \* the topological order so far, as a set

installed == <<manifest, needs, policy, disabled>>
discovery == <<installed, status, effective, pass, closed>>

Status == {"unread", "LOADED", "PENDING_REVIEW", "DISABLED", "INCOMPATIBLE", "FAILED"}

DiscoveryTypeOK ==
  /\ manifest \in [Package -> Kinds] /\ needs \in Needs /\ policy \in Policy /\ disabled \subseteq Package
  /\ status \in [Package -> Status] /\ effective \in [Package -> 0 .. 2]
  /\ pass \in {"read", "cascade", "close", "again", "done"}
  /\ closed \subseteq Package

\* _find_manifest_path and _read_manifest_file
Readable(m) == m.fault # "unreadable"

\* _validate_manifest_s6
WellFormed(m) == m.fault # "malformed"

\* What PluginManifest.from_dict is made of; it may still be of another package, of
\* an unknown protocol, or ask for a combination that is not allowed.
Belongs(m) == m.fault # "stranger"

\* requires_plugins; nothing is kept of a manifest that was rejected.
Requires(p) == IF Readable(manifest[p]) /\ WellFormed(manifest[p]) THEN needs[p] ELSE {}

Stands(p) == status[p] \notin {"INCOMPATIBLE", "DISABLED"}

\* _check_trust_record: the first capability with a record decides.
Trusted(m) ==
  CASE m.record = "same" -> {"LOADED"}
    [] m.record = "changed" -> {"PENDING_REVIEW"}
    [] m.record = "unverified" -> {"PENDING_REVIEW"} \cup IF m.signed THEN {"FAILED"} ELSE {}

\* What is unsigned may have no SIGNATURE permissions under any policy but "all",
\* which leaves everything to the user.
ByPolicy(m) ==
  CASE policy = "all" -> {"PENDING_REVIEW"}
    [] policy # "all" /\ m.power = 2 -> {"INCOMPATIBLE"}
    [] policy = "none" /\ m.power < 2 -> {"LOADED"}
    [] policy = "dangerous" /\ m.power = 1 -> {"PENDING_REVIEW"}
    [] policy = "dangerous" /\ m.power = 0 -> {"LOADED"}

\* Mutant: the policy decides whatever power is borrowed.
MutUntrusted(m, level) ==
  IF m.empty THEN {"LOADED"}
  ELSE IF m.signed THEN {"PENDING_REVIEW", "FAILED"} ELSE ByPolicy(m)

\* Without a record: verification may fail to run and a good signature is not
\* enough, and power that is borrowed is for the user to approve.
Untrusted(m, level) ==
  IF m.empty THEN {"LOADED"}
  ELSE IF m.signed THEN {"PENDING_REVIEW", "FAILED"}
  ELSE IF level > m.power THEN {"PENDING_REVIEW"} ELSE ByPolicy(m)

\* _determine_status for a level, and what it may answer
Determine(p, level) ==
  IF p \in disabled THEN {"DISABLED"}
  ELSE IF manifest[p].fault = "engine" THEN {"INCOMPATIBLE"}
  ELSE IF manifest[p].record # "none" THEN Trusted(manifest[p])
  ELSE Untrusted(manifest[p], level)

-----------------------------------------------------------------------------
Goto(name) == pass' = name

\* _load_plugin_ref
ReadManifest(p) ==
  LET m == manifest[p] IN
  /\ pass = "read" /\ status[p] = "unread"
  /\ \E s \in (IF Readable(m) /\ WellFormed(m) /\ Belongs(m) THEN Determine(p, 0) ELSE {"INCOMPATIBLE"}) :
       status' = [status EXCEPT ![p] = s]
  /\ UNCHANGED <<installed, effective, pass, closed>>

AllRead ==
  /\ pass = "read" /\ \A p \in Package : status[p] # "unread"
  /\ Goto("cascade") /\ UNCHANGED <<installed, status, effective, closed>>

\* The loop that runs until nothing changes.  A package may need itself.  Versions
\* are compared the first time only.
Unmet(p) ==
  Stands(p) /\ \E d \in Requires(p) : (status[d] # "LOADED" \/ (pass = "cascade" /\ ~manifest[d].fits))

Cascade(p) ==
  /\ pass \in {"cascade", "again"} /\ Unmet(p)
  /\ status' = [status EXCEPT ![p] = "INCOMPATIBLE"]
  /\ UNCHANGED <<installed, effective, pass, closed>>

\* Kahn's algorithm: what is never reached is on a cycle or needs one that is.
Reached(set) ==
  LET grow[k \in 0 .. Cardinality(set)] ==
        IF k = 0 THEN {} ELSE {p \in set : Requires(p) \cap set \subseteq grow[k - 1]}
  IN grow[Cardinality(set)]

\* Mutant: no cycle is looked for.
MutCycles == {}

\* _detect_dependency_cycles
Cycles == Package \ Reached(Package)

CascadeEnds ==
  /\ pass = "cascade" /\ \A p \in Package : ~Unmet(p)
  /\ status' = [p \in Package |-> IF p \in Cycles /\ status[p] = "LOADED" THEN "INCOMPATIBLE" ELSE status[p]]
  /\ Goto("close") /\ UNCHANGED <<installed, effective, closed>>

Most(levels) == CHOOSE n \in levels : \A k \in levels : k <= n

\* Mutant: only what a package itself asks for counts.
MutBorrowed(p) == manifest[p].power

\* What a package may do with all it needs
Borrowed(p) == Most({manifest[p].power} \cup {effective[d] : d \in Requires(p) \cap closed})

\* _compute_effective_permissions, a package at a time: those it needs are behind it.
Close1(p) ==
  /\ pass = "close" /\ p \notin closed /\ Stands(p)
  /\ {d \in Requires(p) : Stands(d)} \subseteq closed
  /\ effective' = [effective EXCEPT ![p] = Borrowed(p)]
  /\ closed' = closed \cup {p} /\ UNCHANGED <<installed, status, pass>>

\* A package that gained power is judged again; the others keep their status.
Judge ==
  /\ pass = "close" /\ {p \in Package : Stands(p)} = closed
  /\ status' \in [Package -> Status]
  /\ \A p \in Package :
       status'[p] \in IF p \in closed /\ effective[p] > manifest[p].power
                      THEN Determine(p, effective[p]) ELSE {status[p]}
  /\ Goto("again") /\ UNCHANGED <<installed, effective, closed>>

DiscoveryOver ==
  /\ pass = "again" /\ \A p \in Package : ~Unmet(p)
  /\ Goto("done") /\ UNCHANGED <<installed, status, effective, closed>>

-----------------------------------------------------------------------------
DiscoveryInit ==
  /\ manifest \in [Package -> Kinds] /\ needs \in Needs /\ policy \in Policy /\ disabled \in SUBSET Package
  /\ status = [p \in Package |-> "unread"] /\ effective = [p \in Package |-> 0]
  /\ pass = "read" /\ closed = {}

DiscoveryNext ==
  \/ \E p \in Package : ReadManifest(p) \/ Cascade(p) \/ Close1(p)
  \/ AllRead \/ CascadeEnds \/ Judge \/ DiscoveryOver

DiscoverySpec == DiscoveryInit /\ [][DiscoveryNext]_discovery

-----------------------------------------------------------------------------
\* What p needs, however far down
Below(p) ==
  LET deep[k \in 0 .. Cardinality(Package)] ==
        IF k = 0 THEN Requires(p) ELSE deep[k - 1] \cup UNION {Requires(d) : d \in deep[k - 1]}
  IN deep[Cardinality(Package)]

\* No package waits in the topological order for ever: while there are some that it
\* does not have yet, there is one that may come next.
OrderGoesOn ==
  LET left == {p \in Package : Stands(p)} \ closed
  IN pass = "close" /\ left # {} => \E p \in left : Requires(p) \cap left = {}

\* The end of a discovery is sound: what is loaded needs only what is loaded,
\* nothing loaded needs itself through any chain, and what is turned away for its
\* needs is turned away whatever the order of the passes.
LoadedIsClosed ==
  pass = "done" =>
    \A p \in Package :
      /\ status[p] = "LOADED" => p \notin Below(p) /\ \A d \in Below(p) : status[d] = "LOADED" /\ manifest[d].fits
      /\ status[p] = "PENDING_REVIEW" => \A d \in Below(p) : status[d] = "LOADED"

\* A package that was loaded without a record of trust has capabilities of its own
\* level only: no chain of dependencies, in whatever order they were added up, lends
\* it more.
NoBorrowedPower ==
  pass = "done" =>
    \A p \in Package :
      status[p] = "LOADED" /\ manifest[p].record = "none" /\ ~manifest[p].empty =>
        \A d \in Below(p) : manifest[d].power <= manifest[p].power

\* All of it: a discovery comes to its end, and to a sound one.
LoadingSound == OrderGoesOn /\ LoadedIsClosed /\ NoBorrowedPower

=============================================================================
