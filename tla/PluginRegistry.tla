---------------------------- MODULE PluginRegistry ----------------------------
(***************************************************************************)
(* class PluginRegistry in astroframe/_registry.py: the tables of what the *)
(* loaded plugins can do, which register and unregister_plugin keep, and   *)
(* the order in which chain_order puts the members of a group.             *)
(*                                                                         *)
(* One group is enough: the key of a capability is its group and its name, *)
(* and groups never meet.                                                  *)
(***************************************************************************)
EXTENDS Naturals, Sequences, FiniteSets, SequencesExt

CONSTANTS
  Owner,        \* packages
  Offers,       \* capabilities a manifest may have: sequences of [name, after, before]
  DefaultOrder, \* _chain_default_order, a sequence of names
  Nothing       \* no constraint

ASSUME RegistryAssumption ==
  /\ \A offer \in Offers : offer \in Seq([name : STRING, after : STRING \cup {Nothing}, before : STRING \cup {Nothing}])
  /\ DefaultOrder \in Seq(STRING)

VARIABLES
  offers,     \* the manifest of each package
  byGroup,    \* _by_group: names, in the order of registration
  byPlugin,   \* _by_plugin
  table       \* _capabilities and _sources: [cap, owner] of each name

registry == <<offers, byGroup, byPlugin, table>>

NamesOf(caps) == [i \in DOMAIN caps |-> caps[i].name]
Names == UNION {ToSet(NamesOf(offer)) : offer \in Offers}

RegistryTypeOK ==
  /\ offers \in [Owner -> Offers] /\ DOMAIN table \subseteq Names
  /\ byGroup \in Seq(Names) /\ byPlugin \in [Owner -> Seq(Names)]

\* What of a manifest is registered: the capabilities before the first whose name is
\* taken, by another plugin or by the plugin itself, where CapabilityConflictError
\* leaves the loop.
Accepted(caps) ==
  LET fresh(k) == caps[k].name \notin DOMAIN table \cup {caps[i].name : i \in 1 .. k - 1}
  IN SubSeq(caps, 1, Cardinality({k \in DOMAIN caps : \A i \in 1 .. k : fresh(i)}))

\* Mutant: the tables are filled before the name is looked up.
MutRegister(p) ==
  LET names == NamesOf(Accepted(offers[p])) IN
  /\ table' = [n \in DOMAIN table \cup ToSet(names) |-> IF n \in ToSet(names) THEN p ELSE table[n]]
  /\ byGroup' = byGroup \o names /\ byPlugin' = [byPlugin EXCEPT ![p] = @ \o NamesOf(offers[p])]
  /\ UNCHANGED offers

\* register, of a plugin that is loaded
Register(p) ==
  LET names == NamesOf(Accepted(offers[p])) IN
  /\ table' = [n \in DOMAIN table \cup ToSet(names) |-> IF n \in ToSet(names) THEN p ELSE table[n]]
  /\ byGroup' = byGroup \o names /\ byPlugin' = [byPlugin EXCEPT ![p] = @ \o names]
  /\ UNCHANGED offers

\* A list without some of its names
Dropping(list, names) ==
  LET kept[k \in 0 .. Len(list)] ==
        IF k = 0 THEN <<>> ELSE IF list[k] \in names THEN kept[k - 1] ELSE Append(kept[k - 1], list[k])
  IN kept[Len(list)]

\* unregister_plugin
Unregister(p) ==
  LET names == ToSet(byPlugin[p]) IN
  /\ table' = [n \in DOMAIN table \ names |-> table[n]]
  /\ byGroup' = Dropping(byGroup, names)
  /\ byPlugin' = [byPlugin EXCEPT ![p] = <<>>]
  /\ UNCHANGED offers

-----------------------------------------------------------------------------
(* chain_order                                                               *)

Cap(n) == CHOOSE cap \in ToSet(offers[table[n]]) : cap.name = n

\* a is to run before b: b says after a, or a says before b, and both are there.
Edge(a, b) == Cap(b).after = a \/ Cap(a).before = b

Position(s, n) == CHOOSE i \in DOMAIN s : s[i] = n

\* _sort_key: members of the default order first, the others as they came
Precedes(a, b) ==
  LET known(n) == n \in ToSet(DefaultOrder)
  IN IF known(a) /\ known(b) THEN Position(DefaultOrder, a) < Position(DefaultOrder, b)
     ELSE known(a) \/ (~known(b) /\ Position(byGroup, a) < Position(byGroup, b))

\* Mutant: what a capability says of its successors is not looked at.
MutReady(done) ==
  {n \in ToSet(byGroup) \ ToSet(done) : Cap(n).after \notin ToSet(byGroup) \ ToSet(done)}

\* Those with no predecessor left
Ready(done) ==
  {n \in ToSet(byGroup) \ ToSet(done) : \A m \in ToSet(byGroup) \ ToSet(done) : ~Edge(m, n)}

\* Kahn's algorithm on a queue that is kept sorted, and then what is left of cycles,
\* as it came
ChainOrder ==
  LET next(done) == CHOOSE n \in Ready(done) : \A m \in Ready(done) \ {n} : Precedes(n, m)
      pops[k \in 0 .. Len(byGroup)] ==
        IF k = 0 THEN <<>>
        ELSE LET done == pops[k - 1] IN IF Ready(done) = {} THEN done ELSE Append(done, next(done))
      sorted == pops[Len(byGroup)]
  IN sorted \o Dropping(byGroup, ToSet(sorted))

-----------------------------------------------------------------------------
RegistryInit ==
  /\ offers \in [Owner -> Offers] /\ byGroup = <<>> /\ byPlugin = [p \in Owner |-> <<>>]
  /\ table = <<>>

RegistryNext == \E p \in Owner : Register(p) \/ Unregister(p)

RegistrySpec == RegistryInit /\ [][RegistryNext]_registry

-----------------------------------------------------------------------------
\* The tables tell one story, also of a registration that a conflict broke off: every
\* name is listed once, under the group and under the plugin it is registered for,
\* and is one that plugin offers.
TablesAgree ==
  /\ IsInjective(byGroup) /\ ToSet(byGroup) = DOMAIN table
  /\ \A p \in Owner :
       /\ IsInjective(byPlugin[p])
       /\ ToSet(byPlugin[p]) = {n \in DOMAIN table : table[n] = p}
       /\ ToSet(byPlugin[p]) \subseteq ToSet(NamesOf(offers[p]))

\* What is to run before n, directly or not
Earlier(n) ==
  LET far[k \in 0 .. Len(byGroup)] ==
        IF k = 0 THEN {m \in ToSet(byGroup) : Edge(m, n)}
        ELSE LET near == far[k - 1] IN near \cup {m \in ToSet(byGroup) : \E x \in near : Edge(m, x)}
  IN far[Len(byGroup)]

\* The chain has every member of the group once; a constraint holds wherever its end
\* is not behind a cycle; and members that no constraint separates stand as the
\* default order or their registration has them.
ChainRespectsConstraints ==
  LET chain == ChainOrder
      fresh(n) == ~\E m \in {n} \cup Earlier(n) : m \in Earlier(m)
  IN /\ Len(chain) = Len(byGroup) /\ ToSet(chain) = ToSet(byGroup)
     /\ \A i, j \in DOMAIN chain : Edge(chain[i], chain[j]) /\ fresh(chain[j]) => i < j
     /\ (\A m, n \in ToSet(byGroup) : ~Edge(m, n)) =>
          \A i, j \in DOMAIN chain : i < j => Precedes(chain[i], chain[j])

\* What is registered is told the same by all tables, and put into an order that keeps
\* every constraint that can be kept.
RegistrySound == TablesAgree /\ ChainRespectsConstraints
=============================================================================
