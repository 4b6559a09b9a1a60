------------------------------ MODULE Profiles ------------------------------
(***************************************************************************)
(* The preferences of a user, preferences.json, and who writes them: the   *)
(* window with its settings dialog, which loads them once and then writes  *)
(* the whole of its own copy at every change, and the commands             *)
(* `astrocrawl ai ...' and `astrocrawl proxy ...', processes of their own  *)
(* that load, act and write the same way: utils/preferences.py,            *)
(* gui/_ai_profile_page.py, gui/_proxy_profile_page.py,                    *)
(* gui/_route_settings_page.py, gui/_table_page.py, gui/advanced_dialog.py,*)
(* cli/main.py.                                                            *)
(*                                                                         *)
(* The preferences hold the AI profiles, known by name, one of them active *)
(* and one the choice of the rules dialog, the proxy profiles, known by    *)
(* name to the user and by uuid to the routes of the consumers, and the    *)
(* directories visited last.  A run works on one half of them, `topic'.    *)
(***************************************************************************)
EXTENDS AiCalls, AiStreams, SequencesExt

CONSTANTS
  Label,      \* names a user gives to profiles
  Consumer,   \* PROXY_CONSUMERS
  EndLists,   \* lists of endpoints, each of a proxy profile
  Dir, MaxPaths, \* MAX_ENTRIES_PER_KEY
  Missing,     \* no file, nothing loaded, no page, no command
  MaxEdits, MaxCommands \* bounds: changes made in the window, and commands

\* The records of a profile, and of all preferences
AiProfile == [name : Label, on : BOOLEAN, tested : {"no", "ok", "failed"}]
ProxyProfile == [name : Label, id : Nat, ends : EndLists]
Preferences ==
  [ai : Seq(AiProfile), active : Label \cup {""}, last : Label \cup {""}, px : Seq(ProxyProfile),
   routes : [Consumer -> [profile : Nat, node : Nat]], paths : Seq(Dir)]
PageRecords ==
  [list : Seq(AiProfile) \cup Seq(ProxyProfile), active : Label \cup {""}, editing : AiProfile \cup ProxyProfile \cup {Missing}]

ASSUME ProfilesAssumption ==
  /\ MaxEdits \in Nat /\ MaxCommands \in Nat /\ MaxPaths \in Nat \ {0}
  /\ \A l \in EndLists : l \in Seq(Nat)
  /\ IsFiniteSet(Consumer) /\ Consumer # {}
  /\ Missing \notin Preferences /\ Missing \notin PageRecords

VARIABLES
  topic,     \* bound: the half of the preferences the run works on
  stored,      \* preferences.json, or Missing
  mem,       \* what the window holds of it, or Missing before it looks
  page,      \* the dialog's page: the list it shows and the profile being edited, or Missing
  trialOf,     \* the AI profile whose connection is tested, or ""
  chosen, proxySession, \* the window's proxy profile, and the endpoints its ProxySession has
  cmd,       \* the command that runs in a terminal, or Missing
  uuids, edits, cmds

prefs == <<topic, stored, mem, page, trialOf, chosen, proxySession, cmd, uuids, edits, cmds>>

Unset == [profile |-> 0, node |-> 0]
FreshPrefs == [ai |-> <<>>, active |-> "", last |-> "", px |-> <<>>, routes |-> [c \in Consumer |-> Unset], paths |-> <<>>]

HasLabel(list, n) == \E i \in DOMAIN list : list[i].name = n
PlaceIn(list, n) == CHOOSE i \in DOMAIN list : list[i].name = n
Labels(list) == {list[i].name : i \in DOMAIN list}
Upsert(list, p) == IF HasLabel(list, p.name) THEN [list EXCEPT ![PlaceIn(list, p.name)] = p] ELSE Append(list, p)
Without(list, n) == Kept(list, {i \in DOMAIN list : list[i].name # n})

-----------------------------------------------------------------------------
(* Preferences: what each call does to one copy                              *)

SaveAi(s, p) ==
  [s EXCEPT !.ai = Upsert(@, p),
            !.active = IF s.ai = <<>> /\ @ = "" THEN p.name ELSE @]

\* Mutant: the active profile goes and nobody takes its place.
MutRemoveAi(s, n) == [s EXCEPT !.ai = Without(@, n), !.last = IF @ = n THEN "" ELSE @]

RemoveAi(s, n) ==
  LET left == Without(s.ai, n) IN
  [s EXCEPT !.ai = left,
            !.last = IF @ = n THEN "" ELSE @,
            !.active = IF @ # n THEN @ ELSE IF left = <<>> THEN "" ELSE left[1].name]

SetActive(s, n) == IF HasLabel(s.ai, n) THEN [s EXCEPT !.active = n] ELSE s

\* Asked for by the dialog, the command and save_proxy_profile, which refuses the rest
NoTwins(ends) == IsInjective(ends)
Twinless == {l \in EndLists : NoTwins(l)}

SaveProxy(s, p) == [s EXCEPT !.px = Upsert(@, p)]

RemoveProxy(s, n) ==
  LET gone == IF HasLabel(s.px, n) THEN s.px[PlaceIn(s.px, n)].id ELSE 0 IN
  [s EXCEPT !.px = Without(@, n),
            !.routes = [c \in Consumer |-> IF @[c].profile = gone THEN Unset ELSE @[c]]]

KnowsId(s, id) == \E i \in DOMAIN s.px : s.px[i].id = id
ById(s, id) == s.px[CHOOSE i \in DOMAIN s.px : s.px[i].id = id]
SetRoute(s, c, id, node) == [s EXCEPT !.routes[c] = [profile |-> id, node |-> node]]

\* get_proxy_last_used: whoever asks for a route to a profile that is gone drops it.
Dangling(s, c) == s.routes[c].profile # 0 /\ ~KnowsId(s, s.routes[c].profile)
Asked(s, c) == IF Dangling(s, c) THEN [s EXCEPT !.routes[c] = Unset] ELSE s
AllAsked(s) == [s EXCEPT !.routes = [c \in Consumer |-> IF Dangling(s, c) THEN Unset ELSE @[c]]]

AddPath(s, d) ==
  LET all == <<d>> \o Kept(s.paths, {i \in DOMAIN s.paths : s.paths[i] # d}) IN
  [s EXCEPT !.paths = SubSeq(all, 1, IF Len(all) > MaxPaths THEN MaxPaths ELSE Len(all))]

Nodes == UNION {Range(l) : l \in EndLists}
FirstNode(list) == IF list = <<>> THEN 0 ELSE list[1]

-----------------------------------------------------------------------------
(* Reading and writing the file                                              *)

Loaded == IF stored = Missing THEN FreshPrefs ELSE stored

\* The window changes its copy in steps and writes all of it after each.  A write
\* may fail, then the handler is left: the change stays in memory, the file as it was.
Writes(steps) ==
  /\ edits < MaxEdits /\ edits' = edits + 1
  /\ \/ mem' = Last(steps) /\ stored' = Last(steps)
     \/ \E k \in DOMAIN steps : mem' = steps[k] /\ stored' = IF k = 1 THEN stored ELSE steps[k - 1]

\* refresh() after the last write: the page shows what is in memory.
List(s) == IF topic = "ai" THEN s.ai ELSE s.px
PageOf(s) == [list |-> List(s), active |-> s.active, editing |-> Missing]
Refreshed(steps) == page' = IF mem' = Last(steps) /\ stored' = mem' THEN PageOf(mem') ELSE [page EXCEPT !.editing = Missing]

PrefsInit ==
  /\ topic \in {"ai", "proxy", "paths"}
  /\ stored = Missing /\ mem = Missing /\ page = Missing /\ trialOf = ""
  /\ chosen = "" /\ proxySession = <<>> /\ cmd = Missing /\ uuids = 0 /\ edits = 0 /\ cmds = 0

\* The first look of the window; a file that cannot be read is removed, _load.
GuiLoads ==
  /\ mem = Missing
  /\ \/ mem' = Loaded /\ UNCHANGED stored
     \/ stored # Missing /\ mem' = FreshPrefs /\ stored' = Missing
  /\ UNCHANGED <<topic, page, trialOf, chosen, proxySession, cmd, uuids, edits, cmds>>

GuiExits ==
  /\ mem # Missing
  /\ mem' = Missing /\ page' = Missing /\ trialOf' = "" /\ chosen' = "" /\ proxySession' = <<>>
  /\ UNCHANGED <<topic, stored, cmd, uuids, edits, cmds>>

-----------------------------------------------------------------------------
(* The settings dialog                                                       *)

OpenSettings ==
  /\ mem # Missing /\ page = Missing /\ page' = PageOf(mem)
  /\ UNCHANGED <<topic, stored, mem, trialOf, chosen, proxySession, cmd, uuids, edits, cmds>>

\* _reload_profile_combo and _update_proxy_session
Endpoints(s, n) == IF n # "" /\ HasLabel(s.px, n) THEN s.px[PlaceIn(s.px, n)].ends ELSE <<>>
StillThere(s, n) == IF HasLabel(s.px, n) THEN n ELSE ""

CloseSettings ==
  /\ page # Missing /\ page.editing = Missing
  /\ page' = Missing /\ trialOf' = ""
  /\ chosen' = StillThere(mem, chosen) /\ proxySession' = Endpoints(mem, chosen')
  /\ UNCHANGED <<topic, stored, mem, cmd, uuids, edits, cmds>>

Selecting(i) == page # Missing /\ page.editing = Missing /\ i \in DOMAIN page.list

AddAi(n) ==
  /\ page # Missing /\ page.editing = Missing /\ topic = "ai" /\ n \notin Labels(page.list)
  /\ LET steps == <<SaveAi(mem, [name |-> n, on |-> TRUE, tested |-> "no"])>> IN
     Writes(steps) /\ Refreshed(steps)
  /\ UNCHANGED <<topic, trialOf, chosen, proxySession, cmd, uuids, cmds>>

\* The dialog of one profile keeps the copy it was opened with.
Edit(i) ==
  /\ Selecting(i) /\ page' = [page EXCEPT !.editing = page.list[i]]
  /\ UNCHANGED <<topic, stored, mem, trialOf, chosen, proxySession, cmd, uuids, edits, cmds>>

Dismiss ==
  /\ page # Missing /\ page.editing # Missing /\ page' = [page EXCEPT !.editing = Missing]
  /\ UNCHANGED <<topic, stored, mem, trialOf, chosen, proxySession, cmd, uuids, edits, cmds>>

Editing == page # Missing /\ page.editing # Missing
MayRename(n) == n \notin Labels(page.list) \ {page.editing.name}

\* A new name makes a second AI profile of it.
AcceptAi(n) ==
  /\ Editing /\ topic = "ai" /\ MayRename(n)
  /\ LET steps == <<SaveAi(mem, [page.editing EXCEPT !.name = n])>> IN
     Writes(steps) /\ Refreshed(steps)
  /\ UNCHANGED <<topic, trialOf, chosen, proxySession, cmd, uuids, cmds>>

RemoveAiShown(i) ==
  /\ Selecting(i) /\ topic = "ai" /\ page.list[i].name # page.active
  /\ LET steps == <<RemoveAi(mem, page.list[i].name)>> IN Writes(steps) /\ Refreshed(steps)
  /\ UNCHANGED <<topic, trialOf, chosen, proxySession, cmd, uuids, cmds>>

\* The delegate has changed the page's profile before the page compares it with the
\* box, so nothing is ever pending and Apply writes nothing of it.
Toggle(i) ==
  /\ Selecting(i) /\ topic = "ai"
  /\ page' = [page EXCEPT !.list[i].on = ~@]
  /\ UNCHANGED <<topic, stored, mem, trialOf, chosen, proxySession, cmd, uuids, edits, cmds>>

MakeActive(i) ==
  /\ Selecting(i) /\ topic = "ai"
  /\ LET n == page.list[i].name IN
     IF HasLabel(mem.ai, n)
     THEN Writes(<<SetActive(mem, n)>>) /\ Refreshed(<<SetActive(mem, n)>>)
     ELSE page' = PageOf(mem) /\ UNCHANGED <<stored, mem, edits>>
  /\ UNCHANGED <<topic, trialOf, chosen, proxySession, cmd, uuids, cmds>>

StartTrial(i) ==
  /\ Selecting(i) /\ topic = "ai" /\ trialOf = "" /\ trialOf' = page.list[i].name
  /\ UNCHANGED <<topic, stored, mem, page, chosen, proxySession, cmd, uuids, edits, cmds>>

\* _on_test_result: also while a profile is being edited
TestEnds(verdict) ==
  /\ trialOf # "" /\ trialOf' = ""
  /\ IF verdict # "error" /\ HasLabel(mem.ai, trialOf)
     THEN LET steps == <<SaveAi(mem, [mem.ai[PlaceIn(mem.ai, trialOf)] EXCEPT !.tested = verdict])>> IN
          /\ Writes(steps)
          /\ page' = IF stored' = Last(steps) THEN [PageOf(mem') EXCEPT !.editing = page.editing] ELSE page
     ELSE UNCHANGED <<stored, mem, page, edits>>
  /\ UNCHANGED <<topic, chosen, proxySession, cmd, uuids, cmds>>

\* The choice of the rules dialog
ChooseLast(n) ==
  /\ mem # Missing /\ page = Missing /\ topic = "ai" /\ HasLabel(mem.ai, n)
  /\ Writes(<<[mem EXCEPT !.last = n]>>)
  /\ UNCHANGED <<topic, page, trialOf, chosen, proxySession, cmd, uuids, cmds>>

-----------------------------------------------------------------------------
(* Proxy profiles and routes                                                 *)

AddProxy(n, ends) ==
  /\ page # Missing /\ page.editing = Missing /\ topic = "proxy" /\ n \notin Labels(page.list) /\ NoTwins(ends)
  /\ uuids' = uuids + 1
  /\ LET steps == <<SaveProxy(mem, [name |-> n, id |-> uuids', ends |-> ends])>> IN
     Writes(steps) /\ Refreshed(steps)
  /\ UNCHANGED <<topic, trialOf, chosen, proxySession, cmd, cmds>>

\* get_profile of the dialog makes a new profile, with a uuid of its own; a renamed one
\* is saved under its new name before the old is removed.
AcceptProxy(n, ends) ==
  /\ Editing /\ topic = "proxy" /\ MayRename(n) /\ NoTwins(ends)
  /\ uuids' = uuids + 1
  /\ LET old == page.editing.name
         saved == SaveProxy(mem, [name |-> n, id |-> uuids', ends |-> ends])
         steps == IF n = old THEN <<saved>> ELSE <<saved, RemoveProxy(saved, old)>> IN
     Writes(steps) /\ Refreshed(steps)
  /\ UNCHANGED <<topic, trialOf, chosen, proxySession, cmd, cmds>>

\* Only a profile no route leads to; looking for them drops the routes that dangle.
RemoveProxyShown(i) ==
  /\ Selecting(i) /\ topic = "proxy"
  /\ LET asked == AllAsked(mem)
         looked == IF asked = mem THEN <<>> ELSE <<asked>>
         used == \E c \in Consumer : asked.routes[c].profile = page.list[i].id
         steps == looked \o IF used THEN <<>> ELSE <<RemoveProxy(asked, page.list[i].name)>> IN
     /\ steps # <<>> /\ Writes(steps)
     /\ IF used THEN UNCHANGED page ELSE Refreshed(steps)
  /\ UNCHANGED <<topic, trialOf, chosen, proxySession, cmd, uuids, cmds>>

\* One write for each consumer, and no node with it
RoutedAll(id) ==
  LET order == SetToSeq(Consumer) IN
  [k \in DOMAIN order |->
     [mem EXCEPT !.routes = [c \in Consumer |-> IF c \in Range(SubSeq(order, 1, k))
                                                THEN [profile |-> id, node |-> 0] ELSE @[c]]]]

MakeDefault(i) ==
  /\ Selecting(i) /\ topic = "proxy"
  /\ LET steps == RoutedAll(page.list[i].id) IN Writes(steps) /\ Refreshed(steps)
  /\ UNCHANGED <<topic, trialOf, chosen, proxySession, cmd, uuids, cmds>>

ResetRoutes ==
  /\ page # Missing /\ page.editing = Missing /\ topic = "proxy"
  /\ Writes(RoutedAll(0)) /\ UNCHANGED page
  /\ UNCHANGED <<topic, trialOf, chosen, proxySession, cmd, uuids, cmds>>

\* The route page: a profile with its first endpoint, or another of its endpoints.
PickRoute(c, id) ==
  /\ page # Missing /\ page.editing = Missing /\ topic = "proxy"
  /\ id = 0 \/ KnowsId(mem, id)
  /\ Writes(<<SetRoute(mem, c, id, IF id = 0 THEN 0 ELSE FirstNode(ById(mem, id).ends))>>)
  /\ UNCHANGED <<topic, page, trialOf, chosen, proxySession, cmd, uuids, cmds>>

PickNode(c, node) ==
  /\ page # Missing /\ page.editing = Missing /\ topic = "proxy"
  /\ LET id == mem.routes[c].profile IN
     /\ KnowsId(mem, id) /\ node \in Range(ById(mem, id).ends)
     /\ Writes(<<SetRoute(mem, c, id, node)>>)
  /\ UNCHANGED <<topic, page, trialOf, chosen, proxySession, cmd, uuids, cmds>>

\* A page that is painted, a preview, an AI call or an update asks for a route.
AskRoute(c) ==
  /\ mem # Missing /\ topic = "proxy" /\ Dangling(mem, c)
  /\ Writes(<<Asked(mem, c)>>)
  /\ UNCHANGED <<topic, page, trialOf, chosen, proxySession, cmd, uuids, cmds>>

\* The combo of the window reads the preferences anew when it opens.
ChooseProfile(n) ==
  /\ mem # Missing /\ page = Missing /\ topic = "proxy" /\ n \in Labels(mem.px) \cup {""}
  /\ chosen' = n /\ proxySession' = Endpoints(mem, n)
  /\ UNCHANGED <<topic, stored, mem, page, trialOf, cmd, uuids, edits, cmds>>

VisitDir(d) ==
  /\ mem # Missing /\ topic = "paths" /\ Writes(<<AddPath(mem, d)>>)
  /\ UNCHANGED <<topic, page, trialOf, chosen, proxySession, cmd, uuids, cmds>>

-----------------------------------------------------------------------------
(* The commands                                                              *)

Verbs == IF topic = "ai" THEN {"add", "remove", "default", "test"}
         ELSE IF topic = "proxy" THEN {"add", "remove", "set", "show"} ELSE {"visit"}

\* What the command holds from its start on: it has looked whether it may act.
CommandStarts(verb, n) ==
  /\ cmd = Missing /\ cmds < MaxCommands /\ cmds' = cmds + 1 /\ verb \in Verbs
  /\ verb \notin {"visit"} => HasLabel(List(Loaded), n) = (verb # "add")
  /\ cmd' = [verb |-> verb, name |-> n, copy |-> Loaded]
  /\ UNCHANGED <<topic, stored, mem, page, trialOf, chosen, proxySession, uuids, edits>>

\* `set' takes the node it is told without a look at the profile.
Commanded ==
  LET s == cmd.copy IN
  CASE topic = "ai" /\ cmd.verb = "add" -> {SaveAi(s, [name |-> cmd.name, on |-> TRUE, tested |-> "no"])}
    [] topic = "ai" /\ cmd.verb = "remove" -> {RemoveAi(s, cmd.name)}
    [] cmd.verb = "default" -> {SetActive(s, cmd.name)}
    [] cmd.verb = "test" ->
         {SaveAi(s, [s.ai[PlaceIn(s.ai, cmd.name)] EXCEPT !.tested = v]) : v \in {"ok", "failed"}}
    [] topic = "proxy" /\ cmd.verb = "add" ->
         {SaveProxy(s, [name |-> cmd.name, id |-> uuids + 1, ends |-> l]) : l \in Twinless}
    [] topic = "proxy" /\ cmd.verb = "remove" -> {RemoveProxy(s, cmd.name)}
    [] cmd.verb = "set" ->
         LET p == s.px[PlaceIn(s.px, cmd.name)] IN
         {SetRoute(s, c, p.id, k) : c \in Consumer, k \in Nodes \cup {FirstNode(p.ends)}}
    [] cmd.verb = "show" -> {AllAsked(s)}
    [] cmd.verb = "visit" -> {AddPath(s, d) : d \in Dir}

\* What it asked for is written, unless `show' found nothing to drop or the write fails.
CommandEnds ==
  /\ cmd # Missing
  /\ uuids' = IF topic = "proxy" /\ cmd.verb = "add" THEN uuids + 1 ELSE uuids
  /\ \/ \E saved \in Commanded : stored' = IF cmd.verb = "show" /\ saved = cmd.copy THEN stored ELSE saved
     \/ UNCHANGED stored
  /\ cmd' = Missing
  /\ UNCHANGED <<topic, mem, page, trialOf, chosen, proxySession, edits, cmds>>

-----------------------------------------------------------------------------
AiPage ==
  \/ \E n \in Label : AddAi(n) \/ AcceptAi(n)
  \/ \E i \in 1 .. 3 : RemoveAiShown(i) \/ Toggle(i) \/ MakeActive(i) \/ StartTrial(i)
  \/ \E v \in {"ok", "failed", "error"} : TestEnds(v)
  \/ \E n \in Label : ChooseLast(n)

ProxyPage ==
  \/ \E n \in Label, l \in EndLists : AddProxy(n, l) \/ AcceptProxy(n, l)
  \/ \E i \in 1 .. 3 : RemoveProxyShown(i) \/ MakeDefault(i)
  \/ ResetRoutes
  \/ \E c \in Consumer : AskRoute(c) \/ \E k \in 0 .. uuids : PickRoute(c, k)
  \/ \E c \in Consumer, k \in Nodes : PickNode(c, k)
  \/ \E n \in Label \cup {""} : ChooseProfile(n)

PrefsNext ==
  \/ GuiLoads \/ GuiExits \/ OpenSettings \/ CloseSettings \/ Dismiss
  \/ \E i \in 1 .. 3 : Edit(i)
  \/ AiPage \/ ProxyPage
  \/ \E d \in Dir : VisitDir(d)
  \/ \E v \in {"add", "remove", "default", "test", "set", "show", "visit"}, n \in Label : CommandStarts(v, n)
  \/ CommandEnds

PrefsSpec == PrefsInit /\ [][PrefsNext]_prefs

-----------------------------------------------------------------------------
(* Properties                                                                *)

Stores == {s \in {stored, mem, IF cmd = Missing THEN Missing ELSE cmd.copy} : s # Missing}

PrefsTypeOK ==
  /\ topic \in {"ai", "proxy", "paths"} /\ edits \in 0 .. MaxEdits /\ cmds \in 0 .. MaxCommands /\ uuids \in Nat
  /\ trialOf \in Label \cup {""} /\ chosen \in Label \cup {""} /\ proxySession \in EndLists \cup {<<>>}
  /\ \A s \in Stores :
       /\ s.active \in Label \cup {""} /\ s.last \in Label \cup {""}
       /\ \A i \in DOMAIN s.ai : s.ai[i] \in AiProfile
       /\ \A i \in DOMAIN s.px : s.px[i] \in ProxyProfile /\ s.px[i].id \in 1 .. uuids
       /\ \A c \in Consumer : s.routes[c].profile \in 0 .. uuids

OnePiece(s) ==
  /\ \A i, j \in DOMAIN s.ai : s.ai[i].name = s.ai[j].name => i = j
  /\ \A i, j \in DOMAIN s.px : s.px[i].name = s.px[j].name \/ s.px[i].id = s.px[j].id => i = j
  /\ IF s.ai = <<>> THEN s.active = "" ELSE HasLabel(s.ai, s.active)
  /\ s.last = "" \/ HasLabel(s.ai, s.last)
  /\ \A c \in Consumer : s.routes[c].profile = 0 => s.routes[c].node = 0
  /\ \A i \in DOMAIN s.px : IsInjective(s.px[i].ends)
  /\ IsInjective(s.paths) /\ Len(s.paths) <= MaxPaths

\* Whatever is added, renamed, removed, tested or made the default, by the window or by a
\* command, and whichever write fails, each copy of the preferences is of one piece:
\* names, uuids and the endpoints of a profile are unique, a profile is active as soon as
\* there is one and it is there, the choice of the rules dialog is there, no node is kept
\* without its profile, and the visited directories are few and different.
OfOnePiece == \A s \in Stores : OnePiece(s)

\* Once the settings are closed the window's ProxySession is made of the endpoints that
\* the chosen profile has now.
SessionFresh ==
  page = Missing /\ mem # Missing => (chosen = "" \/ HasLabel(mem.px, chosen)) /\ proxySession = Endpoints(mem, chosen)

\* Each copy of the preferences is of one piece, and the window's session has the
\* endpoints of the profile that is chosen.
SettingsSound == OfOnePiece /\ SessionFresh

\* SettingsSound, CallsBounded and StreamsSound: each copy of the preferences is of one piece,
\* with the profiles that calls are made with; no more AI calls go at once, and no more in a
\* minute, than there are permits and tokens for, and a stream alone tells just the calls its
\* model made.
ProfilesAndCalls == SettingsSound /\ CallsBounded /\ StreamsSound
=============================================================================
