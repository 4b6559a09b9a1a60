------------------------------- MODULE RuleDesk -------------------------------
(***************************************************************************)
(* Where rules are managed: the window of gui/rules_dialog.py and the      *)
(* commands of cli/main.py, two processes over one directory of the user's *)
(* rule files, the directories added to it, and the file of the rules that *)
(* are switched off (rules/_io.py and _state.py).                          *)
(*                                                                         *)
(* A file is the rule in it: its name, which need not be the file's own,   *)
(* its version, its own flag, and whether it passes the schema.  The       *)
(* window shows a snapshot it made earlier and keeps ticks until they are  *)
(* applied; its dialogs are modal.  A command makes its snapshot when it   *)
(* starts.  Only the state file is locked.                                 *)
(***************************************************************************)
EXTENDS PagePreview, Naturals, Sequences, FiniteSets, SequencesExt

CONSTANTS
  RuleText,       \* what a file may hold: [name, version, on, valid]
  Shipped,    \* the rules of the read-only files, of the package or a remote source
  Home,       \* the user's own: a file is <<place, file name>>
  Extra,      \* those of a directory the user may add
  NoRule, NoState,
  Free,       \* nobody holds the lock of the state file
  MaxDesk     \* bound: operations, of both processes together

Preset == DOMAIN Shipped
FilePlaces == Preset \cup Home \cup Extra
DeskNames == {r.name : r \in RuleText}

\* The directories are three; a file of the user's own can have the name of any rule.
ASSUME DeskAssumption ==
  /\ MaxDesk \in Nat
  /\ \A r \in RuleText : r.version \in Nat /\ {r.on, r.valid} \subseteq BOOLEAN
  /\ Preset \cap Home = {} /\ Preset \cap Extra = {} /\ Home \cap Extra = {}
  /\ \A p \in Preset : Shipped[p] \in RuleText
  /\ \A r \in RuleText : \E h \in Home : h[2] = r.name
  /\ Free \notin {"window", "shell"} /\ \A names \in SUBSET DeskNames : NoState # names

DefaultRule == "default"

VARIABLES
  disk,      \* of each place the rule in it, or NoRule
  off,       \* rules_state.json: the names switched off, or NoState
  dirs,      \* rules_dirs, where an entry stands for the extra directory
  dirsOn,    \* rules_dirs_enabled
  shown,     \* snapshot of the window: of each name its [rule, place]
  ticks,     \* _pending_toggles
  paper,     \* the edit dialog: none, or its [version, place], NoRule for a place still to come
  applying,  \* names whose ticks are yet to be written
  shell,     \* the command: none, or its [kind, ...]
  stateLock,      \* who holds the lock of the state file, or Free
  readOff,     \* of each process what it read under it, until it writes
  wish,      \* history: of each name the last value written for it since the file is there
  foreign,   \* history: another process changed something since the window looked
  steps

desk == <<disk, off, dirs, dirsOn, shown, ticks, paper, applying, shell, stateLock, readOff, wish, foreign, steps>>

-----------------------------------------------------------------------------
(* What is loaded                                                            *)

SourceRank(p) == IF p \in Preset THEN 0 ELSE 1
DeskReads == Preset \cup Home \cup (IF dirsOn /\ dirs # <<>> THEN Extra ELSE {})

\* load_rule_file skips what is not valid; _deduplicate_rules lets the package win.
DeskLoads == {p \in DeskReads : disk[p] # NoRule /\ disk[p].valid}
Better(p, q) ==
  \/ SourceRank(p) < SourceRank(q)
  \/ SourceRank(p) = SourceRank(q) /\ disk[p].version > disk[q].version
First(p, q) == SourceRank(p) = SourceRank(q) /\ disk[p].version = disk[q].version /\ p \in Home /\ q \in Extra
SameName(n) == {p \in DeskLoads : disk[p].name = n}

\* by_name: of each name the file that won, switched as the state file says
ByName ==
  [n \in {disk[p].name : p \in DeskLoads} |->
    LET p == CHOOSE w \in SameName(n) : \A q \in SameName(n) \ {w} : ~Better(q, w) /\ (Better(w, q) \/ ~First(q, w))
        on == IF off = NoState THEN disk[p].on ELSE n \notin off
    IN [rule |-> [disk[p] EXCEPT !.on = on], place |-> p]]

Mine(n) == n \in DOMAIN shown /\ shown[n].place \notin Preset

-----------------------------------------------------------------------------
(* The window                                                                *)

Step == steps < MaxDesk /\ steps' = steps + 1
AtDesk == paper = {} /\ applying = {}

\* _reload and _rebuild_model: the reader waits for whoever holds the lock.
LooksAgain == stateLock = Free /\ shown' = ByName' /\ foreign' = FALSE
OnlyDisk == UNCHANGED <<off, dirs, dirsOn, ticks, applying, shell, stateLock, readOff, wish>>

\* _on_reload, and _on_refresh_all, which forgets the ticks as well
Refresh ==
  /\ Step /\ AtDesk /\ ticks' \in {ticks, [n \in {} |-> TRUE]}
  /\ UNCHANGED <<disk, off, dirs, dirsOn, paper, applying, shell, stateLock, readOff, wish>> /\ LooksAgain

\* _on_checkbox_toggled, _on_select_all and _on_deselect_all, over the rows a filter
\* leaves: the default rule takes no tick.
TickRules(some, on) ==
  /\ Step /\ AtDesk /\ some # {} /\ some \subseteq DOMAIN shown \ {DefaultRule}
  /\ ticks' = [n \in DOMAIN ticks \cup some |-> IF n \in some THEN on ELSE ticks[n]]
  /\ UNCHANGED <<disk, off, dirs, dirsOn, shown, paper, applying, shell, stateLock, readOff, wish, foreign>>

\* apply_pending: the ticks are written one after another.
Apply ==
  /\ Step /\ AtDesk /\ DOMAIN ticks # {} /\ applying' = DOMAIN ticks
  /\ UNCHANGED <<disk, off, dirs, dirsOn, shown, ticks, paper, shell, stateLock, readOff, wish, foreign>>

\* _on_new_rule, _edit_rule_at, _on_paste_import and _on_generate_result; a rule that
\* is not the user's can only be looked at.
OpenPaper(sheet) ==
  /\ Step /\ AtDesk /\ paper' = {sheet}
  /\ UNCHANGED <<disk, off, dirs, dirsOn, shown, ticks, applying, shell, stateLock, readOff, wish, foreign>>
NewRule == OpenPaper([version |-> 1, place |-> NoRule])
EditRule == \E n \in DOMAIN shown : Mine(n) /\ OpenPaper([version |-> shown[n].rule.version, place |-> shown[n].place])
PasteRule == \E r \in RuleText, h \in Home : r.valid /\ h[2] = r.name /\ OpenPaper([version |-> r.version, place |-> h])

\* _save_to_file, through the gate of safe_write_rule_file: the place is the one the
\* dialog was opened with, whatever the name is by now.
SavesTo(sheet, rule) == IF sheet.place # NoRule THEN sheet.place ELSE CHOOSE h \in Home : h[2] = rule.name
Saved(sheet, r) == r.valid /\ r.version = sheet.version /\ disk' = [disk EXCEPT ![SavesTo(sheet, r)] = r]
PressApply ==
  /\ Step /\ \E sheet \in paper, r \in RuleText : Saved(sheet, r)
  /\ OnlyDisk /\ UNCHANGED <<shown, paper, foreign>>

\* _confirm, or the dialog is closed; whoever opened it refreshes.
ClosePaper ==
  /\ Step /\ paper # {} /\ paper' = {}
  /\ UNCHANGED disk \/ \E sheet \in paper, r \in RuleText : Saved(sheet, r)
  /\ OnlyDisk /\ LooksAgain

\* _on_import, over what is there
ImportHere(r) ==
  /\ Step /\ AtDesk /\ r.valid
  /\ \E h \in Home : h[2] = r.name /\ disk' = [disk EXCEPT ![h] = r]
  /\ OnlyDisk /\ UNCHANGED paper /\ LooksAgain

\* _on_delete: the file the snapshot had for the name.  Where it cannot be removed
\* nothing is done, nor looked at again.
Delete(n) ==
  /\ Step /\ AtDesk /\ n # DefaultRule /\ Mine(n)
  /\ OnlyDisk /\ UNCHANGED paper
  /\ \/ disk' = [disk EXCEPT ![shown[n].place] = NoRule] /\ LooksAgain
     \/ UNCHANGED <<disk, shown, foreign>>

\* _on_reset: what cannot be removed stays.
Reset ==
  /\ Step /\ AtDesk
  /\ \E stays \in SUBSET Home : disk' = [p \in FilePlaces |-> IF p \in Home \ stays THEN NoRule ELSE disk[p]]
  /\ OnlyDisk /\ UNCHANGED paper /\ LooksAgain

\* _on_add_rules_dir appends, also what is there; _on_remove_rules_dir takes one out;
\* _on_rules_dirs_enabled_toggled.  Each makes a new life cycle.
ChangeDirs ==
  /\ Step /\ AtDesk
  /\ \/ dirsOn /\ Len(dirs) < 2 /\ dirs' = Append(dirs, Extra) /\ UNCHANGED dirsOn
     \/ dirsOn /\ dirs # <<>> /\ dirs' = Tail(dirs) /\ UNCHANGED dirsOn
     \/ dirsOn' = ~dirsOn /\ UNCHANGED dirs
  /\ UNCHANGED <<disk, off, ticks, paper, applying, shell, stateLock, readOff, wish>> /\ LooksAgain

-----------------------------------------------------------------------------
(* set_rule_enabled and set_rules_enabled: read, change and write under one  *)
(* lock                                                                      *)

OffNow == IF off = NoState THEN {} ELSE off

\* Mutant: nobody waits for the lock.
MutLockState(who) == stateLock' = who /\ readOff' = [readOff EXCEPT ![who] = {OffNow}]

LockState(who) == stateLock = Free /\ stateLock' = who /\ readOff' = [readOff EXCEPT ![who] = {OffNow}]

\* _save: the names but the default rule's
SavesOff(who, names, on) ==
  LET set == names \ {DefaultRule}
  IN /\ \E was \in readOff[who] : off' = IF on THEN was \ set ELSE was \cup set
     /\ wish' = [n \in DOMAIN wish \cup set |-> IF n \in set THEN on ELSE wish[n]]
     /\ stateLock' = Free /\ readOff' = [readOff EXCEPT ![who] = {}]

WindowLocks ==
  /\ applying # {} /\ readOff["window"] = {} /\ LockState("window")
  /\ UNCHANGED <<disk, off, dirs, dirsOn, shown, ticks, paper, applying, shell, wish, foreign, steps>>

\* After the last of them the ticks are gone and the window looks again.
WindowSaves ==
  /\ UNCHANGED <<disk, dirs, dirsOn, paper, shell, steps>>
  /\ \E n \in applying :
       /\ SavesOff("window", {n}, ticks[n]) /\ applying' = applying \ {n}
       /\ IF applying' = {} THEN ticks' = [m \in {} |-> TRUE] /\ shown' = ByName' /\ foreign' = FALSE
          ELSE UNCHANGED <<ticks, shown, foreign>>

-----------------------------------------------------------------------------
(* The commands                                                              *)

OfShell == UNCHANGED <<dirs, dirsOn, shown, ticks, paper, applying>>

\* rules enable and disable: of the names given, or of all, those whose state in the
\* snapshot of the command is another; with none it ends.
ShellSwitch(names, on) ==
  /\ Step /\ shell = {} /\ stateLock = Free
  /\ LET changed == {n \in names \ {DefaultRule} : n \in DOMAIN ByName /\ ByName[n].rule.on # on}
     IN changed # {} /\ shell' = {[kind |-> "switch", names |-> changed, on |-> on]}
  /\ OfShell /\ UNCHANGED <<disk, off, stateLock, readOff, wish, foreign>>
ShellLocks ==
  /\ (\E c \in shell : c.kind = "switch") /\ readOff["shell"] = {}
  /\ LockState("shell")
  /\ OfShell /\ UNCHANGED <<disk, off, shell, wish, foreign, steps>>
ShellSaves ==
  /\ \E c \in shell : c.kind = "switch" /\ SavesOff("shell", c.names, c.on)
  /\ shell' = {} /\ foreign' = TRUE
  /\ OfShell /\ UNCHANGED <<disk, steps>>

\* rules import and generate: the target is looked for first, and taken over only
\* with --overwrite; then it is written.
ShellBrings(r, overwrite) ==
  /\ Step /\ shell = {} /\ r.valid
  /\ \E h \in Home : h[2] = r.name /\ (disk[h] = NoRule \/ overwrite)
                     /\ shell' = {[kind |-> "bring", rule |-> r, place |-> h]}
  /\ OfShell /\ UNCHANGED <<disk, off, stateLock, readOff, wish, foreign>>
ShellWrites ==
  /\ \E c \in shell : c.kind = "bring" /\ disk' = [disk EXCEPT ![c.place] = c.rule]
  /\ shell' = {} /\ foreign' = TRUE
  /\ OfShell /\ UNCHANGED <<off, stateLock, readOff, wish, steps>>

\* rules reset: the first file that cannot be removed ends it.
ShellReset ==
  /\ Step /\ shell = {}
  /\ \E stays \in SUBSET Home : disk' = [p \in FilePlaces |-> IF p \in Home \ stays THEN NoRule ELSE disk[p]]
  /\ foreign' = TRUE
  /\ OfShell /\ UNCHANGED <<off, shell, stateLock, readOff, wish>>

\* get_disabled_rules: a reader who finds the state file damaged removes it.
StateDamaged ==
  /\ Step /\ stateLock = Free /\ off # NoState
  /\ off' = NoState /\ wish' = [n \in {} |-> TRUE] /\ foreign' = TRUE
  /\ OfShell /\ UNCHANGED <<disk, shell, stateLock, readOff>>

-----------------------------------------------------------------------------
DeskInit ==
  /\ disk \in {d \in [FilePlaces -> RuleText \cup {NoRule}] : \A p \in Preset : d[p] = Shipped[p]}
  /\ off = NoState /\ dirs = <<>> /\ dirsOn = TRUE /\ shown = ByName
  /\ ticks = [n \in {} |-> TRUE] /\ paper = {} /\ applying = {} /\ shell = {}
  /\ stateLock = Free /\ readOff = [who \in {"window", "shell"} |-> {}] /\ wish = [n \in {} |-> TRUE] /\ foreign = FALSE /\ steps = 0

DeskNext ==
  \/ Refresh \/ Apply \/ NewRule \/ EditRule \/ PasteRule \/ PressApply \/ ClosePaper \/ Reset \/ ChangeDirs
  \/ \E some \in SUBSET DeskNames, on \in BOOLEAN : TickRules(some, on) \/ ShellSwitch(some, on)
  \/ \E r \in RuleText : ImportHere(r) \/ \E overwrite \in BOOLEAN : ShellBrings(r, overwrite)
  \/ \E n \in DeskNames : Delete(n)
  \/ WindowLocks \/ WindowSaves \/ ShellLocks \/ ShellSaves \/ ShellWrites \/ ShellReset \/ StateDamaged

DeskSpec == DeskInit /\ [][DeskNext]_desk

DeskTypeOK ==
  /\ disk \in [FilePlaces -> RuleText \cup {NoRule}]
  /\ off = NoState \/ off \subseteq DeskNames \ {DefaultRule}
  /\ DOMAIN shown \subseteq DeskNames /\ DOMAIN ticks \subseteq DeskNames \ {DefaultRule}
  /\ applying \subseteq DOMAIN ticks /\ Cardinality(paper) <= 1 /\ Cardinality(shell) <= 1

-----------------------------------------------------------------------------
\* Window and commands switch rules over one file: what each wrote last for a name is
\* what the file says of it, however their reads and writes fall.
SwitchesKept == off # NoState => off = {n \in DOMAIN wish : ~wish[n]}

\* After each of its operations the window shows what is there, and how it is
\* switched, as long as nobody else has changed it: what is edited, deleted or ticked
\* next is then what the user sees.
ShownIsThere == AtDesk /\ ~foreign /\ readOff["window"] = {} => shown = ByName

\* No way to save, to rename, to bring in or to delete ends in a file of the package
\* or of a remote source.
PresetsUntouched == \A p \in Preset : disk[p] = Shipped[p]

\* No switch is lost to another's, what the window shows after its operations is there,
\* and the rules that came with the program are as they came.
DeskSound == SwitchesKept /\ ShownIsThere /\ PresetsUntouched

\* DeskSound and PreviewSound: what the windows show of rules and pages is what there is,
\* or, of pages, word of the change is on its way; switches are kept, and a button comes
\* back when its work is done.
WindowsSound == DeskSound /\ PreviewSound
=============================================================================
