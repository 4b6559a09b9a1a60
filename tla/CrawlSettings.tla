---------------------------- MODULE CrawlSettings ----------------------------
(***************************************************************************)
(* What a crawl runs with, from its two entrances.  The command line lays  *)
(* the file, the environment, the flags and --set over each other (cli/    *)
(* main.py, config.py); the main window keeps some settings in its own     *)
(* widgets and the others in a configuration that the advanced dialog      *)
(* edits, and writes and reads files that hold both.                       *)
(***************************************************************************)
EXTENDS Integers

CONSTANTS
  SettingFile,  \* files somebody wrote: [window, robots, adv]; "window" for the window's form
  EnvLayer,     \* environments: [conc, level, note]
  FlagLayer,    \* command lines: [conc, robots, level, note, profile]
  SetLayer,     \* --set: [conc, hi, level]
  ProfileName,  \* proxy profiles
  Words,        \* contacts, levels of the log and modes
  NotSaid, Junk,  \* a layer says nothing of a setting, or what cannot be read
  MaxSteps      \* bound: things done in the window, and command lines

\* The modes on the window's list; a file may name any other, which nobody checks.
Modes == {"direct_only", "proxy_only", "prefer_direct", "prefer_proxy"}
ConfigRead == [conc : Int, robots : BOOLEAN, lo : Int, hi : Int, mode : Words, note : Words]

\* What is said is a number, a tick or a word; a command line is taken only if it can be
\* read, a variable or a --set may be anything.

ASSUME SettingsAssumption ==
  /\ MaxSteps \in Nat /\ NotSaid # Junk /\ NotSaid \notin ProfileName
  /\ Modes \cup {"site", "dialog", "prefs"} \subseteq Words /\ {NotSaid, Junk} \cap (Int \cup BOOLEAN \cup Words) = {}
  /\ SettingFile \subseteq [window : BOOLEAN, robots : BOOLEAN, adv : ConfigRead]
  /\ FlagLayer \subseteq [conc : Int \cup {NotSaid}, robots : BOOLEAN \cup {NotSaid}, level : Words \cup {NotSaid},
                          note : Words \cup {NotSaid}, profile : ProfileName \cup {NotSaid}]
  /\ EnvLayer \subseteq [conc : Int \cup {NotSaid, Junk}, level : Words \cup {NotSaid, Junk}, note : Words \cup {NotSaid}]
  /\ SetLayer \subseteq [conc : Int \cup {NotSaid, Junk}, hi : Int \cup {NotSaid, Junk}, level : Words \cup {NotSaid, Junk}]

VARIABLES
  win,    \* the widgets of the window: conc, robots, profile, mode, enabled, current
  adv,    \* _advanced_cfg
  dlg,    \* the advanced dialog: {}, or one [cfg, lo, hi, note]
  saved,  \* the file the window wrote: {}, or one [conc, robots, profile, adv]
  usable,  \* the profiles of the preferences that have endpoints
  shellRun,  \* the command line: step, file, flags, env, set, cfg, level, result
  leftMode,   \* ghost: the mode was last touched by a load or a reset
  back,   \* ghost: {} or, right after the saved file was loaded, what it held
  doneSteps

settings == <<win, adv, dlg, saved, usable, shellRun, leftMode, back, doneSteps>>

\* CrawlerConfig, with two settings that depend on each other, and its checks
Config(conc, robots, lo, hi, mode, note) ==
  [conc |-> conc, robots |-> robots, lo |-> lo, hi |-> hi, mode |-> mode, note |-> note]
DefaultConfig == Config(2, TRUE, 1, 2, "direct_only", "site")
ValidConfig(c) == c.conc > 0 /\ c.lo <= c.hi
Or(x, y) == IF x = NotSaid THEN y ELSE x

SettingsInit ==
  /\ win = [conc |-> DefaultConfig.conc, robots |-> TRUE, profile |-> NotSaid, mode |-> "direct_only", enabled |-> FALSE, current |-> NotSaid]
  /\ adv = DefaultConfig /\ dlg = {} /\ saved = {} /\ usable \in SUBSET ProfileName
  /\ shellRun = [step |-> "idle"] /\ leftMode = FALSE /\ back = {} /\ doneSteps = 0

-----------------------------------------------------------------------------
(* The window                                                                *)

SettingsAct == doneSteps < MaxSteps /\ doneSteps' = doneSteps + 1 /\ UNCHANGED shellRun
Main == dlg = {} /\ SettingsAct

\* with_contact: the note takes the place of the one at the end of the agent's name.
WithContact(c, note) == IF note = NotSaid THEN c ELSE [c EXCEPT !.note = note]

\* Mutant: the list goes to direct and nobody hears of it.
MutProxyFor(w, c) ==
  [win |-> IF w.profile \in usable THEN [w EXCEPT !.enabled = TRUE, !.current = w.profile]
           ELSE [w EXCEPT !.enabled = FALSE, !.current = NotSaid, !.mode = "direct_only"],
   adv |-> c]

\* _update_proxy_session, for the profile shown: the mode goes to direct where there is
\* no proxy, and _on_mode_changed hears of it only where the list moves.
ProxyFor(w, c) ==
  IF w.profile \in usable
  THEN [win |-> [w EXCEPT !.enabled = TRUE, !.current = w.profile], adv |-> c]
  ELSE [win |-> [w EXCEPT !.enabled = FALSE, !.current = NotSaid, !.mode = "direct_only"],
        adv |-> IF w.mode = "direct_only" THEN c ELSE [c EXCEPT !.mode = "direct_only"]]
\* _reload_profile_combo, and the update that follows where it is asked for
Reloaded(w) == IF w.profile \in usable THEN w ELSE [w EXCEPT !.profile = NotSaid]
Becomes(r) == win' = r.win /\ adv' = r.adv
Settled(w, c) == Becomes(ProxyFor(Reloaded(w), c))

SetWidgets ==
  /\ Main /\ \E n \in 1 .. 2, b \in BOOLEAN : win' = [win EXCEPT !.conc = n, !.robots = b]
  /\ back' = {} /\ UNCHANGED <<adv, dlg, saved, usable, leftMode>>

\* The list is read again as it opens, where the chosen profile may have gone.
PickProfile(p) ==
  /\ Main /\ p \in usable \cup {NotSaid} /\ p # win.profile
  /\ Becomes(ProxyFor([win EXCEPT !.profile = p], adv)) /\ back' = {}
  /\ leftMode' = (leftMode /\ win'.mode = win.mode)
  /\ UNCHANGED <<dlg, saved, usable>>

PickMode(m) ==
  /\ Main /\ win.enabled /\ m # win.mode
  /\ win' = [win EXCEPT !.mode = m] /\ adv' = [adv EXCEPT !.mode = m] /\ leftMode' = FALSE /\ back' = {}
  /\ UNCHANGED <<dlg, saved, usable>>

\* Profiles come and go in the dialog's proxy page; the window's copy hears of no other.
ProfileChanges(p) ==
  /\ SettingsAct /\ dlg # {} /\ usable' = (usable \ {p}) \cup ({p} \ usable)
  /\ back' = {} /\ UNCHANGED <<win, adv, dlg, saved, leftMode>>

\* AdvancedSettingsDialog: a box shows no less than its least value.
OpenAdvanced ==
  /\ Main
  /\ dlg' = {[cfg |-> adv, lo |-> IF adv.lo < 1 THEN 1 ELSE adv.lo, hi |-> IF adv.hi < 1 THEN 1 ELSE adv.hi, note |-> NotSaid]}
  /\ UNCHANGED <<win, adv, saved, usable, leftMode, back>>
EditAdvanced(d) ==
  /\ SettingsAct /\ \E lo \in 1 .. 2, hi \in 1 .. 2, note \in {NotSaid, "dialog"} : dlg' = {[d EXCEPT !.lo = lo, !.hi = hi, !.note = note]}
  /\ UNCHANGED <<win, adv, saved, usable, leftMode, back>>

\* get_config builds on the configuration the dialog was opened with.
FromDialog(d) == WithContact([d.cfg EXCEPT !.lo = d.lo, !.hi = d.hi], d.note)

\* _validate
Checked(d) == d.lo <= d.hi
ApplyAdvanced(d) ==
  /\ SettingsAct /\ Checked(d) /\ adv' = FromDialog(d) /\ back' = {} /\ UNCHANGED <<win, dlg, saved, usable, leftMode>>
\* OK or Cancel; either way the profiles are read again, and the proxies built anew.
CloseAdvanced(d) ==
  /\ SettingsAct /\ dlg' = {} /\ back' = {}
  /\ \/ Checked(d) /\ Settled(win, FromDialog(d))
     \/ Settled(win, adv)
  /\ leftMode' = (leftMode /\ win'.mode = win.mode)
  /\ UNCHANGED <<saved, usable>>

SaveConfig ==
  /\ Main /\ saved' = {[conc |-> win.conc, robots |-> win.robots, profile |-> win.profile, adv |-> adv]}
  /\ UNCHANGED <<win, adv, dlg, usable, leftMode, back>>

\* _load_config: what the window shows is set first, from_dict may then refuse the rest.
\* A file that names no profile leaves the one that is chosen.
Loads(f) ==
  LET named == IF f.profile = NotSaid THEN win ELSE [win EXCEPT !.profile = IF f.profile \in usable THEN f.profile ELSE @]
      shown == [named EXCEPT !.conc = IF f.conc < 1 THEN 1 ELSE f.conc, !.robots = f.robots]
      early == ProxyFor(Reloaded(shown), adv)
      whole == ProxyFor(early.win, f.adv)
  IN IF ValidConfig(f.adv)
     THEN Becomes(IF whole.win.current = NotSaid THEN whole ELSE [whole EXCEPT !.win.mode = IF f.adv.mode \in Modes THEN f.adv.mode ELSE @])
     ELSE Becomes(early)
LoadSaved ==
  /\ Main /\ \E f \in saved : /\ Loads(f)
                              /\ back' = IF f.profile \in usable THEN {f} ELSE {}
  /\ leftMode' = TRUE /\ UNCHANGED <<dlg, saved, usable>>
LoadOther ==
  /\ Main /\ \E f \in SettingFile : f.window /\ Loads([conc |-> f.adv.conc, robots |-> f.robots, profile |-> NotSaid, adv |-> f.adv])
  /\ leftMode' = TRUE /\ back' = {} /\ UNCHANGED <<dlg, saved, usable>>

ResetApp ==
  /\ Main /\ leftMode' = TRUE /\ back' = {}
  /\ win' = [ProxyFor(Reloaded(win), adv).win EXCEPT !.conc = DefaultConfig.conc, !.robots = TRUE] /\ adv' = DefaultConfig
  /\ UNCHANGED <<dlg, saved, usable>>

\* _run_crawler: what the window's own widgets say goes over the rest.
WindowRuns == [adv EXCEPT !.conc = win.conc, !.robots = win.robots]

-----------------------------------------------------------------------------
(* The command line                                                          *)

Shell(step) == shellRun.step = step /\ UNCHANGED <<win, adv, dlg, saved, usable, leftMode, back>>
Refused == [step |-> "refused"]

\* _load_file_config: the window's form has its own word on robots.txt, and no other of
\* its widgets is looked at.  Then what flags and --set say, where --set must be readable.
ShellFiles == {[adv |-> DefaultConfig, robots |-> NotSaid]} \cup {[adv |-> f.adv, robots |-> f.robots] : f \in saved}
              \cup {[adv |-> f.adv, robots |-> IF f.window THEN f.robots ELSE NotSaid] : f \in SettingFile}
ShellReads ==
  /\ Shell("idle") /\ doneSteps < MaxSteps /\ doneSteps' = doneSteps + 1
  /\ \E f \in ShellFiles, fl \in FlagLayer, env \in EnvLayer, set \in SetLayer :
       shellRun' = IF ~ValidConfig(f.adv) \/ Junk \in {set.conc, set.hi, set.level} THEN Refused
                ELSE [step |-> "layers", file |-> f, flags |-> fl, env |-> env, set |-> set]

\* from_env on the file: what cannot be read is passed over, the rest must be valid before
\* the command line has its say.
FromEnv(c, env) ==
  WithContact([c EXCEPT !.conc = IF env.conc \in {NotSaid, Junk} THEN @ ELSE env.conc], env.note)

\* The overrides of _merge_cli_config
Overrides(s) ==
  [FromEnv(s.file.adv, s.env) EXCEPT
     !.conc = Or(s.set.conc, Or(s.flags.conc, @)),
     !.robots = Or(s.flags.robots, Or(s.file.robots, @)), !.hi = Or(s.set.hi, @)]
LevelOf(s) ==
  LET gs == Or(s.flags.level, IF s.env.level = Junk THEN NotSaid ELSE s.env.level) IN Or(Or(s.set.level, gs), "prefs")
ShellLayers ==
  /\ Shell("layers") /\ UNCHANGED doneSteps
  /\ shellRun' = IF ValidConfig(FromEnv(shellRun.file.adv, shellRun.env)) /\ ValidConfig(Overrides(shellRun))
              THEN [shellRun EXCEPT !.step = "proxy"] ELSE Refused

\* The proxies: a profile must be there when it is read.
ShellRuns ==
  /\ Shell("proxy") /\ UNCHANGED doneSteps
  /\ shellRun' = IF shellRun.flags.profile \notin usable \cup {NotSaid} THEN Refused
              ELSE [step |-> "ran", asked |-> shellRun, level |-> LevelOf(shellRun), profile |-> shellRun.flags.profile,
                    cfg |-> WithContact(Overrides(shellRun), shellRun.flags.note)]
ShellEnds == Shell("ran") /\ shellRun' = [step |-> "idle"] /\ UNCHANGED doneSteps
ShellFails == Shell("refused") /\ shellRun' = [step |-> "idle"] /\ UNCHANGED doneSteps

SettingsNext ==
  \/ SetWidgets \/ OpenAdvanced \/ SaveConfig \/ LoadSaved \/ LoadOther \/ ResetApp
  \/ \E p \in ProfileName \cup {NotSaid} : PickProfile(p)
  \/ \E m \in Modes : PickMode(m)
  \/ \E p \in ProfileName : ProfileChanges(p)
  \/ \E d \in dlg : EditAdvanced(d) \/ ApplyAdvanced(d) \/ CloseAdvanced(d)
  \/ ShellReads \/ ShellLayers \/ ShellRuns \/ ShellEnds \/ ShellFails

SettingsSpec == SettingsInit /\ [][SettingsNext]_settings

SettingsTypeOK ==
  /\ win.conc \in 1 .. 2 /\ win.robots \in BOOLEAN /\ win.profile \in ProfileName \cup {NotSaid}
  /\ win.current \in {NotSaid, win.profile} /\ usable \subseteq ProfileName /\ leftMode \in BOOLEAN
  /\ shellRun.step \in {"idle", "layers", "proxy", "ran", "refused"}

-----------------------------------------------------------------------------
\* Nothing the window was given makes a crawl that its own checks refuse, whichever of
\* the dialog, a file and the widgets it came from.
WindowValid == ValidConfig(adv) /\ ValidConfig(WindowRuns)

\* The mode that runs is the one on the screen, and one that needs a proxy has one, but
\* for what a load or a reset left.
ModeShown == ~leftMode => adv.mode = win.mode /\ (adv.mode # "direct_only" => win.current # NotSaid)

\* Loading what was saved gives the settings that were saved, where the profile is still
\* there.
LoadGivesBack ==
  \A f \in back :
    /\ WindowRuns = [f.adv EXCEPT !.conc = f.conc, !.robots = f.robots] /\ win.current = f.profile
    /\ f.adv.mode \in Modes => win.mode = f.adv.mode

Uppermost(layers) ==
  LET heard == {i \in DOMAIN layers : layers[i] \notin {NotSaid, Junk}}
  IN layers[CHOOSE i \in heard : \A j \in heard : i <= j]

\* Of what each layer says the uppermost holds: --set, the flags, the environment, the
\* file, the default; a contact on the command line over the environment's.
UppermostHolds ==
  shellRun.step = "ran" =>
    LET s == shellRun.asked
    IN /\ shellRun.cfg.conc = Uppermost(<<s.set.conc, s.flags.conc, s.env.conc, s.file.adv.conc>>)
       /\ shellRun.cfg.robots = Uppermost(<<s.flags.robots, s.file.robots, s.file.adv.robots>>)
       /\ shellRun.cfg.hi = Uppermost(<<s.set.hi, s.file.adv.hi>>)
       /\ shellRun.cfg.note = Uppermost(<<s.flags.note, s.env.note, s.file.adv.note>>)
       /\ shellRun.level = Uppermost(<<s.set.level, s.flags.level, s.env.level, "prefs">>)
       /\ ValidConfig(shellRun.cfg)

\* Whatever was loaded, edited or reset: the window's configuration is valid and its mode
\* the one shown, a file gives back what was saved, and on the command line the uppermost
\* layer that says anything has its word.
LayersSound == WindowValid /\ ModeShown /\ LoadGivesBack /\ UppermostHolds
=============================================================================
