------------------------------ MODULE PluginState ------------------------------
(***************************************************************************)
(* class PluginState in astroframe/_state.py: the file plugin-state.json,  *)
(* its copy .bak and its lock file, under several processes that read it   *)
(* and change it, one of which may crash, on a disk that may fail, next to *)
(* something that may damage the file.                                     *)
(*                                                                         *)
(* Every change of the code is a _modify of one entry, so what a file      *)
(* holds is the set of changes that were made to the default.              *)
(***************************************************************************)
EXTENDS Naturals, FiniteSets

CONSTANTS
  Process,     \* processes that use the file
  Change,      \* changes: a policy, a disabled plugin, a trust record, a config
  Damaged,     \* what cannot be read, or is not there
  NoProcess,
  MaxMishap    \* bound: damages, disk errors and crashes

ASSUME StateAssumption ==
  /\ IsFiniteSet(Change) /\ NoProcess \notin Process /\ (\A set \in SUBSET Change : Damaged # set)
  /\ MaxMishap \in Nat

VARIABLES
  main, bak,   \* the two files: a set of changes, or Damaged
  flock,       \* who holds the lock
  does,          \* where each process is
  holds,        \* what it read
  want,        \* the change it makes; {} while it only reads
  faults,
  returned,    \* history: changes whose _modify has returned
  failed,      \* history: changes whose _modify raised or was cut short
  astray,      \* history: a reader with no lock wrote back what was no longer so
  gone         \* history: damage left neither file with all changes

files == <<main, bak>>
procs == <<does, holds, want>>
history == <<returned, failed, astray, gone>>
state == <<files, flock, procs, faults, history>>

StateTypeOK ==
  /\ main = Damaged \/ main \subseteq Change
  /\ bak = Damaged \/ bak \subseteq Change
  /\ flock \in Process \cup {NoProcess}
  /\ does \in [Process -> {"idle", "load", "rescue", "copy", "save"}]
  /\ holds \in [Process -> SUBSET Change] /\ want \in [Process -> SUBSET Change]
  /\ faults \in 0 .. MaxMishap /\ returned \subseteq Change /\ failed \subseteq Change
  /\ astray \in BOOLEAN /\ gone \in BOOLEAN

GoesTo(p, where) == does' = [does EXCEPT ![p] = where]
Fault == faults > 0 /\ faults' = faults - 1
Used == (UNION {want[p] : p \in Process}) \cup returned \cup failed

\* What a reader falls back on: the copy, or _DEFAULT_STATE
Rescue == IF bak = Damaged THEN {} ELSE bak

\* What a load answers
Seen == IF main # Damaged THEN main ELSE Rescue

-----------------------------------------------------------------------------
\* load(), by itself: get_trusted, is_disabled, get_config, classify_zombie_trusted and
\* the start of discover_plugins
LoadState(p) ==
  /\ does[p] = "idle" /\ GoesTo(p, "load") /\ want' = [want EXCEPT ![p] = {}]
  /\ UNCHANGED <<files, flock, holds, faults, history>>

\* Mutant: the lock is not waited for.
MutModify(p, u) ==
  /\ does[p] = "idle" /\ u \notin Used
  /\ flock' = p /\ GoesTo(p, "load") /\ want' = [want EXCEPT ![p] = {u}]
  /\ UNCHANGED <<files, holds, faults, history>>

\* _modify, for a change of its own
Modify(p, u) ==
  /\ does[p] = "idle" /\ flock = NoProcess /\ u \notin Used
  /\ flock' = p /\ GoesTo(p, "load") /\ want' = [want EXCEPT ![p] = {u}]
  /\ UNCHANGED <<files, holds, faults, history>>

\* Where a load goes on: a reader is done
AfterLoad(p, content) ==
  /\ holds' = [holds EXCEPT ![p] = IF want[p] = {} THEN {} ELSE content \cup want[p]]
  /\ GoesTo(p, IF want[p] = {} THEN "idle" ELSE "copy")

\* Mutant: a file that cannot be read is taken for an empty one.
MutReadFile(p) ==
  /\ does[p] = "load"
  /\ AfterLoad(p, IF main = Damaged THEN {} ELSE main)
  /\ UNCHANGED <<files, flock, want, faults, history>>

\* _read_state_file, of the file and then of the copy
ReadFile(p) ==
  /\ does[p] = "load"
  /\ IF main # Damaged THEN AfterLoad(p, main)
     ELSE holds' = [holds EXCEPT ![p] = Rescue] /\ GoesTo(p, "rescue")
  /\ UNCHANGED <<files, flock, want, faults, history>>

\* The write back, which may fail and is then left
WriteBack(p) ==
  /\ does[p] = "rescue"
  /\ \/ main' = holds[p] /\ UNCHANGED faults /\ astray' = (astray \/ holds[p] # Seen)
     \/ Fault /\ UNCHANGED <<main, astray>>
  /\ AfterLoad(p, holds[p])
  /\ UNCHANGED <<bak, flock, want, returned, failed, gone>>

\* _save_locked: the copy first; an error there is ignored
SaveCopy(p) ==
  /\ does[p] = "copy" /\ GoesTo(p, "save")
  /\ \/ bak' = holds[p] /\ UNCHANGED faults
     \/ Fault /\ UNCHANGED bak
  /\ UNCHANGED <<main, flock, holds, want, history>>

\* The end of a _modify: the lock is released in any case.
EndModify(p, ok) ==
  /\ GoesTo(p, "idle") /\ flock' = NoProcess
  /\ holds' = [holds EXCEPT ![p] = {}] /\ want' = [want EXCEPT ![p] = {}]
  /\ IF ok THEN returned' = returned \cup want[p] /\ UNCHANGED failed
     ELSE failed' = failed \cup want[p] /\ UNCHANGED returned

\* Then the file itself, where an error reaches the caller
SaveMain(p) ==
  /\ does[p] = "save"
  /\ \/ main' = holds[p] /\ EndModify(p, TRUE) /\ UNCHANGED faults
     \/ Fault /\ EndModify(p, FALSE) /\ UNCHANGED main
  /\ UNCHANGED <<bak, astray, gone>>

\* The process dies, and flock with it.  A file is replaced as a whole or not.
Crash1(p) ==
  /\ does[p] # "idle" /\ Fault
  /\ GoesTo(p, "idle") /\ flock' = (IF flock = p THEN NoProcess ELSE flock)
  /\ holds' = [holds EXCEPT ![p] = {}] /\ want' = [want EXCEPT ![p] = {}]
  /\ failed' = failed \cup want[p] /\ UNCHANGED <<files, returned, astray, gone>>

\* Something else spoils one of the files.
Damage ==
  /\ Fault
  /\ \/ main' = Damaged /\ UNCHANGED bak
     \/ bak' = Damaged /\ UNCHANGED main
  /\ gone' = (gone \/ ~\E f \in {main', bak'} : f # Damaged /\ returned \subseteq f)
  /\ UNCHANGED <<flock, procs, returned, failed, astray>>

-----------------------------------------------------------------------------
\* The first start: there is no file.
StateInit ==
  /\ main = Damaged /\ bak = Damaged /\ flock = NoProcess
  /\ does = [p \in Process |-> "idle"] /\ holds = [p \in Process |-> {}] /\ want = holds
  /\ faults = MaxMishap /\ returned = {} /\ failed = {} /\ astray = FALSE /\ gone = FALSE

StateStep(p) ==
  LoadState(p) \/ (\E u \in Change : Modify(p, u)) \/ ReadFile(p) \/ WriteBack(p) \/ SaveCopy(p) \/ SaveMain(p) \/ Crash1(p)

StateNext == (\E p \in Process : StateStep(p)) \/ Damage

StateSpec == StateInit /\ [][StateNext]_state

-----------------------------------------------------------------------------
\* A change whose call returned is there for whoever loads next - after a crash,
\* after failed writes, and after the file was damaged - unless its copy had been
\* damaged or not been written, or a reader without the lock put an older state back.
ReturnedIsSeen == returned \subseteq Seen \/ astray \/ gone
=============================================================================
