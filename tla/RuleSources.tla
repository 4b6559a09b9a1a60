----------------------------- MODULE RuleSources -----------------------------
(***************************************************************************)
(* Remote sources of rules: rules/_source.py.  sources.json lists them and *)
(* is read and written by a crawl, by the command line and by the rules    *)
(* dialog, each with a SourceManager of its own.  An update fetches the    *)
(* manifest, compares its hash with the one in the file, writes the hash   *)
(* there, and only then fetches the rules.                                 *)
(*                                                                         *)
(* A source offers one rule, and a manifest is known by its edition, which *)
(* stands for its hash and for the SHA256 it gives of the rule.  The lock  *)
(* is the flock of sources.json.lock as POSIX has it.                      *)
(***************************************************************************)
EXTENDS Naturals, FiniteSets

CONSTANTS
  Source, Manager,
  Nobody,       \* the lock is free
  Absent,       \* no such entry
  User,         \* who edits the list by hand
  DegradeAfter, \* failures in a row
  DailyLimit,   \* SOURCE_DAILY_UPDATE_LIMIT
  MaxEdition, MaxEvents

\* A source in sources.json, and as a manager knows it
Entry == [hash : Nat, switched : BOOLEAN]
SourceState ==
  [state : {"active", "degraded", "stopped", "moved"}, hash : Nat, failures : Nat, cooling : BOOLEAN, spent : Nat]

ASSUME SourcesAssumption ==
  /\ {DegradeAfter, DailyLimit} \subseteq Nat \ {0} /\ {MaxEdition, MaxEvents} \subseteq Nat
  /\ User \notin Manager /\ Nobody \notin Manager \cup {User}
  /\ "killed" \notin Manager \cup {User, Nobody}
  /\ Absent \notin [Source -> {Absent} \cup SourceState]

VARIABLES
  listed,   \* sources.json: of a source Absent, or its hash (0: none) and whether the
            \* dialog ever switched it
  lock,     \* who has the lock: Nobody, a manager, User, or a thread that was killed
  copy,     \* what its holder read
  known,    \* _sources of a manager: SourceState, or Absent
  doing,    \* of each: what it is at
  remote,   \* the manifest: [edition, tells]
  cache,    \* the edition of the rule in the cache, or 0
  wrote,    \* history: what was last written for each source, for its own sake
  spoilt,   \* history: sources with an update that failed, was cut short or was not alone
  events

sources == <<listed, lock, copy, known, doing, remote, cache, wrote, spoilt, events>>

Writer == Manager \cup {User}
Idle == [at |-> "idle"]
NewEntry == [hash |-> 0, switched |-> FALSE]
Event == events < MaxEvents /\ events' = events + 1

BusyWith(m, s) == doing[m].at # "idle" /\ doing[m].src = s
\* Once its hash is noted, an update that stops leaves the old rule.
Committed(m) == doing[m].at \in {"fetching", "saving"}

-----------------------------------------------------------------------------
(* Each change of the list: read, change and write, under the lock           *)

\* Mutant: the file is read before the lock is asked for.
MutTakeList(a) ==
  /\ doing[a].at \in {"editing", "noting", "adding"} /\ copy[a] = Absent
  /\ copy' = [copy EXCEPT ![a] = listed] /\ UNCHANGED lock

TakeList(a) ==
  /\ doing[a].at \in {"editing", "noting", "adding"} /\ copy[a] = Absent
  /\ lock = Nobody /\ lock' = a
  /\ copy' = [copy EXCEPT ![a] = listed]

TakeLock(a) ==
  /\ TakeList(a)
  /\ UNCHANGED <<listed, known, doing, remote, cache, wrote, spoilt, events>>

\* Where the entry does not change the file is not written.
PutEntry(a, s, entry) ==
  /\ copy[a] # Absent
  /\ listed' = IF entry = copy[a][s] THEN listed ELSE [copy[a] EXCEPT ![s] = entry]
  /\ wrote' = IF entry = copy[a][s] THEN wrote ELSE [wrote EXCEPT ![s] = entry]
  /\ copy' = [copy EXCEPT ![a] = Absent]
  /\ lock' = IF lock = a THEN Nobody ELSE lock

\* add_source_to_file, remove_source_from_file, update_source_in_file
Edited(what, entry) ==
  CASE what = "add" -> IF entry = Absent THEN NewEntry ELSE entry
    [] what = "remove" -> Absent
    [] what = "switch" -> IF entry = Absent THEN Absent ELSE [entry EXCEPT !.switched = TRUE]
    [] what \in {"move", "repoint"} -> entry

\* Someone adds, removes or switches a source in the dialog or by the command line.  A
\* new URL takes away what is cached, in the dialog once it is written and by the command
\* line before that, and leaves the hash.
UserEdits(s, what) ==
  /\ Event /\ doing[User].at = "idle"
  /\ doing' = [doing EXCEPT ![User] = [at |-> "editing", src |-> s, what |-> what]]
  /\ IF what = "move" THEN cache' = [cache EXCEPT ![s] = 0] /\ spoilt' = spoilt \cup {s}
     ELSE UNCHANGED <<cache, spoilt>>
  /\ UNCHANGED <<listed, lock, copy, known, remote, wrote>>

UserWrites ==
  /\ doing[User].at = "editing"
  /\ LET s == doing[User].src IN
     /\ PutEntry(User, s, Edited(doing[User].what, copy[User][s]))
     /\ IF doing[User].what = "repoint" THEN cache' = [cache EXCEPT ![s] = 0] /\ spoilt' = spoilt \cup {s}
        ELSE UNCHANGED <<cache, spoilt>>
  /\ doing' = [doing EXCEPT ![User] = Idle]
  /\ UNCHANGED <<known, remote, events>>

-----------------------------------------------------------------------------
(* A manager                                                                 *)

\* The constructor.  An entry with a field SourceState does not have, as the switch of
\* the dialog, is not loaded.
OpenManager(m) ==
  /\ Event /\ known[m] = Absent
  /\ known' = [known EXCEPT ![m] =
       [s \in Source |-> IF listed[s] = Absent \/ (listed[s] # Absent /\ listed[s].switched) THEN Absent
                         ELSE [state |-> "active", hash |-> listed[s].hash, failures |-> 0, cooling |-> FALSE, spent |-> 0]]]
  /\ UNCHANGED <<listed, lock, copy, doing, remote, cache, wrote, spoilt>>

KnownTo(m, s) == known[m] # Absent /\ known[m][s] # Absent

\* A failure of fetch_manifest: the third in a row puts the source to rest, whatever
\* its state was.
Failing(r) ==
  [r EXCEPT !.failures = IF @ < DegradeAfter THEN @ + 1 ELSE @,
            !.state = IF r.failures + 1 >= DegradeAfter THEN "degraded" ELSE @,
            !.cooling = r.failures + 1 >= DegradeAfter \/ @]

Spent(r) == [r EXCEPT !.spent = @ + 1]

\* update_source up to its first await; of a source that was stopped or has moved the
\* manifest is refused at once.
Update(m, s) ==
  /\ Event /\ KnownTo(m, s) /\ doing[m].at = "idle"
  /\ LET r == known[m][s] IN
     /\ r.state = "degraded" => ~r.cooling
     /\ r.spent < DailyLimit
     /\ IF r.state \in {"stopped", "moved"}
        THEN /\ known' = [known EXCEPT ![m][s] = Failing(Spent(r))] /\ UNCHANGED <<doing, spoilt>>
        ELSE LET others == {o \in Manager \ {m} : BusyWith(o, s)} IN
             /\ known' = [known EXCEPT ![m][s] = Spent(r)]
             /\ doing' = [a \in Writer |->
                  IF a = m THEN [at |-> "asking", src |-> s, alone |-> others = {}]
                  ELSE IF a \in others THEN [doing[a] EXCEPT !.alone = FALSE] ELSE doing[a]]
             /\ spoilt' = IF others = {} THEN spoilt ELSE spoilt \cup {s}
  /\ UNCHANGED <<listed, lock, copy, remote, cache, wrote>>

\* The cool-down and the day end.
DayPasses(m, s) ==
  /\ Event /\ KnownTo(m, s)
  /\ \/ known' = [known EXCEPT ![m][s].cooling = FALSE]
     \/ known' = [known EXCEPT ![m][s].spent = 0, ![m][s].cooling = FALSE]
  /\ UNCHANGED <<listed, lock, copy, doing, remote, cache, wrote, spoilt>>

ManifestFails(m) ==
  /\ doing[m].at = "asking"
  /\ known' = [known EXCEPT ![m][doing[m].src] = Failing(@)]
  /\ doing' = [doing EXCEPT ![m] = Idle]
  /\ UNCHANGED <<listed, lock, copy, remote, cache, wrote, spoilt, events>>

\* What the manifest makes of the state.  One that stops the source changes nothing
\* else, and its hash is not kept.
Read(r, manifest) ==
  IF manifest.tells = "stop" THEN [r EXCEPT !.state = "stopped"]
  ELSE [r EXCEPT !.hash = manifest.edition, !.failures = 0, !.cooling = FALSE,
                 !.state = IF manifest.tells = "move" THEN "moved" ELSE "active"]

\* Back from fetch_manifest, up to the next lock: the hash kept is compared with the
\* one in the file.  A trial run ends here.
ManifestComes(m, trial) ==
  /\ doing[m].at = "asking"
  /\ LET s == doing[m].src
         manifest == remote[s]
         now == Read(known[m][s], manifest)
         old == IF listed[s] = Absent THEN 0 ELSE listed[s].hash
         same == old = now.hash /\ old # 0
     IN /\ known' = [known EXCEPT ![m][s] = IF same THEN [now EXCEPT !.failures = 0] ELSE now]
        /\ IF same \/ trial THEN doing' = [doing EXCEPT ![m] = Idle] /\ UNCHANGED spoilt
           ELSE /\ doing' = [doing EXCEPT ![m] = [at |-> "noting", src |-> s, alone |-> doing[m].alone,
                                                  hash |-> now.hash, edition |-> manifest.edition]]
                /\ spoilt' = IF manifest.tells = "stop" THEN spoilt \cup {s} ELSE spoilt
  /\ UNCHANGED <<listed, lock, copy, remote, cache, wrote, events>>

\* _persist_source_metadata: what is not found is added, under a lock of its own.
Note(m) ==
  /\ doing[m].at = "noting" /\ copy[m] # Absent
  /\ LET s == doing[m].src
         found == copy[m][s] # Absent
     IN /\ PutEntry(m, s, IF found THEN [copy[m][s] EXCEPT !.hash = doing[m].hash] ELSE Absent)
        /\ doing' = [doing EXCEPT ![m].at = IF found THEN "fetching" ELSE "adding"]
  /\ UNCHANGED <<known, remote, cache, spoilt, events>>

\* Where it is there by now, the update fails.
AddBack(m) ==
  /\ doing[m].at = "adding" /\ copy[m] # Absent
  /\ LET s == doing[m].src
         there == copy[m][s] # Absent
     IN /\ PutEntry(m, s, IF there THEN copy[m][s] ELSE [NewEntry EXCEPT !.hash = doing[m].hash])
        /\ doing' = [doing EXCEPT ![m] = IF there THEN Idle ELSE [@ EXCEPT !.at = "fetching"]]
  /\ UNCHANGED <<known, remote, cache, spoilt, events>>

RuleComes(m) ==
  /\ doing[m].at = "fetching" /\ remote[doing[m].src].edition = doing[m].edition
  /\ doing' = [doing EXCEPT ![m].at = "saving"]
  /\ UNCHANGED <<listed, lock, copy, known, remote, cache, wrote, spoilt, events>>

\* It does not come, is not the one announced, or is no rule: the update goes on
\* without it.
RuleFails(m) ==
  /\ Committed(m)
  /\ doing' = [doing EXCEPT ![m] = Idle] /\ spoilt' = spoilt \cup {doing[m].src}
  /\ UNCHANGED <<listed, lock, copy, known, remote, cache, wrote, events>>

RuleSaved(m) ==
  /\ doing[m].at = "saving"
  /\ cache' = [cache EXCEPT ![doing[m].src] = doing[m].edition]
  /\ spoilt' = IF doing[m].alone /\ doing[m].hash = doing[m].edition THEN spoilt \ {doing[m].src} ELSE spoilt
  /\ doing' = [doing EXCEPT ![m] = Idle]
  /\ UNCHANGED <<listed, lock, copy, known, remote, wrote, events>>

\* The process ends or is killed: its lock is free.  A thread of the dialog that does
\* not stop in time is killed, and its lock is not.
Ends(m, killedThread) ==
  /\ Event /\ known[m] # Absent
  /\ known' = [known EXCEPT ![m] = Absent] /\ copy' = [copy EXCEPT ![m] = Absent]
  /\ lock' = IF lock # m THEN lock ELSE IF killedThread THEN "killed" ELSE Nobody
  /\ spoilt' = IF Committed(m) THEN spoilt \cup {doing[m].src} ELSE spoilt
  /\ doing' = [doing EXCEPT ![m] = Idle]
  /\ UNCHANGED <<listed, remote, cache, wrote>>

\* The process of the dialog ends, and with it what its killed threads held.
DialogEnds ==
  /\ lock = "killed" /\ lock' = Nobody
  /\ UNCHANGED <<listed, copy, known, doing, remote, cache, wrote, spoilt, events>>

Publish(s, tells) ==
  /\ Event /\ remote[s].edition < MaxEdition
  /\ remote' = [remote EXCEPT ![s] = [edition |-> @.edition + 1, tells |-> tells]]
  /\ UNCHANGED <<listed, lock, copy, known, doing, cache, wrote, spoilt>>

SourcesInit ==
  /\ listed \in [Source -> {Absent, NewEntry}] /\ wrote = listed
  /\ lock = Nobody /\ copy = [a \in Writer |-> Absent] /\ known = [m \in Manager |-> Absent]
  /\ doing = [a \in Writer |-> Idle]
  /\ remote = [s \in Source |-> [edition |-> 1, tells |-> "rules"]]
  /\ cache = [s \in Source |-> 0] /\ spoilt = {} /\ events = 0

SourcesNext ==
  \/ UserWrites \/ DialogEnds
  \/ \E a \in Writer : TakeLock(a)
  \/ \E s \in Source :
       \/ \E what \in {"add", "remove", "switch", "move", "repoint"} : UserEdits(s, what)
       \/ \E tells \in {"rules", "move", "stop"} : Publish(s, tells)
  \/ \E m \in Manager :
       \/ OpenManager(m) \/ ManifestFails(m) \/ Note(m) \/ AddBack(m)
       \/ RuleComes(m) \/ RuleFails(m) \/ RuleSaved(m)
       \/ \E b \in BOOLEAN : ManifestComes(m, b) \/ Ends(m, b)
       \/ \E s \in Source : Update(m, s) \/ DayPasses(m, s)

SourcesSpec == SourcesInit /\ [][SourcesNext]_sources

SourcesTypeOK ==
  /\ DOMAIN listed = Source /\ lock \in Writer \cup {Nobody, "killed"}
  /\ \A m \in Manager, s \in Source : KnownTo(m, s) => known[m][s].failures <= DegradeAfter
  /\ cache \in [Source -> 0 .. MaxEdition] /\ spoilt \subseteq Source

-----------------------------------------------------------------------------
\* What one writes of a source is never undone by another who writes of another, and
\* who changes the list has the lock: each entry is what was last written of it.
EditsKept == listed = wrote

\* The hash in the file is that of the rule in the cache, once no one is at it, unless
\* an update failed, was cut short or was not alone since.
HashTruthful ==
  \A s \in Source \ spoilt :
    \/ listed[s] = Absent \/ \E m \in Manager : BusyWith(m, s)
    \/ listed[s].hash \in {0, cache[s]}

\* Both, of the list of sources and of what was fetched of them.
SourcesKept == EditsKept /\ HashTruthful
=============================================================================
