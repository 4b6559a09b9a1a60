------------------------------ MODULE PluginProofs ------------------------------
(***************************************************************************)
(* Plugins, for any number of them, of tasks, process slots, constraints,  *)
(* needs, wheels, messages and processes at the state file: the slots      *)
(* always add up, no child lives without one, a failed create leaves       *)
(* nothing behind, a call gets its own reply; a change whose call returned *)
(* is seen by all; the tables of the registry agree, and its chains keep   *)
(* to their constraints; and all that PluginsSound says of the way of a    *)
(* plugin to its process.                                                  *)
(***************************************************************************)
EXTENDS PluginProcess, PluginRegistry, PluginHost, ProofBasics, SequenceTheorems, FiniteSetTheorems, TLAPS

-----------------------------------------------------------------------------
(* The plugin processes                                                      *)

\* Tasks past the lock of their plugin
Busy == {t \in Task : stage[t] \notin {"out", "lock"}}

\* What a task may be doing at a stage, and what it then knows of its plugin
Placed ==
  /\ \A t \in Task : stage[t] = "lock" => op[t] # "create" /\ phase[on[t]] \in {"ready", "closed"}
  /\ \A t \in Busy :
       /\ op[t] = "create" => /\ phase[on[t]] = "made"
                              /\ stage[t] \in {"slot", "spawn", "greet", "undo"}
       /\ op[t] # "create" => lock[on[t]] = t /\ phase[on[t]] \in {"ready", "closed"}
       /\ op[t] = "close" => stage[t] \in {"reply", "undo"}

\* A plugin has one task at work on it: the one that creates it, or the one
\* that holds its lock.
Alone == \A t \in Busy : \A u \in Busy : on[t] = on[u] => t = u

\* The slot is free when it is asked for, and had when the child is started.
Slotted ==
  /\ \A p \in Plugin : phase[p] = "new" => ~hasSlot[p] /\ child[p] = "none"
  /\ \A t \in Busy : /\ stage[t] = "slot" => ~hasSlot[on[t]] /\ child[on[t]] = "none"
                     /\ stage[t] = "spawn" => hasSlot[on[t]] /\ child[on[t]] = "none"

\* Whoever may still count a crash has found the count below the limit.
LivesLeft ==
  \A t \in Busy : op[t] = "call" /\ stage[t] \notin {"kill", "undo"} => crashes[on[t]] <= MaxCrashRestarts

\* The pipes of a plugin hold at most one message, and that only while the
\* call it belongs to is under way.
Empty(p) == inbox[p] = <<>> /\ outbox[p] = <<>>
Quiet(p) == \A t \in Task : on[t] = p => stage[t] \notin {"reply", "kill", "undo"}
OneMessage ==
  Smooth => \A p \in Plugin :
    /\ \/ Empty(p)
       \/ inbox[p] = <<"mine">> /\ outbox[p] = <<>>
       \/ inbox[p] = <<>> /\ outbox[p] = <<"mine">>
    /\ Quiet(p) => Empty(p)

PluginInv ==
  /\ PluginTypeOK /\ Placed /\ Alone /\ Slotted /\ LivesLeft
  /\ SlotsAccounted /\ ChildHasSlot /\ NothingLeft
  /\ OneMessage /\ OwnReply

-----------------------------------------------------------------------------
(* Who is at work on a plugin.                                               *)

\* A task may go on with its turn,
LEMMA MoveKeepsTurns ==
  ASSUME PluginTypeOK, Placed, Alone, NEW t \in Busy, NEW place \in Stage \ {"out", "lock"},
         Move(t, place), UNCHANGED <<lock, phase>>,
         op[t] = "create" => place \in {"slot", "spawn", "greet", "undo"},
         op[t] = "close" => place \in {"reply", "undo"}
  PROVE  (Placed /\ Alone)'
BY DEF PluginTypeOK, Placed, Alone, Busy, Move

\* and end it, whatever becomes of its plugin.
LEMMA DoneKeepsTurns ==
  ASSUME PluginTypeOK, Placed, Alone, NEW t \in Busy, Done(t),
         \/ UNCHANGED phase
         \/ \E s : Becomes(on[t], s) /\ (op[t] # "create" => s \in {"ready", "closed"})
  PROVE  (Placed /\ Alone)'
<1>1. \A u \in Busy' : u \in Busy /\ u # t /\ on[u] # on[t]
  BY DEF PluginTypeOK, Alone, Busy, Done, Move
<1>2. \A u \in Busy' : op[u] # "create" => lock'[on[u]] = u
  BY <1>1 DEF PluginTypeOK, Placed, Busy, Done
<1>3. \A u \in Busy' : phase'[on[u]] = phase[on[u]]
  BY <1>1 DEF PluginTypeOK, Busy, Becomes
<1>4. \A u \in Task : stage'[u] = "lock" => phase'[on[u]] \in {"ready", "closed"}
  BY PluginAssumption DEF PluginTypeOK, Placed, Busy, Done, Move, Becomes
<1>5. UNCHANGED <<on, op>> /\ \A u \in Task : stage'[u] \in {"out", stage[u]}
  BY DEF PluginTypeOK, Done, Move
<1> QED
  BY <1>1, <1>2, <1>3, <1>4, <1>5 DEF Placed, Alone, Busy

\* No step gives a plugin to two tasks.
LEMMA TurnsKept ==
  ASSUME PluginInv, PluginNext
  PROVE  (Placed /\ Alone)'
<1> USE DEF PluginInv, Stage
<1>1. ASSUME NEW t \in Task, NEW p \in Plugin, Create(t, p) PROVE (Placed /\ Alone)'
  <2>1. \A u \in Busy : on[u] # p /\ phase'[on[u]] = phase[on[u]]
    BY <1>1 DEF PluginTypeOK, Placed, Busy, Create, Becomes
  <2>2. \A u \in Task : stage[u] = "lock" => phase'[on[u]] = phase[on[u]]
    BY <1>1 DEF PluginTypeOK, Placed, Create, Becomes
  <2>3. phase'[p] = "made" /\ UNCHANGED lock /\ stage'[t] = "slot" /\ on'[t] = p /\ op'[t] = "create"
    BY <1>1 DEF PluginTypeOK, Create, Begin, Becomes
  <2>4. /\ \A u \in Task \ {t} : stage'[u] = stage[u] /\ on'[u] = on[u] /\ op'[u] = op[u]
        /\ \A u \in Busy' : u = t \/ u \in Busy
    BY <1>1 DEF PluginTypeOK, Busy, Create, Begin
  <2> QED
    BY <2>1, <2>2, <2>3, <2>4 DEF Placed, Alone, Busy
<1>2. ASSUME NEW t \in Task, NEW p \in Plugin, Use(t, p) PROVE (Placed /\ Alone)'
  <2>1. UNCHANGED <<lock, phase>> /\ phase[p] \in {"ready", "closed"}
    BY <1>2 DEF Use
  <2>2. stage'[t] = "lock" /\ on'[t] = p /\ op'[t] # "create"
    BY <1>2 DEF PluginTypeOK, Use, Begin
  <2>3. /\ \A u \in Task \ {t} : stage'[u] = stage[u] /\ on'[u] = on[u] /\ op'[u] = op[u]
        /\ \A u \in Busy' : u # t /\ u \in Busy
    BY <1>2, <2>2 DEF PluginTypeOK, Busy, Use, Begin
  <2> QED
    BY <2>1, <2>2, <2>3 DEF Placed, Alone, Busy
<1>3. ASSUME NEW t \in Task, TakeSlot(t) \/ Spawn(t) \/ GreetFails(t) \/ GivesUp(t) \/ CloseAnswered(t)
      PROVE  (Placed /\ Alone)'
  <2>1. t \in Busy /\ UNCHANGED <<lock, phase>>
    BY <1>3 DEF Busy, TakeSlot, Spawn, GreetFails, GivesUp, CloseAnswered, Holding
  <2>2. \E place \in Stage \ {"out", "lock"} :
          /\ Move(t, place)
          /\ op[t] = "create" => place \in {"slot", "spawn", "greet", "undo"}
          /\ op[t] = "close" => place \in {"reply", "undo"}
    BY <1>3, <2>1 DEF Placed, TakeSlot, Spawn, GreetFails, GivesUp, CloseAnswered, Holding
  <2> QED
    BY <2>1, <2>2, MoveKeepsTurns
<1>4. ASSUME NEW t \in Task,
             Greeted(t) \/ SpawnFails(t) \/ Reply(t) \/ Undone(t) \/ LongReply(t)
      PROVE  (Placed /\ Alone)'
  <2>1. t \in Busy /\ Done(t)
    BY <1>4 DEF Busy, Greeted, SpawnFails, Reply, Undone, LongReply, Holding
  <2>2. \/ UNCHANGED phase
        \/ \E s : Becomes(on[t], s) /\ (op[t] # "create" => s \in {"ready", "closed"})
    BY <1>4, <2>1 DEF Placed, Greeted, SpawnFails, Reply, Undone, LongReply
  <2> QED
    BY <2>1, <2>2, DoneKeepsTurns
<1>5. ASSUME NEW t \in Task, Refused(t) \/ Send(t) PROVE (Placed /\ Alone)'
  <2>1. \A u \in Busy : op[u] # "create" => on[u] # on[t]
    BY <1>5, PluginAssumption DEF Placed, Busy, Refused, Send
  <2>2. stage[t] = "lock" /\ op[t] # "create" /\ phase[on[t]] \in {"ready", "closed"}
    BY <1>5 DEF Placed, Refused, Send
  <2>3. CASE Refused(t)
    BY <2>1, <2>2, <2>3, PluginAssumption DEF PluginTypeOK, Placed, Alone, Busy, Refused, Done, Move
  <2>4. CASE Send(t)
    <3>1. Busy' = Busy \cup {t} /\ UNCHANGED <<on, op, phase>>
      BY <2>2, <2>4 DEF PluginTypeOK, Busy, Send, Move
    <3>2. \A u \in Busy : on[u] # on[t] /\ lock'[on[u]] = lock[on[u]] /\ stage'[u] = stage[u]
      BY <2>1, <2>2, <2>4 DEF PluginTypeOK, Placed, Busy, Send, Move
    <3>3. lock'[on[t]] = t /\ stage'[t] = "reply"
      BY <2>4 DEF PluginTypeOK, Send, Move
    <3>4. \A u \in Task : stage'[u] = "lock" => stage[u] = "lock"
      BY <2>4 DEF PluginTypeOK, Send, Move
    <3> QED
      BY <2>2, <3>1, <3>2, <3>3, <3>4 DEF Placed, Alone
  <2> QED
    BY <1>5, <2>3, <2>4
<1>6. ASSUME NEW t \in Task, Killed(t) PROVE (Placed /\ Alone)'
  <2>1. t \in Busy /\ op[t] = "call" /\ UNCHANGED phase
    BY <1>6 DEF PluginTypeOK, Placed, Busy, Killed
  <2> QED
    BY <1>6, <2>1, MoveKeepsTurns, DoneKeepsTurns DEF Killed
<1>7. ASSUME NEW t \in Task, CutOff(t) PROVE (Placed /\ Alone)'
  <2>1. /\ Done(t)
        /\ \/ UNCHANGED phase
           \/ op[t] = "create" /\ Becomes(on[t], "lost")
    BY <1>7 DEF CutOff
  <2>2. CASE t \in Busy
    BY <2>1, <2>2, DoneKeepsTurns
  <2>3. CASE stage[t] = "lock"
    BY <2>1, <2>3, PluginAssumption DEF PluginTypeOK, Placed, Alone, Busy, Done, Move
  <2> QED
    BY <1>7, <2>2, <2>3 DEF Busy, CutOff
<1>8. ASSUME NEW p \in Plugin, Answer(p) \/ ChildDies(p) PROVE (Placed /\ Alone)'
  BY <1>8 DEF Placed, Alone, Busy, Answer, ChildDies, places
<1> QED
  BY <1>1, <1>2, <1>3, <1>4, <1>5, <1>6, <1>7, <1>8 DEF PluginNext, TaskStep

-----------------------------------------------------------------------------
(* Types, and the count of crashes                                           *)

\* Where the tasks are stays of its type.
LEMMA ControlTyped ==
  ASSUME PluginTypeOK, PluginNext
  PROVE  /\ stage' \in [Task -> Stage] /\ on' \in [Task -> Plugin]
         /\ op' \in [Task -> {"create", "call", "close"}]
         /\ lock' \in [Plugin -> Task \cup {Nobody}]
<1> USE DEF PluginTypeOK, Stage
<1>1. ASSUME NEW t \in Task, NEW p \in Plugin, Create(t, p) \/ Use(t, p)
      PROVE  /\ stage' \in [Task -> Stage] /\ on' \in [Task -> Plugin] /\ UNCHANGED lock
             /\ op' \in [Task -> {"create", "call", "close"}]
  <2>1. \E what \in {"create", "call", "close"}, place \in Stage : Begin(t, p, what, place)
    BY <1>1 DEF Create, Use
  <2> QED
    BY <1>1, <2>1 DEF Begin, Create, Use
<1>2. ASSUME NEW t \in Task, NEW place \in Stage, Move(t, place)
      PROVE  /\ stage' \in [Task -> Stage] /\ UNCHANGED <<on, op>>
  BY <1>2 DEF Move
<1>3. ASSUME NEW t \in Task, Done(t)
      PROVE  /\ stage' \in [Task -> Stage] /\ UNCHANGED <<on, op>>
             /\ lock' \in [Plugin -> Task \cup {Nobody}]
  BY <1>2, <1>3 DEF Done
<1>4. ASSUME NEW t \in Task, TaskStep(t) \/ LongReply(t) \/ CutOff(t)
      PROVE  \/ Done(t)
             \/ /\ \E place \in Stage : Move(t, place)
                /\ UNCHANGED lock \/ lock' = [lock EXCEPT ![on[t]] = t]
  BY <1>4 DEF TaskStep, TakeSlot, Spawn, Greeted, SpawnFails, GreetFails, Refused, Send, Reply,
              GivesUp, CloseAnswered, Killed, Undone, LongReply, CutOff
<1>5. ASSUME NEW p \in Plugin, Answer(p) \/ ChildDies(p) PROVE UNCHANGED <<stage, on, op, lock>>
  BY <1>5 DEF Answer, ChildDies, places
<1> QED
  BY <1>1, <1>2, <1>3, <1>4, <1>5 DEF PluginNext

Line == Seq({"mine", "late"})
Fits(box) == box \in [Plugin -> Line]

\* What may be done to a pipe makes a pipe of it.
LEMMA LineFacts ==
  /\ <<>> \in Line
  /\ \A s \in Line :
       /\ Late(s) \in Line /\ Append(s, "mine") \in Line /\ Append(s, "late") \in Line
       /\ s # <<>> => Tail(s) \in Line /\ \A r \in Line : Append(r, Head(s)) \in Line
BY DEF Line, Late

\* The pipes stay pipes.
LEMMA PipesTyped ==
  ASSUME PluginTypeOK, PluginNext
  PROVE  Fits(inbox') /\ Fits(outbox')
<1>1. Fits(inbox) /\ Fits(outbox)
  BY DEF PluginTypeOK, Fits, Line
<1>2. ASSUME NEW p \in Plugin, Abandon(p) \/ Reaped(p) PROVE Fits(inbox') /\ Fits(outbox')
  BY <1>1, <1>2, LineFacts DEF Abandon, Reaped, Fits
<1>3. ASSUME NEW t \in Task, Send(t) PROVE Fits(inbox') /\ Fits(outbox')
  BY <1>1, <1>3, LineFacts DEF PluginTypeOK, Send, Fits
<1>4. ASSUME NEW t \in Task, Reply(t) \/ LongReply(t) PROVE Fits(inbox') /\ Fits(outbox')
  <2>1. on[t] \in Plugin /\ outbox[on[t]] # <<>>
    BY <1>4 DEF PluginTypeOK, Reply, LongReply
  <2>2. Late(inbox[on[t]]) \in Line /\ Late(outbox[on[t]]) \in Line /\ Late(Tail(outbox[on[t]])) \in Line
    BY <1>1, <2>1, LineFacts DEF Fits
  <2> QED
    BY <1>1, <1>4, <2>1, <2>2 DEF Reply, LongReply, Fits
<1>5. ASSUME NEW t \in Task, CutOff(t) PROVE Fits(inbox') /\ Fits(outbox')
  <2>1. \/ Abandon(on[t])
        \/ /\ UNCHANGED inbox
           /\ UNCHANGED outbox \/ outbox' = [outbox EXCEPT ![on[t]] = Append(@, "late")]
    BY <1>5 DEF CutOff
  <2>2. on[t] \in Plugin /\ Append(outbox[on[t]], "late") \in Line
    BY <1>1, LineFacts DEF PluginTypeOK, Fits
  <2> QED
    BY <1>1, <1>2, <2>1, <2>2 DEF Fits
<1>6. ASSUME NEW p \in Plugin, Answer(p) PROVE Fits(inbox') /\ Fits(outbox')
  <2>1. <<>> \in Line /\ Tail(inbox[p]) \in Line /\ Append(outbox[p], Head(inbox[p])) \in Line
    BY <1>1, <1>6, LineFacts DEF Answer, Fits
  <2> QED
    BY <1>1, <1>6, <2>1 DEF Answer, Fits
<1>7. ASSUME NEW p \in Plugin, ChildDies(p) PROVE Fits(inbox') /\ Fits(outbox')
  BY <1>1, <1>7, LineFacts DEF ChildDies, Fits
<1>8. ASSUME UNCHANGED pipes PROVE Fits(inbox') /\ Fits(outbox')
  BY <1>1, <1>8 DEF pipes
<1>9. ASSUME NEW t \in Task, TaskStep(t), ~Send(t), ~Reply(t)
      PROVE  (\E p \in Plugin : Reaped(p)) \/ UNCHANGED pipes
  BY <1>9 DEF PluginTypeOK, TaskStep, TakeSlot, Spawn, Greeted, SpawnFails, GreetFails, Refused,
              GivesUp, CloseAnswered, Killed, Undone
<1>10. ASSUME NEW t \in Task, NEW p \in Plugin, Create(t, p) \/ Use(t, p) PROVE UNCHANGED pipes
  BY <1>10 DEF Create, Use
<1> QED
  BY <1>2, <1>3, <1>4, <1>5, <1>6, <1>7, <1>8, <1>9, <1>10 DEF PluginNext

\* The processes and their slots stay of their types.
LEMMA ChildrenTyped ==
  ASSUME PluginTypeOK, PluginNext
  PROVE  child' \in [Plugin -> {"none", "up", "dead"}] /\ hasSlot' \in [Plugin -> BOOLEAN]
<1> USE DEF PluginTypeOK
<1>1. ASSUME NEW t \in Task, TaskStep(t) \/ LongReply(t)
      PROVE  \/ UNCHANGED child
             \/ \E c \in {"none", "up", "dead"} : child' = [child EXCEPT ![on[t]] = c]
  BY <1>1 DEF TaskStep, TakeSlot, Spawn, Greeted, SpawnFails, GreetFails, Refused, Send, Reply,
              GivesUp, CloseAnswered, Killed, Undone, Reaped, LongReply, process
<1>2. ASSUME NEW t \in Task, TaskStep(t) \/ LongReply(t) \/ CutOff(t)
      PROVE  \/ UNCHANGED hasSlot
             \/ \E b \in BOOLEAN : hasSlot' = [hasSlot EXCEPT ![on[t]] = b]
  BY <1>2 DEF TaskStep, TakeSlot, Spawn, Greeted, SpawnFails, GreetFails, Refused, Send, Reply,
              GivesUp, CloseAnswered, Killed, Undone, ReleaseSlot, LongReply, CutOff, process
<1>3. ASSUME NEW t \in Task, CutOff(t) PROVE child' \in [Plugin -> {"none", "up", "dead"}]
  BY <1>3 DEF CutOff
<1>4. ASSUME NEW t \in Task, NEW p \in Plugin, Create(t, p) \/ Use(t, p) PROVE UNCHANGED <<child, hasSlot>>
  BY <1>4 DEF Create, Use, process
<1>5. ASSUME NEW p \in Plugin, Answer(p) \/ ChildDies(p)
      PROVE  child' \in [Plugin -> {"none", "up", "dead"}] /\ UNCHANGED hasSlot
  BY <1>5 DEF Answer, ChildDies, process
<1> QED
  BY <1>1, <1>2, <1>3, <1>4, <1>5 DEF PluginNext

\* So do the phases of the objects.
LEMMA PhaseTyped ==
  ASSUME PluginTypeOK, PluginNext
  PROVE  phase' \in [Plugin -> {"new", "made", "ready", "lost", "closed"}]
<1> USE DEF PluginTypeOK
<1>1. ASSUME NEW t \in Task, TaskStep(t) \/ LongReply(t) \/ CutOff(t)
      PROVE  \/ UNCHANGED phase
             \/ \E s \in {"new", "made", "ready", "lost", "closed"} : Becomes(on[t], s)
  BY <1>1 DEF TaskStep, TakeSlot, Spawn, Greeted, SpawnFails, GreetFails, Refused, Send, Reply,
              GivesUp, CloseAnswered, Killed, Undone, LongReply, CutOff
<1>2. ASSUME NEW t \in Task, NEW p \in Plugin, Create(t, p) \/ Use(t, p)
      PROVE  UNCHANGED phase \/ Becomes(p, "made")
  BY <1>2 DEF Create, Use
<1>3. ASSUME NEW p \in Plugin, Answer(p) \/ ChildDies(p) PROVE UNCHANGED phase
  BY <1>3 DEF Answer, ChildDies
<1> QED
  BY <1>1, <1>2, <1>3 DEF PluginNext, Becomes

Counted ==
  /\ crashes \in [Plugin -> 0 .. MaxCrashRestarts + 1] /\ exhausted \in [Plugin -> BOOLEAN]
  /\ LivesLeft

\* A step that counts nothing: only a task that joins the busy ones, or moves
\* out of the kill, has anything to show.
LEMMA NoCount ==
  ASSUME PluginTypeOK, LivesLeft, UNCHANGED <<crashes, exhausted, on, op>>,
         \A t \in Busy' : \/ t \in Busy /\ stage[t] \notin {"kill", "undo"}
                          \/ op[t] # "call" \/ stage'[t] \in {"kill", "undo"}
                          \/ crashes[on[t]] <= MaxCrashRestarts
  PROVE  Counted'
BY DEF PluginTypeOK, LivesLeft, Counted

\* A step that counts a crash: the task that does it leaves or goes on to kill.
LEMMA OthersCount ==
  ASSUME PluginTypeOK, LivesLeft, Alone, UNCHANGED <<on, op>>, NEW t \in Busy,
         crashes' \in [Plugin -> 0 .. MaxCrashRestarts + 1], exhausted' \in [Plugin -> BOOLEAN],
         \A p \in Plugin : p # on[t] => crashes'[p] = crashes[p],
         \A u \in Busy' : \/ u # t /\ u \in Busy /\ stage'[u] = stage[u]
                          \/ u = t /\ stage'[u] \in {"kill", "undo"}
  PROVE  Counted'
<1> SUFFICES ASSUME NEW u \in Busy', op[u] = "call", stage'[u] \notin {"kill", "undo"}
             PROVE  crashes'[on[u]] <= MaxCrashRestarts
  BY DEF Counted, LivesLeft
<1>1. u # t /\ u \in Busy /\ stage[u] \notin {"kill", "undo"} /\ on[u] # on[t]
  BY DEF Alone
<1> QED
  BY <1>1 DEF PluginTypeOK, LivesLeft, Busy

\* No step counts more crashes than there may be.
LEMMA CountKept ==
  ASSUME PluginInv, PluginNext
  PROVE  Counted'
<1> USE PluginAssumption DEF PluginInv, PluginTypeOK
<1>1. ASSUME NEW t \in Task, SpawnFails(t) \/ GreetFails(t) PROVE Counted'
  <2>1. t \in Busy /\ (op[t] # "create" => op[t] = "call" /\ crashes[on[t]] <= MaxCrashRestarts)
    BY <1>1 DEF SpawnFails, GreetFails, Busy, Placed, LivesLeft
  <2>2. /\ crashes' \in [Plugin -> 0 .. MaxCrashRestarts + 1] /\ exhausted' \in [Plugin -> BOOLEAN]
        /\ \A p \in Plugin : p # on[t] => crashes'[p] = crashes[p]
    <3>1. CASE UNCHANGED record
      BY <3>1 DEF record
    <3>2. CASE op[t] # "create"
      <4>1. crashes' = [crashes EXCEPT ![on[t]] = @ + 1]
        BY <1>1, <3>2 DEF SpawnFails, GreetFails, LoseLife
      <4>2. \E b \in BOOLEAN : exhausted' = [exhausted EXCEPT ![on[t]] = b]
        BY <1>1, <3>2 DEF SpawnFails, GreetFails, LoseLife
      <4> QED
        BY <2>1, <3>2, <4>1, <4>2
    <3> QED
      BY <1>1, <3>1, <3>2 DEF SpawnFails, GreetFails, LoseLife
  <2>3. \A u \in Busy' : \/ u # t /\ u \in Busy /\ stage'[u] = stage[u]
                         \/ u = t /\ stage'[u] = "undo"
    BY <1>1 DEF SpawnFails, GreetFails, Done, Move, Busy
  <2>4. UNCHANGED <<on, op>>
    BY <1>1 DEF SpawnFails, GreetFails, Done, Move
  <2> QED
    BY <2>1, <2>2, <2>4, OthersCount, <2>3 DEF Busy
<1>2. ASSUME NEW t \in Task, Reply(t) \/ GivesUp(t) PROVE Counted'
  <2>1. t \in Busy /\ UNCHANGED <<on, op>> /\ (op[t] = "call" => crashes[on[t]] <= MaxCrashRestarts)
    BY <1>2 DEF Reply, GivesUp, Holding, Busy, LivesLeft, Done, Move
  <2>2. /\ crashes' \in [Plugin -> 0 .. MaxCrashRestarts + 1] /\ exhausted' \in [Plugin -> BOOLEAN]
        /\ \A p \in Plugin : p # on[t] => crashes'[p] = crashes[p]
    BY <1>2, <2>1 DEF Reply, GivesUp
  <2>3. \A u \in Busy' : \/ u # t /\ u \in Busy /\ stage'[u] = stage[u]
                         \/ u = t /\ stage'[u] \in {"kill", "undo"}
    BY <1>2 DEF Reply, GivesUp, Done, Move, Busy
  <2> QED
    BY <2>1, <2>2, <2>3, OthersCount
<1>3. ASSUME NEW t \in Task, TakeSlot(t) \/ Spawn(t) \/ Greeted(t) \/ Refused(t) \/ CloseAnswered(t)
                             \/ Undone(t) \/ LongReply(t) \/ CutOff(t)
      PROVE  Counted'
  <2>1. UNCHANGED <<crashes, exhausted, on, op>>
    BY <1>3 DEF TakeSlot, Spawn, Greeted, Refused, CloseAnswered, Undone, LongReply, CutOff, Done, Move, record
  <2>2. \A u \in Busy' : u \in Busy /\ (u = t \/ stage'[u] = stage[u])
    BY <1>3 DEF TakeSlot, Spawn, Greeted, Refused, CloseAnswered, Undone, LongReply, CutOff, Done, Move,
                Holding, Busy
  <2>3. stage'[t] \in {"out", "undo"} \/ stage[t] \in {"slot", "spawn"}
    BY <1>3 DEF TakeSlot, Spawn, Greeted, Refused, CloseAnswered, Undone, LongReply, CutOff, Done, Move
  <2>4. \A u \in Busy' : stage[u] \in {"kill", "undo"} => stage'[u] \in {"kill", "undo"}
    BY <2>2, <2>3 DEF Busy
  <2> QED
    BY <2>1, <2>2, <2>4, NoCount
<1>4. ASSUME NEW t \in Task, Send(t) \/ Killed(t) PROVE Counted'
  <2>1. UNCHANGED <<crashes, on, op>> /\ exhausted' \in [Plugin -> BOOLEAN]
    BY <1>4 DEF Send, Killed, Done, Move, record
  <2>2. stage'[t] # "out" => (op[t] = "call" => crashes[on[t]] <= MaxCrashRestarts)
    BY <1>4 DEF Send, Killed, Usable, Done, Move
  <2>3. \A u \in Busy' : u # t => u \in Busy /\ stage'[u] = stage[u]
    BY <1>4 DEF Send, Killed, Busy, Done, Move
  <2> QED
    BY <2>1, <2>2, <2>3 DEF Counted, LivesLeft, Busy
<1>5. ASSUME NEW t \in Task, NEW p \in Plugin, Create(t, p) \/ Use(t, p) PROVE Counted'
  <2>1. /\ UNCHANGED <<crashes, exhausted>>
        /\ op'[t] = "call" => stage'[t] = "lock"
        /\ \A u \in Task \ {t} : stage'[u] = stage[u] /\ on'[u] = on[u] /\ op'[u] = op[u]
    BY <1>5 DEF Create, Use, Begin, record
  <2> QED
    BY <2>1 DEF Counted, LivesLeft, Busy
<1>6. ASSUME NEW p \in Plugin, Answer(p) \/ ChildDies(p) PROVE Counted'
  BY <1>6 DEF Answer, ChildDies, places, record, Counted, LivesLeft, Busy
<1> QED
  BY <1>1, <1>2, <1>3, <1>4, <1>5, <1>6 DEF PluginNext, TaskStep

-----------------------------------------------------------------------------
(* Slots                                                                     *)

SlotsOK == Slotted /\ SlotsAccounted /\ ChildHasSlot /\ NothingLeft /\ slots \in 0 .. MaxSubprocesses

Having == {p \in Plugin : hasSlot[p]}

\* One more has a slot, or one fewer, or it makes no difference.
LEMMA HavingCount ==
  ASSUME NEW H \in SUBSET Plugin, NEW p \in Plugin
  PROVE  /\ Cardinality(H) \in Nat
         /\ Cardinality(H \cup {p}) = IF p \in H THEN Cardinality(H) ELSE Cardinality(H) + 1
         /\ Cardinality(H \ {p}) = IF p \in H THEN Cardinality(H) - 1 ELSE Cardinality(H)
<1>1. IsFiniteSet(H)
  BY PluginAssumption, FS_Subset
<1> QED
  BY <1>1, FS_CardinalityType, FS_AddElement, FS_RemoveElement

\* A slot that is released is given back once,
LEMMA ReleaseCounts ==
  ASSUME PluginTypeOK, SlotsAccounted, NEW p \in Plugin, ReleaseSlot(p)
  PROVE  /\ SlotsAccounted' /\ slots' \in 0 .. MaxSubprocesses
         /\ hasSlot' \in [Plugin -> BOOLEAN] /\ ~hasSlot'[p]
         /\ \A q \in Plugin : q # p => hasSlot'[q] = hasSlot[q]
<1>1. /\ hasSlot' \in [Plugin -> BOOLEAN] /\ ~hasSlot'[p]
      /\ \A q \in Plugin : q # p => hasSlot'[q] = hasSlot[q]
  BY DEF PluginTypeOK, ReleaseSlot
<1>2. Having \in SUBSET Plugin /\ Having' = Having \ {p} /\ (p \in Having <=> hasSlot[p])
  BY <1>1 DEF Having
<1>3. /\ Cardinality(Having) \in Nat /\ Cardinality(Having \ {p}) \in Nat
      /\ Cardinality(Having \ {p}) = IF p \in Having THEN Cardinality(Having) - 1 ELSE Cardinality(Having)
  <2>1. Having \ {p} \in SUBSET Plugin
    BY <1>2
  <2> QED
    BY <1>2, <2>1, HavingCount
<1>4. slots' = (IF p \in Having THEN slots + 1 ELSE slots) /\ slots \in Nat
  BY <1>2 DEF PluginTypeOK, ReleaseSlot
<1>5. slots + Cardinality(Having) = MaxSubprocesses
  BY DEF SlotsAccounted, Having
<1>6. slots' + Cardinality(Having \ {p}) = MaxSubprocesses /\ slots' \in 0 .. MaxSubprocesses
  BY <1>3, <1>4, <1>5, PluginAssumption
<1> QED
  BY <1>1, <1>2, <1>6 DEF SlotsAccounted, Having

\* and one that is taken was there.
LEMMA TakeCounts ==
  ASSUME PluginTypeOK, SlotsAccounted, NEW p \in Plugin, ~hasSlot[p], slots > 0,
         slots' = slots - 1, hasSlot' = [hasSlot EXCEPT ![p] = TRUE]
  PROVE  SlotsAccounted' /\ slots' \in 0 .. MaxSubprocesses
<1>1. Having \in SUBSET Plugin /\ Having' = Having \cup {p} /\ p \notin Having
  BY DEF PluginTypeOK, Having
<1>2. Cardinality(Having) \in Nat /\ Cardinality(Having \cup {p}) = Cardinality(Having) + 1
  BY <1>1, HavingCount
<1>3. slots + Cardinality(Having) = MaxSubprocesses /\ slots \in Nat
  BY DEF PluginTypeOK, SlotsAccounted, Having
<1>4. slots' + Cardinality(Having \cup {p}) = MaxSubprocesses /\ slots' \in 0 .. MaxSubprocesses
  BY <1>2, <1>3, PluginAssumption
<1> QED
  BY <1>1, <1>4 DEF SlotsAccounted, Having

\* What a step does to the slot and the child of the one plugin it is about.
LEMMA OthersSlots ==
  ASSUME PluginInv, NEW t \in Busy, UNCHANGED on,
         SlotsAccounted' /\ slots' \in 0 .. MaxSubprocesses, mishaps' \in 0 .. mishaps,
         \A p \in Plugin : p # on[t] => /\ hasSlot'[p] = hasSlot[p] /\ child'[p] = child[p]
                                       /\ phase'[p] = phase[p],
         \A u \in Task \ {t} : stage'[u] = stage[u],
         phase'[on[t]] # "new",
         child'[on[t]] # "none" => hasSlot'[on[t]],
         stage'[t] = "slot" => ~hasSlot'[on[t]] /\ child'[on[t]] = "none",
         stage'[t] = "spawn" => hasSlot'[on[t]] /\ child'[on[t]] = "none",
         Smooth' /\ phase'[on[t]] = "lost" => child'[on[t]] = "none" /\ ~hasSlot'[on[t]]
  PROVE  SlotsOK'
<1>1. \A u \in Busy' : u # t => u \in Busy /\ on[u] # on[t]
  BY DEF PluginInv, Alone, Busy
<1>2. Slotted'
  <2>1. ASSUME NEW p \in Plugin, phase'[p] = "new" PROVE ~hasSlot'[p] /\ child'[p] = "none"
    BY <2>1 DEF PluginInv, Slotted
  <2>2. ASSUME NEW u \in Busy', u # t
        PROVE  /\ stage'[u] = "slot" => ~hasSlot'[on[u]] /\ child'[on[u]] = "none"
               /\ stage'[u] = "spawn" => hasSlot'[on[u]] /\ child'[on[u]] = "none"
    <3>1. u \in Busy /\ stage'[u] = stage[u] /\ on[u] \in Plugin /\ on[u] # on[t]
      BY <1>1, <2>2 DEF PluginInv, PluginTypeOK, Busy
    <3> QED
      BY <3>1 DEF PluginInv, Slotted
  <2> QED
    BY <2>1, <2>2 DEF Slotted
<1>3. ChildHasSlot'
  BY DEF PluginInv, ChildHasSlot
<1>4. Smooth' => Smooth
  BY PluginAssumption DEF PluginInv, PluginTypeOK, Smooth
<1>5. NothingLeft'
  BY <1>4 DEF PluginInv, NothingLeft
<1> QED
  BY <1>2, <1>3, <1>5 DEF SlotsOK

\* No step loses a slot, or lets a child live without one.
LEMMA SlotsKept ==
  ASSUME PluginInv, PluginNext
  PROVE  SlotsOK'
<1> USE DEF PluginInv
<1>1. ASSUME NEW t \in Task, NEW p \in Plugin, Create(t, p) PROVE SlotsOK'
  <2>1. /\ UNCHANGED <<slots, child, hasSlot, mishaps>>
        /\ phase[p] = "new" /\ phase' = [phase EXCEPT ![p] = "made"]
    BY <1>1 DEF Create, Becomes, process, Luck
  <2>2. /\ stage'[t] = "slot" /\ on'[t] = p
        /\ \A u \in Task \ {t} : stage'[u] = stage[u] /\ on'[u] = on[u]
    BY <1>1 DEF PluginTypeOK, Create, Begin
  <2>3. Slotted'
    <3>1. \A q \in Plugin : phase'[q] = "new" => phase[q] = "new"
      BY <2>1 DEF PluginTypeOK
    <3>2. ~hasSlot[p] /\ child[p] = "none"
      BY <2>1 DEF Slotted
    <3>3. ASSUME NEW u \in Busy'
          PROVE  /\ stage'[u] = "slot" => ~hasSlot'[on'[u]] /\ child'[on'[u]] = "none"
                 /\ stage'[u] = "spawn" => hasSlot'[on'[u]] /\ child'[on'[u]] = "none"
      <4>1. CASE u = t
        BY <2>1, <2>2, <3>2, <4>1
      <4>2. CASE u # t
        <5>1. u \in Busy /\ stage'[u] = stage[u] /\ on'[u] = on[u]
          BY <2>2, <3>3, <4>2 DEF Busy
        <5> QED
          BY <2>1, <5>1 DEF Slotted
      <4> QED
        BY <4>1, <4>2
    <3>4. \A q \in Plugin : phase'[q] = "new" => ~hasSlot'[q] /\ child'[q] = "none"
      BY <2>1, <3>1 DEF Slotted
    <3> QED
      BY <3>3, <3>4 DEF Slotted
  <2> QED
    BY <2>1, <2>3 DEF PluginTypeOK, SlotsOK, SlotsAccounted, ChildHasSlot, NothingLeft, Smooth
<1>2. ASSUME UNCHANGED <<slots, child, hasSlot, phase>>, mishaps' \in {mishaps, mishaps - 1},
             \A u \in Busy' : \/ u \in Busy /\ stage'[u] = stage[u] /\ on'[u] = on[u]
                            \/ stage'[u] \notin {"slot", "spawn"}
      PROVE  SlotsOK'
  <2>1. Smooth' => Smooth
    BY <1>2, PluginAssumption DEF PluginTypeOK, Smooth
  <2>2. Slotted'
    BY <1>2 DEF PluginTypeOK, Slotted, Busy
  <2> QED
    BY <1>2, <2>1, <2>2 DEF PluginTypeOK, SlotsOK, SlotsAccounted, ChildHasSlot, NothingLeft
<1>3. ASSUME NEW t \in Task, NEW p \in Plugin, Use(t, p) PROVE SlotsOK'
  <2>1. /\ UNCHANGED <<slots, child, hasSlot, phase, mishaps>>
        /\ \A u \in Busy' : u \in Busy /\ stage'[u] = stage[u] /\ on'[u] = on[u]
    BY <1>3 DEF PluginTypeOK, Use, Begin, Busy, process, Luck
  <2> QED
    BY <1>2, <2>1
<1>4. ASSUME NEW t \in Task,
             GreetFails(t) \/ Refused(t) \/ Send(t) \/ Reply(t) \/ LongReply(t) \/ GivesUp(t) \/ CloseAnswered(t)
      PROVE  SlotsOK'
  <2>1. UNCHANGED <<slots, child, hasSlot, phase>> /\ mishaps' \in {mishaps, mishaps - 1}
    BY <1>4 DEF GreetFails, Refused, Send, Reply, LongReply, GivesUp, CloseAnswered, process, Luck, Mishap
  <2>2. /\ stage'[t] \notin {"slot", "spawn"} /\ UNCHANGED on
        /\ \A u \in Task \ {t} : stage'[u] = stage[u]
    BY <1>4 DEF PluginTypeOK, GreetFails, Refused, Send, Reply, LongReply, GivesUp, CloseAnswered, Done, Move
  <2> QED
    BY <1>2, <2>1, <2>2 DEF Busy
<1>5. ASSUME NEW t \in Busy, NEW place \in Stage, Move(t, place)
      PROVE  /\ UNCHANGED on /\ stage'[t] = place
             /\ \A u \in Task \ {t} : stage'[u] = stage[u]
  BY <1>5 DEF PluginTypeOK, Move, Busy
<1>6. ASSUME NEW t \in Busy
      PROVE  /\ on[t] \in Plugin /\ phase[on[t]] \in {"made", "ready", "closed"}
             /\ \A s : Becomes(on[t], s) => /\ phase'[on[t]] = s
                                           /\ \A p \in Plugin : p # on[t] => phase'[p] = phase[p]
  BY DEF PluginTypeOK, Placed, Busy, Becomes
<1>7. mishaps \in 0 .. mishaps
  BY PluginAssumption DEF PluginTypeOK
<1>8. ASSUME NEW t \in Task, TakeSlot(t) PROVE SlotsOK'
  <2>1. /\ t \in Busy /\ ~hasSlot[on[t]] /\ child[on[t]] = "none" /\ Move(t, "spawn")
        /\ UNCHANGED <<child, phase, mishaps>>
    BY <1>8 DEF TakeSlot, Busy, Slotted, Luck
  <2>2. SlotsAccounted' /\ slots' \in 0 .. MaxSubprocesses
    BY <1>8, <1>6, <2>1, TakeCounts DEF TakeSlot
  <2>3. hasSlot'[on[t]] /\ \A p \in Plugin : p # on[t] => hasSlot'[p] = hasSlot[p]
    BY <1>6, <1>8, <2>1 DEF PluginTypeOK, TakeSlot
  <2>4. /\ UNCHANGED on /\ stage'[t] = "spawn"
        /\ \A u \in Task \ {t} : stage'[u] = stage[u]
    BY <1>5, <2>1 DEF Stage
  <2> QED
    BY <1>6, <1>7, <2>1, <2>2, <2>3, <2>4, OthersSlots
<1>9. ASSUME NEW t \in Task, Spawn(t) \/ Greeted(t) PROVE SlotsOK'
  <2>1. t \in Busy /\ UNCHANGED <<slots, hasSlot, mishaps>> /\ hasSlot[on[t]]
    BY <1>6, <1>9 DEF Spawn, Greeted, Busy, Slotted, ChildHasSlot, process, Luck
  <2>2. /\ phase'[on[t]] \in {"made", "ready", "closed"}
        /\ \A p \in Plugin : p # on[t] => phase'[p] = phase[p] /\ child'[p] = child[p]
    BY <1>6, <1>9, <2>1 DEF PluginTypeOK, Spawn, Greeted, process
  <2>3. /\ UNCHANGED on /\ stage'[t] \in {"greet", "out"}
        /\ \A u \in Task \ {t} : stage'[u] = stage[u]
    BY <1>5, <1>9, <2>1 DEF Spawn, Greeted, Done, Stage
  <2>4. SlotsAccounted' /\ slots' \in 0 .. MaxSubprocesses
    BY <2>1 DEF SlotsAccounted, PluginTypeOK
  <2> QED
    BY <1>7, <2>1, <2>2, <2>3, <2>4, OthersSlots
<1>10. ASSUME NEW t \in Task, SpawnFails(t) \/ Killed(t) \/ Undone(t) PROVE SlotsOK'
  <2>1. t \in Busy /\ UNCHANGED mishaps /\ ReleaseSlot(on[t])
    BY <1>10 DEF SpawnFails, Killed, Undone, Busy, Luck
  <2>2. /\ SlotsAccounted' /\ slots' \in 0 .. MaxSubprocesses /\ ~hasSlot'[on[t]]
        /\ \A p \in Plugin : p # on[t] => hasSlot'[p] = hasSlot[p]
    BY <1>6, <2>1, ReleaseCounts
  <2>3. child'[on[t]] = "none" /\ \A p \in Plugin : p # on[t] => child'[p] = child[p]
    BY <1>6, <1>10, <2>1 DEF PluginTypeOK, Slotted, SpawnFails, Killed, Undone, Reaped
  <2>4. UNCHANGED phase \/ \E s \in {"lost", "closed", phase[on[t]]} : Becomes(on[t], s)
    BY <1>10 DEF SpawnFails, Killed, Undone
  <2>5. /\ phase'[on[t]] # "new"
        /\ \A p \in Plugin : p # on[t] => phase'[p] = phase[p]
    BY <1>6, <2>1, <2>4
  <2>6. /\ UNCHANGED on /\ stage'[t] \in {"slot", "out"}
        /\ \A u \in Task \ {t} : stage'[u] = stage[u]
    BY <1>5, <1>10, <2>1 DEF SpawnFails, Killed, Undone, Done, Stage
  <2> QED
    BY <1>7, <2>1, <2>2, <2>3, <2>5, <2>6, OthersSlots
<1>11. ASSUME NEW t \in Task, CutOff(t) PROVE SlotsOK'
  <2>1. /\ UNCHANGED <<slots, hasSlot>> /\ Done(t) /\ stage[t] # "out"
        /\ mishaps > 0 /\ mishaps' = mishaps - 1
    BY <1>11 DEF CutOff, Mishap
  <2>2. /\ \A p \in Plugin : child'[p] = "none" <=> child[p] = "none"
        /\ \A p \in Plugin : p # on[t] => child'[p] = child[p]
        /\ stage[t] = "lock" => UNCHANGED child
    BY <1>11 DEF PluginTypeOK, CutOff
  <2>3. CASE t \in Busy
    <3>1. /\ phase'[on[t]] # "new"
          /\ \A p \in Plugin : p # on[t] => phase'[p] = phase[p]
      <4>1. UNCHANGED phase \/ Becomes(on[t], "lost")
        BY <1>11 DEF CutOff
      <4> QED
        BY <1>6, <2>3, <4>1
    <3>2. /\ UNCHANGED on /\ stage'[t] = "out"
          /\ \A u \in Task \ {t} : stage'[u] = stage[u]
      BY <1>5, <2>1, <2>3 DEF Done, Stage
    <3>3. SlotsAccounted' /\ slots' \in 0 .. MaxSubprocesses /\ ~Smooth' /\ mishaps' \in 0 .. mishaps
      BY <2>1, PluginAssumption DEF SlotsAccounted, PluginTypeOK, Smooth
    <3>4. child'[on[t]] # "none" => hasSlot'[on[t]]
      BY <1>6, <2>1, <2>2, <2>3 DEF ChildHasSlot
    <3> QED
      BY <2>1, <2>2, <2>3, <3>1, <3>2, <3>3, <3>4, OthersSlots
  <2>4. CASE stage[t] = "lock"
    <3>1. UNCHANGED <<child, phase>>
      BY <1>11, <2>2, <2>4 DEF Placed, CutOff
    <3>2. \A u \in Busy' : u \in Busy /\ stage'[u] = stage[u] /\ on'[u] = on[u]
      BY <2>1 DEF PluginTypeOK, Busy, Done, Move
    <3> QED
      BY <1>2, <2>1, <3>1, <3>2
  <2> QED
    BY <2>1, <2>3, <2>4 DEF Busy
<1>12. ASSUME NEW p \in Plugin, Answer(p) PROVE SlotsOK'
  BY <1>2, <1>12 DEF Answer, process, places, Luck, Busy
<1>13. ASSUME NEW p \in Plugin, ChildDies(p) PROVE SlotsOK'
  <2>1. /\ UNCHANGED <<slots, hasSlot, phase, stage, on, mishaps>>
        /\ child[p] = "up" /\ \A q \in Plugin : child'[q] = "none" <=> child[q] = "none"
    BY <1>13 DEF PluginTypeOK, ChildDies, places, Luck
  <2>2. Slotted'
    BY <2>1 DEF PluginTypeOK, Slotted, Busy
  <2> QED
    BY <2>1, <2>2 DEF PluginTypeOK, SlotsOK, SlotsAccounted, ChildHasSlot, NothingLeft, Smooth
<1> QED
  BY <1>1, <1>3, <1>4, <1>8, <1>9, <1>10, <1>11, <1>12, <1>13 DEF PluginNext, TaskStep

-----------------------------------------------------------------------------
(* Messages                                                                  *)

Waited == {"reply", "kill", "undo"}
Piped(p) == \/ Empty(p)
            \/ inbox[p] = <<"mine">> /\ outbox[p] = <<>>
            \/ inbox[p] = <<>> /\ outbox[p] = <<"mine">>

\* Of a pipe with nothing in it nothing is late.
LEMMA NothingLate == Late(<<>>) = <<>> /\ Tail(<<"mine">>) = <<>> /\ Head(<<"mine">>) = "mine"
BY DEF Late

\* A run that is smooth now was smooth before.
LEMMA SmoothBefore ==
  ASSUME PluginTypeOK, mishaps' \in {mishaps, mishaps - 1}
  PROVE  mishaps' = mishaps \/ ~Smooth'
BY PluginAssumption DEF PluginTypeOK, Smooth

\* A step that leaves the pipes of the other plugins alone
LEMMA OthersPipes ==
  ASSUME PluginInv, NEW p \in Plugin, UNCHANGED <<mishaps, crossed>>,
         \A q \in Plugin : q # p => inbox'[q] = inbox[q] /\ outbox'[q] = outbox[q],
         \A u \in Task : stage[u] \in Waited /\ on[u] # p => stage'[u] \in Waited /\ on'[u] = on[u],
         Smooth => Piped(p)' /\ (Quiet(p)' => Empty(p)')
  PROVE  (OneMessage /\ OwnReply)'
<1>1. \A q \in Plugin : q # p /\ Quiet(q)' => Quiet(q)
  BY DEF Quiet, Waited
<1>2. Smooth' <=> Smooth
  BY DEF Smooth
<1>3. ASSUME NEW q \in Plugin, q # p, Smooth PROVE Piped(q)' /\ (Quiet(q)' => Empty(q)')
  BY <1>1, <1>3 DEF PluginInv, OneMessage, Piped, Empty
<1> QED
  BY <1>2, <1>3 DEF PluginInv, OneMessage, OwnReply, Piped

\* A step that touches no pipe, and takes nobody's wait away, changes nothing of the messages.
LEMMA SamePipes ==
  ASSUME PluginInv, UNCHANGED <<inbox, outbox, mishaps, crossed>>,
         \A u \in Task : stage[u] \in Waited => stage'[u] \in Waited /\ on'[u] = on[u]
  PROVE  (OneMessage /\ OwnReply)'
<1>1. \A q \in Plugin : Quiet(q)' => Quiet(q)
  BY DEF Quiet, Waited
<1> QED
  BY <1>1 DEF PluginInv, OneMessage, OwnReply, Smooth, Empty

\* No step gives a call a reply that is not its own.
LEMMA MessagesKept ==
  ASSUME PluginInv, PluginNext
  PROVE  (OneMessage /\ OwnReply)'
<1> USE DEF PluginInv
<1>1. ASSUME NEW t \in Task, NEW p \in Plugin, Create(t, p) \/ Use(t, p) PROVE (OneMessage /\ OwnReply)'
  <2>1. UNCHANGED <<inbox, outbox, mishaps, crossed>>
    BY <1>1 DEF Create, Use, pipes, Luck
  <2>2. \A u \in Task : stage[u] \in Waited => stage'[u] \in Waited /\ on'[u] = on[u]
    BY <1>1 DEF PluginTypeOK, Create, Use, Begin, Waited
  <2> QED
    BY <2>1, <2>2, SamePipes
<1>2. ASSUME NEW t \in Task,
             TakeSlot(t) \/ Spawn(t) \/ Greeted(t) \/ SpawnFails(t) \/ GreetFails(t) \/ Refused(t)
               \/ GivesUp(t) \/ CloseAnswered(t)
      PROVE  (OneMessage /\ OwnReply)'
  <2>1. UNCHANGED <<inbox, outbox, mishaps, crossed, on>>
    BY <1>2 DEF TakeSlot, Spawn, Greeted, SpawnFails, GreetFails, Refused, GivesUp, CloseAnswered,
                Done, Move, pipes, Luck
  <2>2. \A u \in Task : stage[u] \in Waited => stage'[u] \in Waited
    BY <1>2 DEF PluginTypeOK, TakeSlot, Spawn, Greeted, SpawnFails, GreetFails, Refused, GivesUp,
                CloseAnswered, Holding, Done, Move, Waited
  <2> QED
    BY <2>1, <2>2, SamePipes
<1>3. ASSUME NEW t \in Task, Send(t) PROVE (OneMessage /\ OwnReply)'
  <2>1. on[t] \in Plugin /\ op[t] # "create" /\ phase[on[t]] \in {"ready", "closed"} /\ lock[on[t]] = Nobody
    BY <1>3 DEF PluginTypeOK, Placed, Send
  <2>2. \A u \in Busy : on[u] # on[t]
    BY <2>1, PluginAssumption DEF Placed, Busy
  <2>3. Quiet(on[t])
    BY <2>2 DEF Busy, Quiet
  <2>4. /\ UNCHANGED <<outbox, mishaps, crossed, on>> /\ stage'[t] = "reply"
        /\ \A u \in Task : stage[u] \in Waited => stage'[u] \in Waited
        /\ \A q \in Plugin : q # on[t] => inbox'[q] = inbox[q]
        /\ inbox'[on[t]] \in {inbox[on[t]], Append(inbox[on[t]], "mine")}
    BY <1>3, <2>1 DEF PluginTypeOK, Send, Move, Luck, Waited
  <2>5. ~Quiet(on[t])'
    BY <2>4 DEF Quiet
  <2>6. Smooth => Piped(on[t])'
    <3>1. Append(<<>>, "mine") = <<"mine">>
      OBVIOUS
    <3> QED
      BY <2>1, <2>3, <2>4, <3>1 DEF OneMessage, Empty, Piped
  <2> QED
    BY <2>1, <2>4, <2>5, <2>6, OthersPipes
<1>4. ASSUME NEW t \in Task, Reply(t) PROVE (OneMessage /\ OwnReply)'
  <2>1. /\ on[t] \in Plugin /\ outbox[on[t]] # <<>>
        /\ UNCHANGED <<mishaps, on>> /\ crossed' = (crossed \/ Head(outbox[on[t]]) = "late")
        /\ inbox' = [inbox EXCEPT ![on[t]] = Late(@)]
        /\ outbox' = [outbox EXCEPT ![on[t]] = Late(Tail(@))]
        /\ \A u \in Task : u # t => stage'[u] = stage[u]
    BY <1>4 DEF PluginTypeOK, Reply, Done, Move
  <2>2. CASE ~Smooth
    BY <2>1, <2>2 DEF OneMessage, OwnReply, Smooth
  <2>3. CASE Smooth
    <3>1. inbox[on[t]] = <<>> /\ outbox[on[t]] = <<"mine">>
      BY <2>1, <2>3 DEF OneMessage, Empty
    <3>2. Empty(on[t])' /\ UNCHANGED crossed
      BY <2>1, <2>3, <3>1, NothingLate DEF PluginTypeOK, OwnReply, Empty
    <3>3. /\ \A q \in Plugin : q # on[t] => inbox'[q] = inbox[q] /\ outbox'[q] = outbox[q]
          /\ \A u \in Task : stage[u] \in Waited /\ on[u] # on[t] => stage'[u] \in Waited /\ on'[u] = on[u]
      BY <2>1 DEF PluginTypeOK
    <3> QED
      BY <2>1, <3>2, <3>3, OthersPipes DEF Piped
  <2> QED
    BY <2>2, <2>3
<1>5. ASSUME NEW t \in Task, Killed(t) \/ Undone(t) PROVE (OneMessage /\ OwnReply)'
  <2>1. /\ on[t] \in Plugin /\ Reaped(on[t]) /\ UNCHANGED <<mishaps, crossed, on>>
        /\ \A u \in Task : u # t => stage'[u] = stage[u]
    BY <1>5 DEF PluginTypeOK, Killed, Undone, Done, Move, Luck
  <2>2. /\ Empty(on[t])'
        /\ \A q \in Plugin : q # on[t] => inbox'[q] = inbox[q] /\ outbox'[q] = outbox[q]
    BY <2>1 DEF PluginTypeOK, Reaped, Empty
  <2> QED
    BY <2>1, <2>2, OthersPipes DEF Piped
<1>6. ASSUME NEW t \in Task, LongReply(t) \/ CutOff(t) PROVE (OneMessage /\ OwnReply)'
  <2>1. mishaps > 0 /\ mishaps' = mishaps - 1
    BY <1>6 DEF LongReply, CutOff, Mishap
  <2>2. ~Smooth'
    BY <2>1, PluginAssumption DEF PluginTypeOK, Smooth
  <2> QED
    BY <2>2 DEF OneMessage, OwnReply
<1>7. ASSUME NEW p \in Plugin, Answer(p) PROVE (OneMessage /\ OwnReply)'
  <2>1. /\ UNCHANGED <<mishaps, crossed, stage, on>> /\ inbox[p] # <<>>
        /\ outbox' = [outbox EXCEPT ![p] = Append(@, Head(inbox[p]))]
        /\ inbox' \in {[inbox EXCEPT ![p] = Tail(@)], [inbox EXCEPT ![p] = <<>>]}
    BY <1>7 DEF Answer, places, Luck
  <2>2. ASSUME Smooth PROVE inbox'[p] = <<>> /\ outbox'[p] = <<"mine">> /\ ~Quiet(p)
    <3>1. inbox[p] = <<"mine">> /\ outbox[p] = <<>> /\ ~Quiet(p)
      BY <2>1, <2>2 DEF OneMessage, Empty
    <3>2. Append(<<>>, "mine") = <<"mine">>
      OBVIOUS
    <3> QED
      BY <2>1, <3>1, <3>2, NothingLate DEF PluginTypeOK
  <2>3. Quiet(p)' <=> Quiet(p)
    BY <2>1 DEF Quiet
  <2>4. \A q \in Plugin : q # p => inbox'[q] = inbox[q] /\ outbox'[q] = outbox[q]
    BY <2>1 DEF PluginTypeOK
  <2> QED
    BY <2>1, <2>2, <2>3, <2>4, OthersPipes DEF Piped
<1>8. ASSUME NEW p \in Plugin, ChildDies(p) PROVE (OneMessage /\ OwnReply)'
  <2>1. /\ UNCHANGED <<outbox, mishaps, crossed, stage, on>>
        /\ inbox'[p] = <<>> /\ \A q \in Plugin : q # p => inbox'[q] = inbox[q]
    BY <1>8 DEF PluginTypeOK, ChildDies, places, Luck
  <2>2. Quiet(p)' <=> Quiet(p)
    BY <2>1 DEF Quiet
  <2>3. Smooth => Piped(p)' /\ (Quiet(p)' => Empty(p)')
    BY <2>1, <2>2 DEF OneMessage, Piped, Empty
  <2> QED
    BY <2>1, <2>3, OthersPipes
<1> QED
  BY <1>1, <1>2, <1>3, <1>4, <1>5, <1>6, <1>7, <1>8 DEF PluginNext, TaskStep

-----------------------------------------------------------------------------
(* The invariant                                                             *)

\* The count of mishaps stays in its range.
LEMMA LuckTyped ==
  ASSUME PluginTypeOK, PluginNext
  PROVE  mishaps' \in 0 .. MaxMishaps /\ crossed' \in BOOLEAN
<1>1. mishaps' \in {mishaps, mishaps - 1} /\ (mishaps' = mishaps \/ mishaps > 0)
  <2>1. ASSUME NEW t \in Task, TaskStep(t) PROVE UNCHANGED mishaps
    BY <2>1 DEF TaskStep, TakeSlot, Spawn, Greeted, SpawnFails, GreetFails, Refused, Send, Reply,
                GivesUp, CloseAnswered, Killed, Undone, Luck
  <2> QED
    BY <2>1 DEF PluginNext, Create, Use, LongReply, CutOff, Answer, ChildDies, Luck, Mishap
<1>2. crossed' \in BOOLEAN
  <2>1. ASSUME NEW t \in Task, TaskStep(t) PROVE crossed' \in BOOLEAN
    BY <2>1, Zenon DEF PluginTypeOK, TaskStep, TakeSlot, Spawn, Greeted, SpawnFails, GreetFails,
                Refused, Send, Reply, GivesUp, CloseAnswered, Killed, Undone, Luck
  <2> QED
    BY <2>1 DEF PluginTypeOK, PluginNext, Create, Use, LongReply, CutOff, Answer, ChildDies, Luck, Mishap
<1> QED
  BY <1>1, <1>2, PluginAssumption DEF PluginTypeOK

\* The invariant holds at the start,
LEMMA InitInv ==
  ASSUME PluginInit
  PROVE  PluginInv
<1>1. (CHOOSE p \in Plugin : TRUE) \in Plugin
  BY PluginAssumption
<1>2. PluginTypeOK
  <2>1. on \in [Task -> Plugin]
    BY <1>1 DEF PluginInit
  <2>2. inbox \in [Plugin -> Line] /\ outbox \in [Plugin -> Line]
    BY LineFacts DEF PluginInit
  <2>3. slots \in 0 .. MaxSubprocesses /\ mishaps \in 0 .. MaxMishaps
    BY PluginAssumption DEF PluginInit
  <2>4. crashes \in [Plugin -> 0 .. MaxCrashRestarts + 1]
    BY PluginAssumption DEF PluginInit
  <2> QED
    BY <2>1, <2>2, <2>3, <2>4 DEF PluginInit, PluginTypeOK, Stage, Line
<1>3. Busy = {} /\ \A t \in Task : stage[t] = "out"
  BY DEF PluginInit, Busy
<1>4. SlotsAccounted
  <2>1. {p \in Plugin : hasSlot[p]} = {}
    BY DEF PluginInit
  <2>2. slots = MaxSubprocesses /\ MaxSubprocesses + 0 = MaxSubprocesses
    BY PluginAssumption DEF PluginInit
  <2> QED
    BY <2>1, <2>2, FS_EmptySet DEF SlotsAccounted
<1>5. Slotted /\ ChildHasSlot /\ NothingLeft
  BY <1>3 DEF PluginInit, Slotted, ChildHasSlot, NothingLeft
<1>6. OneMessage /\ OwnReply
  BY DEF PluginInit, OneMessage, Empty, OwnReply
<1> QED
  BY <1>2, <1>3, <1>4, <1>5, <1>6 DEF PluginInv, Placed, Alone, LivesLeft

\* every step keeps it,
LEMMA InvKept ==
  ASSUME PluginInv, [PluginNext]_plugins
  PROVE  PluginInv'
<1>1. CASE PluginNext
  <2>1. PluginTypeOK'
    BY <1>1, ControlTyped, PipesTyped, ChildrenTyped, PhaseTyped, CountKept, SlotsKept, LuckTyped
       DEF PluginInv, PluginTypeOK, Counted, SlotsOK, Fits, Line
  <2> QED
    BY <1>1, <2>1, TurnsKept, CountKept, SlotsKept, MessagesKept DEF PluginInv, Counted, SlotsOK
<1>2. CASE UNCHANGED plugins
  BY <1>2 DEF plugins, process, record, pipes, places, PluginInv, PluginTypeOK, Placed, Alone, Slotted,
              LivesLeft, SlotsAccounted, ChildHasSlot, NothingLeft, OneMessage, OwnReply, Busy, Smooth,
              Quiet, Empty
<1> QED
  BY <1>1, <1>2

\* and so it holds for ever.
LEMMA PluginInvHolds == PluginSpec => []PluginInv
BY InitInv, InvKept, PTL DEF PluginSpec

\* The variables of the plugin processes keep their types.
THEOREM PluginTypesHold == PluginSpec => []PluginTypeOK
BY PluginInvHolds, PTL DEF PluginInv

\* The semaphore and the flags of the plugins always add up to MAX_SUBPROCESSES.
THEOREM SlotsBalance == PluginSpec => []SlotsAccounted
BY PluginInvHolds, PTL DEF PluginInv

\* Every child has a slot, so there are at most MAX_SUBPROCESSES of them.
THEOREM EveryChildHasSlot == PluginSpec => []ChildHasSlot
BY PluginInvHolds, PTL DEF PluginInv

\* Without a mishap, every call gets the reply to its own message.
THEOREM OwnReplies == PluginSpec => []OwnReply
BY PluginInvHolds, PTL DEF PluginInv

\* Without a mishap, a create that fails leaves no child and no slot behind.
THEOREM FailedCreateClean == PluginSpec => []NothingLeft
BY PluginInvHolds, PTL DEF PluginInv

\* The limit on children holds and no slot leaks, whatever crashes or is cancelled.
THEOREM SlotsAlwaysHeld == PluginSpec => []SlotsHeld
BY PluginInvHolds, PTL DEF PluginInv, SlotsHeld


-----------------------------------------------------------------------------
(* The state file of the plugins                                             *)

\* Whoever makes a change has the lock, and what it is about to write has all changes
\* made before and its own.
WriterKnows ==
  /\ \A p \in Process : want[p] # {} => flock = p
  /\ \A p \in Process : does[p] \in {"copy", "save"} => want[p] # {} /\ want[p] \subseteq holds[p]
  /\ ~astray /\ ~gone =>
       \A p \in Process : want[p] # {} /\ does[p] \in {"rescue", "copy", "save"} => returned \subseteq holds[p]

StateInv == StateTypeOK /\ WriterKnows /\ ReturnedIsSeen

\* What is no damage is a set of changes.
LEMMA WholeFiles ==
  ASSUME StateTypeOK
  PROVE  /\ Rescue \subseteq Change /\ Seen \subseteq Change
         /\ \A S \in SUBSET Change : S # Damaged
<1>1. \A S \in SUBSET Change : S # Damaged
  BY StateAssumption
<1> QED BY <1>1 DEF StateTypeOK, Rescue, Seen

\* There is no file, and nothing has returned.
LEMMA StateStarts == StateInit => StateInv
<1> SUFFICES ASSUME StateInit PROVE StateInv
  OBVIOUS
<1>1. StateTypeOK
  <2>1. MaxMishap \in 0 .. MaxMishap
    BY StateAssumption
  <2> QED BY <2>1 DEF StateInit, StateTypeOK
<1>2. WriterKnows /\ ReturnedIsSeen
  BY DEF StateInit, WriterKnows, ReturnedIsSeen
<1> QED BY <1>1, <1>2 DEF StateInv

\* Every process at every point, a crash, an error of the disk and a damaged file keep
\* what has returned.
LEMMA StateStepKeeps == StateInv /\ [StateNext]_state => StateInv'
<1> SUFFICES ASSUME StateInv, [StateNext]_state PROVE StateInv'
  OBVIOUS
<1>t. /\ main = Damaged \/ main \subseteq Change
      /\ bak = Damaged \/ bak \subseteq Change
      /\ flock \in Process \cup {NoProcess}
      /\ does \in [Process -> {"idle", "load", "rescue", "copy", "save"}]
      /\ holds \in [Process -> SUBSET Change] /\ want \in [Process -> SUBSET Change]
      /\ faults \in 0 .. MaxMishap /\ returned \subseteq Change /\ failed \subseteq Change
      /\ astray \in BOOLEAN /\ gone \in BOOLEAN
  BY DEF StateInv, StateTypeOK
<1>a. /\ NoProcess \notin Process /\ MaxMishap \in Nat
      /\ \A S \in SUBSET Change : S # Damaged
      /\ Rescue \subseteq Change /\ Seen \subseteq Change
  BY StateAssumption, WholeFiles DEF StateInv
<1>w. /\ \A p \in Process : want[p] # {} => flock = p
      /\ \A p \in Process : does[p] \in {"copy", "save"} => want[p] # {} /\ want[p] \subseteq holds[p]
      /\ ~astray /\ ~gone =>
           \A p \in Process : want[p] # {} /\ does[p] \in {"rescue", "copy", "save"} => returned \subseteq holds[p]
  BY DEF StateInv, WriterKnows
<1>r. ~astray /\ ~gone => returned \subseteq Seen
  BY DEF StateInv, ReturnedIsSeen
<1>m. Fault => faults' \in 0 .. MaxMishap
  BY <1>t, <1>a DEF Fault
<1>1. ASSUME NEW p \in Process, LoadState(p) PROVE StateInv'
  <2>m. /\ does' = [does EXCEPT ![p] = "load"] /\ want' = [want EXCEPT ![p] = {}]
        /\ UNCHANGED <<main, bak, flock, holds, faults, returned, failed, astray, gone>>
    BY <1>1 DEF LoadState, GoesTo, files, history
  <2>1. StateTypeOK'
    BY <1>t, <2>m DEF StateTypeOK
  <2>2. WriterKnows'
    BY <1>t, <1>w, <2>m DEF WriterKnows
  <2>3. ReturnedIsSeen'
    BY <1>r, <2>m DEF ReturnedIsSeen, Seen, Rescue
  <2> QED BY <2>1, <2>2, <2>3 DEF StateInv
<1>2. ASSUME NEW p \in Process, NEW u \in Change, Modify(p, u) PROVE StateInv'
  <2>m. /\ flock = NoProcess /\ flock' = p /\ does' = [does EXCEPT ![p] = "load"] /\ want' = [want EXCEPT ![p] = {u}]
        /\ UNCHANGED <<main, bak, holds, faults, returned, failed, astray, gone>>
    BY <1>2 DEF Modify, GoesTo, files, history
  <2>1. StateTypeOK'
    BY <1>t, <2>m DEF StateTypeOK
  <2>2. WriterKnows'
    BY <1>t, <1>a, <1>w, <2>m DEF WriterKnows
  <2>3. ReturnedIsSeen'
    BY <1>r, <2>m DEF ReturnedIsSeen, Seen, Rescue
  <2> QED BY <2>1, <2>2, <2>3 DEF StateInv
<1>3. ASSUME NEW p \in Process, ReadFile(p) PROVE StateInv'
  <2>m. /\ does[p] = "load" /\ UNCHANGED <<main, bak, flock, want, faults, returned, failed, astray, gone>>
    BY <1>3 DEF ReadFile, files, history
  <2>s. Seen' = Seen
    BY <2>m DEF Seen, Rescue
  <2>h. \/ main # Damaged /\ want[p] = {} /\ holds' = [holds EXCEPT ![p] = {}] /\ does' = [does EXCEPT ![p] = "idle"]
        \/ main # Damaged /\ want[p] # {} /\ holds' = [holds EXCEPT ![p] = main \cup want[p]] /\ does' = [does EXCEPT ![p] = "copy"]
        \/ main = Damaged /\ holds' = [holds EXCEPT ![p] = Rescue] /\ does' = [does EXCEPT ![p] = "rescue"]
    BY <1>3 DEF ReadFile, AfterLoad, GoesTo
  <2>1. StateTypeOK'
    BY <1>t, <1>a, <2>m, <2>h DEF StateTypeOK
  <2>2. WriterKnows'
    <3>1. main # Damaged => Seen = main
      BY DEF Seen
    <3>2. main = Damaged => Seen = Rescue
      BY DEF Seen
    <3> QED BY <1>t, <1>w, <1>r, <2>m, <2>h, <3>1, <3>2 DEF WriterKnows
  <2>3. ReturnedIsSeen'
    BY <1>r, <2>m, <2>s DEF ReturnedIsSeen
  <2> QED BY <2>1, <2>2, <2>3 DEF StateInv
<1>4. ASSUME NEW p \in Process, WriteBack(p) PROVE StateInv'
  <2>m. does[p] = "rescue" /\ UNCHANGED <<bak, flock, want, returned, failed, gone>>
    BY <1>4 DEF WriteBack
  <2>h. \/ want[p] = {} /\ holds' = [holds EXCEPT ![p] = {}] /\ does' = [does EXCEPT ![p] = "idle"]
        \/ want[p] # {} /\ holds' = [holds EXCEPT ![p] = holds[p] \cup want[p]] /\ does' = [does EXCEPT ![p] = "copy"]
    BY <1>4 DEF WriteBack, AfterLoad, GoesTo
  <2>w. \/ main' = holds[p] /\ faults' = faults /\ astray' = (astray \/ holds[p] # Seen)
        \/ faults' \in 0 .. MaxMishap /\ main' = main /\ astray' = astray
    BY <1>4, <1>m DEF WriteBack
  <2>s. ~astray' => ~astray /\ Seen' = Seen
    <3>1. CASE main' = holds[p] /\ astray' = (astray \/ holds[p] # Seen)
      <4>1. holds[p] # Damaged
        BY <1>t, <1>a
      <4>2. Seen' = holds[p]
        BY <3>1, <4>1 DEF Seen
      <4> QED BY <1>t, <3>1, <4>2
    <3>2. CASE main' = main /\ astray' = astray
      BY <2>m, <3>2 DEF Seen, Rescue
    <3> QED BY <2>w, <3>1, <3>2
  <2>1. StateTypeOK'
    BY <1>t, <1>a, <2>m, <2>h, <2>w DEF StateTypeOK
  <2>2. WriterKnows'
    BY <1>t, <1>w, <2>m, <2>h, <2>s DEF WriterKnows
  <2>3. ReturnedIsSeen'
    BY <1>r, <2>m, <2>s DEF ReturnedIsSeen
  <2> QED BY <2>1, <2>2, <2>3 DEF StateInv
<1>5. ASSUME NEW p \in Process, SaveCopy(p) PROVE StateInv'
  <2>m. /\ does[p] = "copy" /\ does' = [does EXCEPT ![p] = "save"]
        /\ UNCHANGED <<main, flock, holds, want, returned, failed, astray, gone>>
    BY <1>5 DEF SaveCopy, GoesTo, history
  <2>b. \/ bak' = holds[p] /\ faults' = faults
        \/ bak' = bak /\ faults' \in 0 .. MaxMishap
    BY <1>5, <1>m DEF SaveCopy
  <2>1. StateTypeOK'
    BY <1>t, <2>m, <2>b DEF StateTypeOK
  <2>2. WriterKnows'
    BY <1>t, <1>w, <2>m DEF WriterKnows
  <2>3. ReturnedIsSeen'
    <3>1. CASE bak' = bak
      BY <1>r, <2>m, <3>1 DEF ReturnedIsSeen, Seen, Rescue
    <3>2. CASE bak' = holds[p]
      <4>1. holds[p] # Damaged
        BY <1>t, <1>a
      <4>2. Seen' = Seen \/ Seen' = holds[p]
        BY <2>m, <3>2, <4>1 DEF Seen, Rescue
      <4>3. ~astray /\ ~gone => returned \subseteq holds[p]
        BY <1>w, <2>m
      <4> QED BY <1>r, <2>m, <4>2, <4>3 DEF ReturnedIsSeen
    <3> QED BY <2>b, <3>1, <3>2
  <2> QED BY <2>1, <2>2, <2>3 DEF StateInv
<1>6. ASSUME NEW p \in Process, SaveMain(p) PROVE StateInv'
  <2>m. /\ does[p] = "save" /\ does' = [does EXCEPT ![p] = "idle"] /\ flock' = NoProcess
        /\ holds' = [holds EXCEPT ![p] = {}] /\ want' = [want EXCEPT ![p] = {}]
        /\ UNCHANGED <<bak, astray, gone>>
    BY <1>6 DEF SaveMain, EndModify, GoesTo
  <2>e. \/ main' = holds[p] /\ returned' = returned \cup want[p] /\ failed' = failed /\ faults' = faults
        \/ main' = main /\ returned' = returned /\ failed' = failed \cup want[p] /\ faults' \in 0 .. MaxMishap
    BY <1>6, <1>m DEF SaveMain, EndModify
  <2>o. flock = p /\ \A q \in Process : q # p => want[q] = {}
    BY <1>w, <2>m
  <2>1. StateTypeOK'
    BY <1>t, <2>m, <2>e DEF StateTypeOK
  <2>2. WriterKnows'
    <3>1. \A q \in Process : want'[q] = {}
      BY <1>t, <2>m, <2>o
    <3>2. \A q \in Process : does'[q] \notin {"copy", "save"}
      BY <1>t, <1>w, <2>m, <2>o
    <3> QED BY <3>1, <3>2 DEF WriterKnows
  <2>3. ReturnedIsSeen'
    <3>1. CASE main' = main /\ returned' = returned
      BY <1>r, <2>m, <3>1 DEF ReturnedIsSeen, Seen, Rescue
    <3>2. CASE main' = holds[p] /\ returned' = returned \cup want[p]
      <4>1. holds[p] # Damaged
        BY <1>t, <1>a
      <4>2. Seen' = holds[p]
        BY <3>2, <4>1 DEF Seen
      <4>3. want[p] \subseteq holds[p] /\ (~astray /\ ~gone => returned \subseteq holds[p])
        BY <1>w, <2>m
      <4> QED BY <2>m, <3>2, <4>2, <4>3 DEF ReturnedIsSeen
    <3> QED BY <2>e, <3>1, <3>2
  <2> QED BY <2>1, <2>2, <2>3 DEF StateInv
<1>7. ASSUME NEW p \in Process, Crash1(p) PROVE StateInv'
  <2>m. /\ does' = [does EXCEPT ![p] = "idle"] /\ flock' = (IF flock = p THEN NoProcess ELSE flock)
        /\ holds' = [holds EXCEPT ![p] = {}] /\ want' = [want EXCEPT ![p] = {}]
        /\ failed' = failed \cup want[p] /\ faults' \in 0 .. MaxMishap
        /\ UNCHANGED <<main, bak, returned, astray, gone>>
    BY <1>7, <1>m DEF Crash1, GoesTo, files
  <2>1. StateTypeOK'
    BY <1>t, <2>m DEF StateTypeOK
  <2>2. WriterKnows'
    BY <1>t, <1>w, <2>m DEF WriterKnows
  <2>3. ReturnedIsSeen'
    BY <1>r, <2>m DEF ReturnedIsSeen, Seen, Rescue
  <2> QED BY <2>1, <2>2, <2>3 DEF StateInv
<1>8. ASSUME Damage PROVE StateInv'
  <2>m. /\ UNCHANGED <<flock, does, holds, want, returned, failed, astray>> /\ faults' \in 0 .. MaxMishap
        /\ gone' = (gone \/ ~\E f \in {main', bak'} : f # Damaged /\ returned \subseteq f)
    BY <1>8, <1>m DEF Damage, procs
  <2>d. \/ main' = Damaged /\ bak' = bak
        \/ bak' = Damaged /\ main' = main
    BY <1>8 DEF Damage
  <2>1. StateTypeOK'
    BY <1>t, <2>m, <2>d DEF StateTypeOK
  <2>2. WriterKnows'
    BY <1>t, <1>w, <2>m DEF WriterKnows
  <2>3. ReturnedIsSeen'
    <3> SUFFICES ASSUME ~astray', ~gone' PROVE returned \subseteq Seen'
      BY <2>m DEF ReturnedIsSeen
    <3>1. ~astray /\ ~gone
      BY <1>t, <2>m
    <3>2. PICK f \in {main', bak'} : f # Damaged /\ returned \subseteq f
      BY <2>m
    <3>3. CASE main' = Damaged /\ bak' = bak
      BY <3>2, <3>3 DEF Seen, Rescue
    <3>4. CASE bak' = Damaged /\ main' = main
      BY <1>r, <3>1, <3>2, <3>4 DEF Seen, Rescue
    <3> QED BY <2>d, <3>3, <3>4
  <2> QED BY <2>1, <2>2, <2>3 DEF StateInv
<1>9. ASSUME UNCHANGED state PROVE StateInv'
  <2>1. UNCHANGED <<main, bak, flock, does, holds, want, faults, returned, failed, astray, gone>>
    BY <1>9 DEF state, files, procs, history
  <2> QED BY <2>1 DEF StateInv, StateTypeOK, WriterKnows, ReturnedIsSeen, Seen, Rescue
<1> QED BY <1>1, <1>2, <1>3, <1>4, <1>5, <1>6, <1>7, <1>8, <1>9 DEF StateNext, StateStep

\* A change whose call returned is seen by the next load, over any number of processes,
\* crashes, failed writes and damages.
THEOREM ChangesAreSeen == StateSpec => []ReturnedIsSeen
<1>1. StateInv => ReturnedIsSeen
  BY DEF StateInv
<1> QED BY <1>1, StateStarts, StateStepKeeps, PTL DEF StateSpec

-----------------------------------------------------------------------------
(* The tables of the registry                                                *)

\* A list without some names has the others, each as often as before.
LEMMA DroppingIs ==
  ASSUME NEW S, NEW s \in Seq(S), NEW names
  PROVE  /\ Dropping(s, names) \in Seq(S) /\ ToSet(Dropping(s, names)) = ToSet(s) \ names
         /\ IsInjective(s) => IsInjective(Dropping(s, names))
<1> DEFINE n == Len(s)
           V == Seq(S)
           F == [k \in 1 .. n |-> [v \in V |-> IF s[k] \in names THEN v ELSE Append(v, s[k])]]
           Step(g, k) == IF k = 0 THEN <<>> ELSE IF s[k] \in names THEN g[k - 1] ELSE Append(g[k - 1], s[k])
           Kept(g) == g = [k \in 0 .. n |-> Step(g, k)]
<1>1. n \in Nat /\ DOMAIN s = 1 .. n /\ \A k \in 1 .. n : s[k] \in S
  BY LenProperties
<1>2. \E g : Kept(g)
  <2>1. F \in [1 .. n -> [V -> V]]
    <3>1. \A k \in 1 .. n, v \in V : Append(v, s[k]) \in V
      BY <1>1, AppendProperties
    <3> HIDE DEF V
    <3> QED BY <3>1
  <2>2. <<>> \in V
    BY EmptySeq
  <2> HIDE DEF V, F, n
  <2>3. PICK g \in [0 .. n -> V] : g[0] = <<>> /\ \A k \in 1 .. n : g[k] = F[k][g[k - 1]]
    <3>1. n \in Nat
      BY <1>1
    <3> DEFINE e == <<>>
    <3>2. e \in V
      BY <2>2
    <3> HIDE DEF e
    <3>3. F \in Steps(n, V)
      BY <2>1 DEF Steps
    <3>4. Walks(n, V, e, F)
      BY <3>1, <3>2, <3>3, Iterated
    <3> QED BY <3>4 DEF Walks, e
  <2>4. ASSUME NEW k \in 0 .. n PROVE g[k] = Step(g, k)
    <3>1. CASE k = 0
      BY <2>3, <3>1
    <3>2. CASE k # 0
      <4>1. k \in 1 .. n /\ g[k - 1] \in V
        BY <1>1, <3>2
      <4> QED BY <2>3, <3>2, <4>1 DEF F
    <3> QED BY <3>1, <3>2
  <2>5. g = [k \in 0 .. n |-> g[k]]
    OBVIOUS
  <2>6. [k \in 0 .. n |-> g[k]] = [k \in 0 .. n |-> Step(g, k)]
    <3> HIDE DEF Step
    <3> QED BY <2>4
  <2>7. Kept(g)
    <3> HIDE DEF Step
    <3> QED BY <2>5, <2>6
  <2> HIDE DEF Kept
  <2> QED BY <2>7
<1> DEFINE f == CHOOSE g : Kept(g)
<1>3. Kept(f)
  BY <1>2
<1>4. Dropping(s, names) = f[n]
  BY DEF Dropping
<1>5. f[0] = <<>> /\ \A k \in 1 .. n : f[k] = IF s[k] \in names THEN f[k - 1] ELSE Append(f[k - 1], s[k])
  <2> DEFINE h == [k \in 0 .. n |-> Step(f, k)]
  <2>1. \A k \in 0 .. n : h[k] = Step(f, k)
    OBVIOUS
  <2>2. f = h
    BY <1>3
  <2> HIDE DEF h, f
  <2>3. \A k \in 0 .. n : f[k] = Step(f, k)
    BY <2>1, <2>2
  <2>4. 0 \in 0 .. n /\ \A k \in 1 .. n : k \in 0 .. n /\ k # 0
    BY <1>1
  <2> QED BY <2>3, <2>4
<1> HIDE DEF f, n, F, V
\* What the list is after k names
<1> DEFINE T == {k \in Nat : /\ f[k] \in Seq(S) /\ ToSet(f[k]) = {s[i] : i \in 1 .. k} \ names
                             /\ IsInjective(s) => IsInjective(f[k])}
<1>6. 0 \in T
  <2>1. f[0] \in Seq(S) /\ Len(f[0]) = 0 /\ DOMAIN f[0] = {}
    BY <1>5, EmptySeq
  <2>2. {s[i] : i \in 1 .. 0} = {}
    OBVIOUS
  <2> QED BY <2>1, <2>2 DEF ToSet, IsInjective
<1>7. ASSUME NEW k \in 0 .. n - 1, k \in T PROVE k + 1 \in T
  <2>1. k + 1 \in 1 .. n /\ (k + 1) - 1 = k /\ k \in Nat /\ s[k + 1] \in S
    BY <1>1
  <2>2. {s[i] : i \in 1 .. k + 1} = {s[i] : i \in 1 .. k} \cup {s[k + 1]}
    <3>1. \A i \in 1 .. k + 1 : i = k + 1 \/ i \in 1 .. k
      BY <2>1
    <3>2. \A i \in 1 .. k : i \in 1 .. k + 1
      BY <2>1
    <3>3. k + 1 \in 1 .. k + 1
      BY <2>1
    <3> QED BY <3>1, <3>2, <3>3
  <2>3. CASE s[k + 1] \in names
    <3>1. f[k + 1] = f[k]
      BY <1>5, <2>1, <2>3
    <3> QED BY <1>7, <2>1, <2>2, <2>3, <3>1
  <2>4. CASE s[k + 1] \notin names
    <3> DEFINE q == f[k]
               m == Len(q)
    <3>1. f[k + 1] = Append(q, s[k + 1])
      BY <1>5, <2>1, <2>4
    <3>2. q \in Seq(S) /\ ToSet(q) = {s[i] : i \in 1 .. k} \ names /\ (IsInjective(s) => IsInjective(q))
      BY <1>7
    <3>3. /\ m \in Nat /\ DOMAIN q = 1 .. m /\ f[k + 1] \in Seq(S) /\ DOMAIN f[k + 1] = 1 .. m + 1
          /\ f[k + 1][m + 1] = s[k + 1] /\ \A i \in 1 .. m : f[k + 1][i] = q[i]
      BY <2>1, <3>1, <3>2, AppendProperties, LenProperties
    <3> HIDE DEF q, m
    <3>4. /\ m + 1 \in 1 .. m + 1 /\ \A i \in 1 .. m + 1 : i = m + 1 \/ i \in 1 .. m
          /\ \A i \in 1 .. m : i \in 1 .. m + 1
      BY <3>3
    <3>5. ToSet(f[k + 1]) = ToSet(q) \cup {s[k + 1]}
      BY <3>3, <3>4 DEF ToSet
    <3>6. IsInjective(s) => s[k + 1] \notin {s[i] : i \in 1 .. k}
      <4>1. \A i \in 1 .. k : i \in 1 .. n /\ i # k + 1
        BY <1>1, <2>1
      <4> QED BY <1>1, <2>1, <4>1 DEF IsInjective
    <3>7. IsInjective(s) => IsInjective(f[k + 1])
      <4>1. IsInjective(s) => \A i \in 1 .. m : q[i] # s[k + 1]
        BY <3>2, <3>3, <3>6 DEF ToSet
      <4> QED BY <3>2, <3>3, <3>4, <4>1 DEF IsInjective
    <3> QED BY <2>1, <2>2, <2>4, <3>2, <3>3, <3>5, <3>7
  <2> QED BY <2>3, <2>4
<1>8. n \in T
  <2> HIDE DEF T
  <2>1. \A k \in 0 .. n : k \in T
    BY <1>1, <1>6, <1>7, UpTo
  <2> QED BY <1>1, <2>1
<1>9. {s[i] : i \in 1 .. n} = ToSet(s)
  BY <1>1 DEF ToSet
<1> QED BY <1>4, <1>8, <1>9

\* Two lists one behind the other
LEMMA Joined ==
  ASSUME NEW S, NEW s \in Seq(S), NEW t \in Seq(S)
  PROVE  /\ s \o t \in Seq(S) /\ ToSet(s \o t) = ToSet(s) \cup ToSet(t)
         /\ IsInjective(s) /\ IsInjective(t) /\ ToSet(s) \cap ToSet(t) = {} => IsInjective(s \o t)
<1> DEFINE q == s \o t
           m == Len(s)
           n == Len(t)
<1>1. /\ m \in Nat /\ n \in Nat /\ DOMAIN s = 1 .. m /\ DOMAIN t = 1 .. n
      /\ q \in Seq(S) /\ Len(q) = m + n /\ DOMAIN q = 1 .. m + n
      /\ \A i \in 1 .. m + n : q[i] = IF i <= m THEN s[i] ELSE t[i - m]
  BY ConcatProperties, LenProperties
<1> HIDE DEF q, m, n
<1>2. /\ \A i \in 1 .. m : i \in 1 .. m + n /\ q[i] = s[i]
      /\ \A i \in 1 .. n : m + i \in 1 .. m + n /\ q[m + i] = t[i]
      /\ \A i \in 1 .. m + n : (i \in 1 .. m /\ q[i] = s[i]) \/ (i - m \in 1 .. n /\ q[i] = t[i - m])
  <2>1. ASSUME NEW i \in 1 .. m PROVE i \in 1 .. m + n /\ q[i] = s[i]
    BY <1>1
  <2>2. ASSUME NEW i \in 1 .. n PROVE m + i \in 1 .. m + n /\ q[m + i] = t[i]
    <3>1. m + i \in 1 .. m + n /\ ~(m + i <= m) /\ (m + i) - m = i
      BY <1>1
    <3> QED BY <1>1, <3>1
  <2>3. ASSUME NEW i \in 1 .. m + n PROVE (i \in 1 .. m /\ q[i] = s[i]) \/ (i - m \in 1 .. n /\ q[i] = t[i - m])
    <3>1. CASE i <= m
      BY <1>1, <3>1
    <3>2. CASE ~(i <= m)
      BY <1>1, <3>2
    <3> QED BY <3>1, <3>2
  <2> QED BY <2>1, <2>2, <2>3
<1>3. ToSet(q) = ToSet(s) \cup ToSet(t)
  BY <1>1, <1>2 DEF ToSet
<1>4. ASSUME IsInjective(s), IsInjective(t), ToSet(s) \cap ToSet(t) = {} PROVE IsInjective(q)
  <2> SUFFICES ASSUME NEW i \in 1 .. m + n, NEW j \in 1 .. m + n, q[i] = q[j] PROVE i = j
    BY <1>1 DEF IsInjective
  <2>1. \A a \in 1 .. m, b \in 1 .. n : s[a] # t[b]
    BY <1>1, <1>4 DEF ToSet
  <2>2. CASE i \in 1 .. m /\ j \in 1 .. m
    <3>1. s[i] = s[j]
      BY <1>2, <2>2
    <3> QED BY <1>1, <1>4, <2>2, <3>1 DEF IsInjective
  <2>3. CASE i - m \in 1 .. n /\ j - m \in 1 .. n
    <3>1. t[i - m] = t[j - m]
      <4>1. i \notin 1 .. m /\ j \notin 1 .. m
        BY <1>1, <2>3
      <4> QED BY <1>2, <2>3, <4>1
    <3>2. i - m = j - m
      BY <1>1, <1>4, <2>3, <3>1 DEF IsInjective
    <3> QED BY <1>1, <3>2
  <2> QED BY <1>2, <2>1, <2>2, <2>3
<1> QED BY <1>1, <1>3, <1>4 DEF q

\* What is registered of a manifest is a beginning of it, new to the tables, each name once.
LEMMA AcceptedNames ==
  ASSUME NEW caps \in Offers
  PROVE  LET names == NamesOf(Accepted(caps)) IN
         /\ names \in Seq(Names) /\ IsInjective(names)
         /\ ToSet(names) \cap DOMAIN table = {} /\ ToSet(names) \subseteq ToSet(NamesOf(caps))
<1> DEFINE n == Len(caps)
           fresh(k) == caps[k].name \notin DOMAIN table \cup {caps[i].name : i \in 1 .. k - 1}
           New == {k \in DOMAIN caps : \A i \in 1 .. k : fresh(i)}
           m == Cardinality(New)
           acc == Accepted(caps)
           names == NamesOf(acc)
<1>1. \E C : caps \in Seq(C)
  BY RegistryAssumption
<1>2. PICK C : caps \in Seq(C)
  BY <1>1
<1>3. n \in Nat /\ DOMAIN caps = 1 .. n /\ \A i \in 1 .. n : caps[i] \in C
  BY <1>2, LenProperties
<1>4. acc = SubSeq(caps, 1, m)
  BY DEF Accepted
<1>5. m \in 0 .. n /\ \A k \in 1 .. m : fresh(k)
  <2>1. IsFiniteSet(New) /\ New \in SUBSET Nat /\ New \subseteq 1 .. n
    <3>1. IsFiniteSet(1 .. n)
      BY <1>3, FS_Interval
    <3>2. New \subseteq 1 .. n
      BY <1>3
    <3>3. 1 .. n \subseteq Nat
      BY <1>3
    <3> HIDE DEF New, n
    <3> QED BY <3>1, <3>2, <3>3, FS_Subset
  <2>2. CASE New = {}
    <3>1. m = 0
      BY <2>2, FS_EmptySet
    <3> HIDE DEF m, n
    <3> QED BY <1>3, <3>1
  <2>3. CASE New # {}
    <3> DEFINE x == Max(New)
    <3>1. x \in New /\ \A y \in New : y <= x
      <4> HIDE DEF New
      <4> QED BY <2>1, <2>3, GreatestIs
    <3> HIDE DEF x
    <3>2. x \in 1 .. n /\ \A k \in 1 .. x : fresh(k)
      BY <1>3, <3>1
    <3>3. New = 1 .. x
      <4>1. ASSUME NEW k \in 1 .. x PROVE k \in New
        <5>1. k \in 1 .. n /\ \A i \in 1 .. k : i \in 1 .. x
          BY <1>3, <3>2
        <5> QED BY <1>3, <3>2, <5>1
      <4>2. ASSUME NEW k \in New PROVE k \in 1 .. x
        <5>1. k <= x /\ k \in 1 .. n
          BY <2>1, <3>1
        <5> QED BY <3>2, <5>1
      <4> QED BY <4>1, <4>2
    <3>4. Cardinality(1 .. x) = x
      <4>1. x \in Int /\ ~(1 > x)
        BY <3>2
      <4>2. Cardinality(1 .. x) = x - 1 + 1
        BY <4>1, FS_Interval
      <4> QED BY <4>1, <4>2
    <3>5. m = x
      BY <3>3, <3>4
    <3> HIDE DEF m, n, New, fresh
    <3> QED BY <1>3, <3>2, <3>5
  <2> QED BY <2>2, <2>3
<1> HIDE DEF m
<1>6. /\ acc \in Seq(C) /\ Len(acc) = m /\ \A i \in 1 .. m : acc[i] = caps[i]
  <2>1. \A i \in 1 .. m : caps[i] \in C
    BY <1>3, <1>5
  <2>2. m \in Int /\ 1 \in Int
    BY <1>3, <1>5
  <2>3. /\ SubSeq(caps, 1, m) \in Seq(C)
        /\ Len(SubSeq(caps, 1, m)) = IF 1 <= m THEN m - 1 + 1 ELSE 0
        /\ \A i \in 1 .. m - 1 + 1 : SubSeq(caps, 1, m)[i] = caps[1 + i - 1]
    BY <2>1, <2>2, SubSeqProperties
  <2>4. m - 1 + 1 = m /\ \A i \in 1 .. m : 1 + i - 1 = i
    BY <1>3, <1>5
  <2>5. (IF 1 <= m THEN m - 1 + 1 ELSE 0) = m
    BY <1>3, <1>5
  <2> HIDE DEF acc
  <2> QED BY <1>4, <2>3, <2>4, <2>5
<1>7. DOMAIN acc = 1 .. m /\ names = [i \in 1 .. m |-> acc[i].name]
  <2>1. DOMAIN acc = 1 .. m
    <3> HIDE DEF acc
    <3> QED BY <1>6, LenProperties
  <2> HIDE DEF acc
  <2> QED BY <2>1 DEF NamesOf
<1> HIDE DEF acc, New, names
<1>8. DOMAIN names = 1 .. m /\ \A i \in 1 .. m : names[i] = caps[i].name
  BY <1>6, <1>7
<1>9. ToSet(NamesOf(caps)) = {caps[i].name : i \in 1 .. n}
  BY <1>3 DEF NamesOf, ToSet
<1>10. \A i \in 1 .. m : i \in 1 .. n
  BY <1>3, <1>5
<1>11. ToSet(names) \subseteq ToSet(NamesOf(caps))
  BY <1>8, <1>9, <1>10 DEF ToSet
<1>12. names \in Seq(Names)
  <2>1. \A i \in 1 .. m : names[i] \in Names
    BY <1>8, <1>9, <1>10 DEF Names
  <2>2. names \in [1 .. m -> Names] /\ m \in Nat
    BY <1>3, <1>5, <1>7, <1>8, <2>1
  <2> QED BY <2>2
<1>13. ToSet(names) \cap DOMAIN table = {}
  BY <1>5, <1>8 DEF ToSet
<1>14. IsInjective(names)
  <2>1. ASSUME NEW i \in 1 .. m, NEW j \in 1 .. m, i < j PROVE names[i] # names[j]
    <3>1. i \in 1 .. j - 1
      BY <1>3, <1>5, <2>1
    <3> QED BY <1>5, <1>8, <3>1
  <2>2. \A i, j \in 1 .. m : i = j \/ i < j \/ j < i
    BY <1>3, <1>5
  <2> HIDE DEF fresh, n
  <2> QED BY <1>8, <2>1, <2>2 DEF IsInjective
<1> QED BY <1>11, <1>12, <1>13, <1>14 DEF names, acc

RegistryInv == RegistryTypeOK /\ TablesAgree /\ \A n \in DOMAIN table : table[n] \in Owner

\* Nothing is registered.
LEMMA RegistryStarts == RegistryInit => RegistryInv
<1> SUFFICES ASSUME RegistryInit PROVE RegistryInv
  OBVIOUS
<1>1. DOMAIN table = {} /\ byGroup = <<>> /\ byPlugin = [p \in Owner |-> <<>>] /\ offers \in [Owner -> Offers]
  BY DEF RegistryInit
<1> DEFINE e == <<>>
<1>2. e \in Seq(Names) /\ ToSet(e) = {} /\ IsInjective(e)
  BY EmptySeq DEF ToSet, IsInjective
<1>3. byGroup = e /\ \A p \in Owner : byPlugin[p] = e
  BY <1>1
<1>4. byPlugin \in [Owner -> Seq(Names)]
  BY <1>1, EmptySeq
<1> HIDE DEF e
<1> QED BY <1>1, <1>2, <1>3, <1>4 DEF RegistryInv, RegistryTypeOK, TablesAgree

\* A registration, broken off by a conflict or not, and its end keep the tables in step.
LEMMA RegistryStep == RegistryInv /\ [RegistryNext]_registry => RegistryInv'
<1> SUFFICES ASSUME RegistryInv, [RegistryNext]_registry PROVE RegistryInv'
  OBVIOUS
<1>t. /\ offers \in [Owner -> Offers] /\ DOMAIN table \subseteq Names
      /\ byGroup \in Seq(Names) /\ byPlugin \in [Owner -> Seq(Names)]
      /\ \A n \in DOMAIN table : table[n] \in Owner
  BY DEF RegistryInv, RegistryTypeOK
<1>a. /\ IsInjective(byGroup) /\ ToSet(byGroup) = DOMAIN table
      /\ \A p \in Owner :
           /\ IsInjective(byPlugin[p])
           /\ ToSet(byPlugin[p]) = {n \in DOMAIN table : table[n] = p}
           /\ ToSet(byPlugin[p]) \subseteq ToSet(NamesOf(offers[p]))
  BY DEF RegistryInv, TablesAgree
<1>1. ASSUME NEW p \in Owner, Register(p) PROVE RegistryInv'
  <2> DEFINE names == NamesOf(Accepted(offers[p]))
             R == ToSet(names)
  <2>n. /\ names \in Seq(Names) /\ IsInjective(names) /\ R \cap DOMAIN table = {}
        /\ R \subseteq ToSet(NamesOf(offers[p])) /\ R \subseteq Names
    <3>1. /\ names \in Seq(Names) /\ IsInjective(names) /\ R \cap DOMAIN table = {}
          /\ R \subseteq ToSet(NamesOf(offers[p]))
      BY <1>t, AcceptedNames
    <3>2. R \subseteq Names
      <4> HIDE DEF names
      <4> QED BY <3>1, LenProperties DEF ToSet
    <3> QED BY <3>1, <3>2
  <2>m. /\ table' = [n \in DOMAIN table \cup R |-> IF n \in R THEN p ELSE table[n]]
        /\ byGroup' = byGroup \o names /\ byPlugin' = [byPlugin EXCEPT ![p] = byPlugin[p] \o names]
        /\ offers' = offers
    BY <1>1 DEF Register
  <2> HIDE DEF names, R
  <2>d. R = ToSet(names)
    BY DEF R
  <2>1. byGroup' \in Seq(Names) /\ ToSet(byGroup') = DOMAIN table \cup R /\ IsInjective(byGroup')
    BY <1>t, <1>a, <2>n, <2>m, <2>d, Joined
  <2>p. ToSet(byPlugin[p]) \subseteq DOMAIN table
    BY <1>a
  <2>2. LET q == byPlugin[p] \o names IN q \in Seq(Names) /\ ToSet(q) = ToSet(byPlugin[p]) \cup R /\ IsInjective(q)
    <3>1. byPlugin[p] \in Seq(Names) /\ IsInjective(byPlugin[p]) /\ ToSet(byPlugin[p]) \cap ToSet(names) = {}
      BY <1>t, <1>a, <2>n, <2>d, <2>p
    <3> QED BY <2>n, <2>d, <3>1, Joined
  <2>3. RegistryTypeOK'
    BY <1>t, <2>n, <2>m, <2>1, <2>2 DEF RegistryTypeOK
  <2>4. ASSUME NEW q \in Owner
        PROVE  /\ IsInjective(byPlugin'[q])
               /\ ToSet(byPlugin'[q]) = {n \in DOMAIN table' : table'[n] = q}
               /\ ToSet(byPlugin'[q]) \subseteq ToSet(NamesOf(offers'[q]))
    <3>0. /\ \A n \in R : n \in DOMAIN table' /\ table'[n] = p /\ n \notin DOMAIN table
          /\ \A n \in DOMAIN table : n \in DOMAIN table' /\ table'[n] = table[n]
          /\ DOMAIN table' = DOMAIN table \cup R
      BY <2>n, <2>m
    <3>1. CASE q = p
      <4>1. byPlugin'[q] = byPlugin[p] \o names
        BY <1>t, <2>m, <3>1
      <4>2. IsInjective(byPlugin'[q]) /\ ToSet(byPlugin'[q]) = ToSet(byPlugin[p]) \cup R
        BY <2>2, <4>1
      <4>3. /\ ToSet(byPlugin[p]) = {n \in DOMAIN table : table[n] = p}
            /\ ToSet(byPlugin[p]) \subseteq ToSet(NamesOf(offers[p]))
        BY <1>a
      <4> QED BY <2>n, <2>m, <3>0, <3>1, <4>2, <4>3
    <3>2. CASE q # p
      <4>1. byPlugin'[q] = byPlugin[q]
        BY <1>t, <2>m, <3>2
      <4>2. /\ IsInjective(byPlugin[q]) /\ ToSet(byPlugin[q]) = {n \in DOMAIN table : table[n] = q}
            /\ ToSet(byPlugin[q]) \subseteq ToSet(NamesOf(offers[q]))
        BY <1>a
      <4> QED BY <2>m, <3>0, <3>2, <4>1, <4>2
    <3> QED BY <3>1, <3>2
  <2>5. TablesAgree'
    BY <2>1, <2>m, <2>4 DEF TablesAgree
  <2>6. \A n \in DOMAIN table' : table'[n] \in Owner
    BY <1>t, <2>m
  <2> QED BY <2>3, <2>5, <2>6 DEF RegistryInv
<1>2. ASSUME NEW p \in Owner, Unregister(p) PROVE RegistryInv'
  <2> DEFINE names == ToSet(byPlugin[p])
  <2>m. /\ table' = [n \in DOMAIN table \ names |-> table[n]] /\ byGroup' = Dropping(byGroup, names)
        /\ byPlugin' = [byPlugin EXCEPT ![p] = <<>>] /\ offers' = offers
    BY <1>2 DEF Unregister
  <2>1. names = {n \in DOMAIN table : table[n] = p}
    BY <1>a
  <2> HIDE DEF names
  <2>2. byGroup' \in Seq(Names) /\ ToSet(byGroup') = DOMAIN table \ names /\ IsInjective(byGroup')
    BY <1>t, <1>a, <2>m, DroppingIs
  <2> DEFINE e == <<>>
  <2>3. e \in Seq(Names) /\ ToSet(e) = {} /\ IsInjective(e)
    BY EmptySeq DEF ToSet, IsInjective
  <2>4. byPlugin' = [byPlugin EXCEPT ![p] = e]
    BY <2>m
  <2> HIDE DEF e
  <2>5. RegistryTypeOK'
    BY <1>t, <2>m, <2>2, <2>3, <2>4 DEF RegistryTypeOK
  <2>6. ASSUME NEW q \in Owner
        PROVE  /\ IsInjective(byPlugin'[q])
               /\ ToSet(byPlugin'[q]) = {n \in DOMAIN table' : table'[n] = q}
               /\ ToSet(byPlugin'[q]) \subseteq ToSet(NamesOf(offers'[q]))
    <3>0. /\ DOMAIN table' = DOMAIN table \ names
          /\ \A n \in DOMAIN table \ names : table'[n] = table[n] /\ table[n] # p
      BY <2>m, <2>1
    <3>1. CASE q = p
      <4>1. byPlugin'[q] = e
        BY <1>t, <2>4, <3>1
      <4> QED BY <2>3, <3>0, <3>1, <4>1
    <3>2. CASE q # p
      <4>1. byPlugin'[q] = byPlugin[q]
        BY <1>t, <2>4, <3>2
      <4>2. /\ IsInjective(byPlugin[q]) /\ ToSet(byPlugin[q]) = {n \in DOMAIN table : table[n] = q}
            /\ ToSet(byPlugin[q]) \subseteq ToSet(NamesOf(offers[q]))
        BY <1>a
      <4> QED BY <2>1, <2>m, <3>0, <3>2, <4>1, <4>2
    <3> QED BY <3>1, <3>2
  <2>7. TablesAgree'
    BY <2>2, <2>m, <2>6 DEF TablesAgree
  <2>8. \A n \in DOMAIN table' : table'[n] \in Owner
    BY <1>t, <2>m
  <2> QED BY <2>5, <2>7, <2>8 DEF RegistryInv
<1>3. ASSUME UNCHANGED registry PROVE RegistryInv'
  BY <1>3 DEF registry, RegistryInv, RegistryTypeOK, TablesAgree
<1> QED BY <1>1, <1>2, <1>3 DEF RegistryNext

\* Whatever is loaded, unloaded and turned down for its names, the tables tell one story.
THEOREM TablesTellOneStory == RegistrySpec => []TablesAgree
<1>1. RegistryInv => TablesAgree
  BY DEF RegistryInv
<1> QED BY <1>1, RegistryStarts, RegistryStep, PTL DEF RegistrySpec

-----------------------------------------------------------------------------
(* The order of a chain                                                      *)

Member == ToSet(byGroup)

\* The group is a list without repetition.
GroupOK == byGroup \in Seq(Names) /\ IsInjective(byGroup)

NextOf(done) == CHOOSE n \in Ready(done) : \A m \in Ready(done) \ {n} : Precedes(n, m)

\* Where a name stands in a list
LEMMA PositionIs ==
  ASSUME NEW S, NEW s \in Seq(S), NEW n \in ToSet(s)
  PROVE  Position(s, n) \in 1 .. Len(s) /\ s[Position(s, n)] = n
<1>1. \E i \in DOMAIN s : s[i] = n
  BY DEF ToSet
<1>2. DOMAIN s = 1 .. Len(s)
  BY LenProperties
<1> QED BY <1>1, <1>2 DEF Position

\* Among members there is always one that goes first.
LEMMA FirstOfSome ==
  ASSUME GroupOK, NEW R \in SUBSET Member, R # {}
  PROVE  \E n \in R : \A m \in R \ {n} : Precedes(n, m)
<1> DEFINE known(n) == n \in ToSet(DefaultOrder)
           d == Len(DefaultOrder)
           rank(n) == IF known(n) THEN Position(DefaultOrder, n) ELSE d + Position(byGroup, n)
           T == {rank(n) : n \in R}
<1>1. d \in Nat /\ Len(byGroup) \in Nat
  BY RegistryAssumption, LenProperties DEF GroupOK
<1>2. \A n \in R : known(n) => Position(DefaultOrder, n) \in 1 .. d /\ DefaultOrder[Position(DefaultOrder, n)] = n
  BY RegistryAssumption, PositionIs
<1>3. \A n \in R : Position(byGroup, n) \in 1 .. Len(byGroup) /\ byGroup[Position(byGroup, n)] = n
  BY PositionIs DEF GroupOK, Member
<1> HIDE DEF d
<1>4. \A n \in R : rank(n) \in Nat
  <2> SUFFICES ASSUME NEW n \in R PROVE rank(n) \in Nat
    OBVIOUS
  <2>1. known(n) => Position(DefaultOrder, n) \in Nat
    BY <1>2
  <2>2. d + Position(byGroup, n) \in Nat
    BY <1>1, <1>3
  <2> QED BY <2>1, <2>2
<1>5. PICK least \in T : \A k \in T : least <= k
  <2>1. T \in SUBSET Nat /\ T # {}
    BY <1>4
  <2> HIDE DEF T
  <2> QED BY <2>1, LeastNatural
<1>6. PICK n \in R : least = rank(n)
  OBVIOUS
<1>7. ASSUME NEW m \in R \ {n} PROVE Precedes(n, m)
  <2>1. rank(n) <= rank(m) /\ m \in R /\ m # n
    BY <1>5, <1>6
  <2>2. CASE known(n) /\ known(m)
    <3>1. Position(DefaultOrder, n) <= Position(DefaultOrder, m)
      BY <2>1, <2>2
    <3>2. Position(DefaultOrder, n) # Position(DefaultOrder, m)
      BY <1>2, <2>1, <2>2
    <3>3. Position(DefaultOrder, n) < Position(DefaultOrder, m)
      BY <1>1, <1>2, <2>1, <2>2, <3>1, <3>2
    <3> QED BY <2>2, <3>3 DEF Precedes
  <2>3. CASE known(n) /\ ~known(m)
    BY <2>3 DEF Precedes
  <2>4. CASE ~known(n) /\ known(m)
    <3>1. d + Position(byGroup, n) <= Position(DefaultOrder, m)
      BY <2>1, <2>4
    <3>2. Position(byGroup, n) \in 1 .. Len(byGroup) /\ Position(DefaultOrder, m) \in 1 .. d
      BY <1>2, <1>3, <2>1, <2>4
    <3> QED BY <1>1, <3>1, <3>2
  <2>5. CASE ~known(n) /\ ~known(m)
    <3>1. d + Position(byGroup, n) <= d + Position(byGroup, m)
      BY <2>1, <2>5
    <3>2. Position(byGroup, n) # Position(byGroup, m)
      BY <1>3, <2>1
    <3>3. Position(byGroup, n) \in 1 .. Len(byGroup) /\ Position(byGroup, m) \in 1 .. Len(byGroup)
      BY <1>3, <2>1
    <3>4. Position(byGroup, n) < Position(byGroup, m)
      BY <1>1, <3>1, <3>2, <3>3
    <3> QED BY <2>5, <3>4 DEF Precedes
  <2> QED BY <2>2, <2>3, <2>4, <2>5
<1> QED BY <1>7

\* What Kahn's algorithm takes next
LEMMA NextIs ==
  ASSUME GroupOK, NEW done, Ready(done) # {}
  PROVE  NextOf(done) \in Ready(done) /\ \A m \in Ready(done) \ {NextOf(done)} : Precedes(NextOf(done), m)
<1>1. Ready(done) \in SUBSET Member
  BY DEF Ready, Member
<1>2. \E n \in Ready(done) : \A m \in Ready(done) \ {n} : Precedes(n, m)
  <2> HIDE DEF Ready
  <2> QED BY <1>1, FirstOfSome
<1> QED BY <1>2 DEF NextOf

\* The states of its queue, one for each member
Pops(g) ==
  /\ g \in [0 .. Len(byGroup) -> Seq(Member)] /\ g[0] = <<>>
  /\ \A k \in 1 .. Len(byGroup) :
       g[k] = IF Ready(g[k - 1]) = {} THEN g[k - 1] ELSE Append(g[k - 1], NextOf(g[k - 1]))

\* The chain is what Kahn's algorithm pops, and after it what it never came to.
LEMMA ChainPops ==
  ASSUME GroupOK
  PROVE  \E g : /\ Pops(g)
                /\ ChainOrder = g[Len(byGroup)] \o Dropping(byGroup, ToSet(g[Len(byGroup)]))
<1> DEFINE n == Len(byGroup)
           V == Seq(Member)
           next(done) == CHOOSE x \in Ready(done) : \A m \in Ready(done) \ {x} : Precedes(x, m)
           Step(g, k) == IF k = 0 THEN <<>>
                         ELSE LET done == g[k - 1] IN IF Ready(done) = {} THEN done ELSE Append(done, next(done))
           Right(g) == g = [k \in 0 .. n |-> Step(g, k)]
           After(v) == IF Ready(v) = {} THEN v ELSE Append(v, NextOf(v))
           F == [k \in 1 .. n |-> [v \in V |-> After(v)]]
<1>1. n \in Nat
  BY LenProperties DEF GroupOK
<1>2. \A v \in V : After(v) \in V
  <2> SUFFICES ASSUME NEW v \in V PROVE After(v) \in V
    OBVIOUS
  <2>1. Ready(v) # {} => NextOf(v) \in Member
    BY NextIs DEF Ready, Member
  <2>2. \A x \in Member : Append(v, x) \in V
    BY AppendProperties
  <2> QED BY <2>1, <2>2
<1> HIDE DEF n, V
<1>3. \E g : Right(g) /\ g \in [0 .. n -> V]
  <2>1. F \in [1 .. n -> [V -> V]]
    <3> HIDE DEF After
    <3> QED BY <1>2
  <2> DEFINE e == <<>>
  <2>2. e \in V
    BY EmptySeq DEF V
  <2> HIDE DEF e, F, Step, After
  <2>3. PICK g \in [0 .. n -> V] : g[0] = e /\ \A k \in 1 .. n : g[k] = F[k][g[k - 1]]
    <3>1. F \in Steps(n, V)
      BY <2>1 DEF Steps
    <3>2. Walks(n, V, e, F)
      BY <1>1, <2>2, <3>1, Iterated
    <3> QED BY <3>2 DEF Walks
  <2>4. ASSUME NEW k \in 0 .. n PROVE g[k] = Step(g, k)
    <3>1. CASE k = 0
      BY <2>3, <3>1 DEF Step, e
    <3>2. CASE k # 0
      <4>1. k \in 1 .. n /\ g[k - 1] \in V
        BY <1>1, <3>2
      <4>2. g[k] = After(g[k - 1])
        BY <2>3, <4>1 DEF F
      <4> QED BY <3>2, <4>2 DEF Step, After, NextOf
    <3> QED BY <3>1, <3>2
  <2>5. g = [k \in 0 .. n |-> g[k]]
    OBVIOUS
  <2>6. [k \in 0 .. n |-> g[k]] = [k \in 0 .. n |-> Step(g, k)]
    BY <2>4
  <2>7. Right(g)
    BY <2>5, <2>6
  <2> HIDE DEF Right
  <2> QED BY <2>7
<1> DEFINE f == CHOOSE g : Right(g)
<1>4. Right(f)
  <2> HIDE DEF Right
  <2> QED BY <1>3
<1>5. ChainOrder = f[n] \o Dropping(byGroup, ToSet(f[n]))
  BY DEF ChainOrder, n
<1>6. f[0] = <<>> /\ \A k \in 1 .. n : f[k] = After(f[k - 1])
  <2> DEFINE h == [k \in 0 .. n |-> Step(f, k)]
  <2>1. \A k \in 0 .. n : h[k] = Step(f, k)
    OBVIOUS
  <2>2. f = h
    BY <1>4
  <2> HIDE DEF h, f
  <2>3. \A k \in 0 .. n : f[k] = Step(f, k)
    BY <2>1, <2>2
  <2>4. 0 \in 0 .. n /\ \A k \in 1 .. n : k \in 0 .. n /\ k # 0
    BY <1>1
  <2> QED BY <2>3, <2>4 DEF NextOf
<1>7. f \in [0 .. n -> V]
  <2> DEFINE h == [k \in 0 .. n |-> Step(f, k)]
             T == {k \in Nat : f[k] \in V}
  <2>1. DOMAIN h = 0 .. n
    OBVIOUS
  <2>2. f = h
    BY <1>4
  <2> HIDE DEF h
  <2>3. \A k \in 0 .. n : h[k] = Step(f, k)
    <3> HIDE DEF Step
    <3> QED BY DEF h
  <2> HIDE DEF f, After
  <2>4. 0 \in T
    BY <1>6, EmptySeq DEF V
  <2>5. ASSUME NEW k \in 0 .. n - 1, k \in T PROVE k + 1 \in T
    <3>1. k + 1 \in 1 .. n /\ (k + 1) - 1 = k /\ k + 1 \in Nat
      BY <1>1
    <3> QED BY <1>2, <1>6, <2>5, <3>1
  <2>6. \A k \in 0 .. n : k \in T
    <3> HIDE DEF T
    <3> QED BY <1>1, <2>4, <2>5, UpTo
  <2>7. \A k \in 0 .. n : f[k] \in V
    BY <2>6
  <2>8. \A k \in 0 .. n : Step(f, k) \in V
    <3> HIDE DEF Step
    <3> QED BY <2>2, <2>3, <2>7
  <2>9. h \in [0 .. n -> V]
    <3> HIDE DEF Step
    <3> QED BY <2>8 DEF h
  <2> QED BY <2>2, <2>9
<1> HIDE DEF f
<1> QED BY <1>5, <1>6, <1>7 DEF Pops, n, V

\* A list without repetition is as long as it has members.
LEMMA LengthIs ==
  ASSUME NEW S, NEW s \in Seq(S), IsInjective(s)
  PROVE  IsFiniteSet(ToSet(s)) /\ Cardinality(ToSet(s)) = Len(s)
<1>1. Len(s) \in Nat /\ DOMAIN s = 1 .. Len(s)
  BY LenProperties
<1>2. s \in [1 .. Len(s) -> ToSet(s)]
  <2>1. s \in [1 .. Len(s) -> S]
    BY <1>1
  <2> QED BY <1>1, <2>1 DEF ToSet
<1>3. s \in Surjection(1 .. Len(s), ToSet(s)) /\ s \in Injection(1 .. Len(s), ToSet(s))
  <2>1. \A t \in ToSet(s) : \E i \in 1 .. Len(s) : s[i] = t
    BY <1>1 DEF ToSet
  <2> QED BY <1>2, <2>1 DEF Surjection, Injection
<1>4. IsFiniteSet(1 .. Len(s)) /\ Cardinality(1 .. Len(s)) = Len(s)
  <2>1. 1 \in Int /\ Len(s) \in Int
    BY <1>1
  <2>2. IsFiniteSet(1 .. Len(s)) /\ Cardinality(1 .. Len(s)) = IF 1 > Len(s) THEN 0 ELSE Len(s) - 1 + 1
    BY <2>1, FS_Interval
  <2>3. (IF 1 > Len(s) THEN 0 ELSE Len(s) - 1 + 1) = Len(s)
    BY <1>1
  <2> QED BY <2>2, <2>3
<1>5. /\ IsFiniteSet(ToSet(s))
      /\ Cardinality(ToSet(s)) = Cardinality(1 .. Len(s)) <=> s \in Injection(1 .. Len(s), ToSet(s))
  BY <1>3, <1>4, FS_Surjection
<1> QED BY <1>3, <1>4, <1>5

\* No constraint names two members.
Unbound == \A m, n \in Member : ~Edge(m, n)

\* What the queue has given: no member twice, all that have to go first before a member,
\* and where there is no constraint the first of those left.
Given(q) ==
  /\ q \in Seq(Member) /\ IsInjective(q)
  /\ \A i \in 1 .. Len(q), m \in Member : Edge(m, q[i]) => \E j \in 1 .. i - 1 : q[j] = m
  /\ Unbound => \A i \in 1 .. Len(q), m \in Member : m \notin {q[j] : j \in 1 .. i} => Precedes(q[i], m)

\* A name more is popped as long as one is ready.
LEMMA NextGiven ==
  ASSUME GroupOK, NEW q, Given(q), Ready(q) # {}
  PROVE  Given(Append(q, NextOf(q))) /\ Len(Append(q, NextOf(q))) = Len(q) + 1
<1> DEFINE x == NextOf(q)
           r == Append(q, x)
           n == Len(q)
<1>1. /\ x \in Member \ ToSet(q) /\ \A m \in Member \ ToSet(q) : ~Edge(m, x)
      /\ \A m \in Ready(q) \ {x} : Precedes(x, m)
  <2>1. x \in Ready(q) /\ \A m \in Ready(q) \ {x} : Precedes(x, m)
    BY NextIs
  <2> HIDE DEF x
  <2> QED BY <2>1 DEF Ready, Member
<1> HIDE DEF x
<1>2. /\ q \in Seq(Member) /\ n \in Nat /\ DOMAIN q = 1 .. n
      /\ r \in Seq(Member) /\ Len(r) = n + 1 /\ DOMAIN r = 1 .. n + 1
      /\ r[n + 1] = x /\ \A i \in 1 .. n : r[i] = q[i] /\ q[i] \in Member
  BY <1>1, AppendProperties, LenProperties DEF Given
<1> HIDE DEF r, n
<1>3. /\ n + 1 \in 1 .. n + 1 /\ \A i \in 1 .. n + 1 : i = n + 1 \/ i \in 1 .. n
      /\ \A i \in 1 .. n : i \in 1 .. n + 1 /\ i # n + 1
      /\ (n + 1) - 1 = n
  BY <1>2
<1>4. ToSet(q) = {q[i] : i \in 1 .. n}
  BY <1>2 DEF ToSet
<1>5. IsInjective(r)
  <2>1. \A i \in 1 .. n : q[i] # x
    BY <1>1, <1>4
  <2>2. \A i, j \in 1 .. n : q[i] = q[j] => i = j
    BY <1>2 DEF Given, IsInjective
  <2> QED BY <1>2, <1>3, <2>1, <2>2 DEF IsInjective
<1>6. ASSUME NEW i \in 1 .. n + 1, NEW m \in Member, Edge(m, r[i])
      PROVE  \E j \in 1 .. i - 1 : r[j] = m
  <2>1. CASE i = n + 1
    <3>1. m \in ToSet(q)
      BY <1>1, <1>2, <1>6, <2>1
    <3> QED BY <1>2, <1>3, <1>4, <2>1, <3>1
  <2>2. CASE i \in 1 .. n
    <3>1. PICK j \in 1 .. i - 1 : q[j] = m
      BY <1>2, <1>6, <2>2 DEF Given, n
    <3>2. j \in 1 .. n
      BY <1>2, <2>2
    <3> QED BY <1>2, <3>1, <3>2
  <2> QED BY <1>3, <2>1, <2>2
<1>7. ASSUME Unbound, NEW i \in 1 .. n + 1, NEW m \in Member, m \notin {r[j] : j \in 1 .. i}
      PROVE  Precedes(r[i], m)
  <2>1. CASE i = n + 1
    <3>1. m \notin ToSet(q) /\ m # x
      BY <1>2, <1>3, <1>4, <1>7, <2>1
    <3>2. m \in Ready(q)
      BY <1>7, <3>1 DEF Unbound, Ready, Member
    <3> QED BY <1>1, <1>2, <2>1, <3>1, <3>2
  <2>2. CASE i \in 1 .. n
    <3>1. \A j \in 1 .. i : j \in 1 .. n
      BY <1>2, <2>2
    <3>2. m \notin {q[j] : j \in 1 .. i}
      BY <1>2, <1>7, <3>1
    <3>3. Precedes(q[i], m)
      BY <1>7, <2>2, <3>2 DEF Given, n
    <3> QED BY <1>2, <2>2, <3>3
  <2> QED BY <1>3, <2>1, <2>2
<1>8. Given(r)
  BY <1>2, <1>5, <1>6, <1>7 DEF Given
<1> QED BY <1>2, <1>8 DEF x, r, n

\* After as many steps as there are members, the queue is empty.
LEMMA QueueRunsDry ==
  ASSUME GroupOK, NEW g, Pops(g)
  PROVE  Given(g[Len(byGroup)]) /\ Ready(g[Len(byGroup)]) = {}
<1> DEFINE n == Len(byGroup)
           T == {k \in Nat : Given(g[k]) /\ (Len(g[k]) = k \/ Ready(g[k]) = {})}
<1>1. n \in Nat
  BY LenProperties DEF GroupOK
<1>2. 0 \in T
  <2> DEFINE e == <<>>
  <2>1. e \in Seq(Member) /\ IsInjective(e) /\ Len(e) = 0 /\ 1 .. Len(e) = {}
    BY EmptySeq DEF IsInjective
  <2>2. g[0] = e
    BY DEF Pops
  <2> HIDE DEF e
  <2> QED BY <2>1, <2>2 DEF Given
<1>3. ASSUME NEW k \in 0 .. n - 1, k \in T PROVE k + 1 \in T
  <2>1. k + 1 \in 1 .. n /\ (k + 1) - 1 = k /\ k \in Nat /\ k + 1 \in Nat
    BY <1>1
  <2>2. g[k + 1] = IF Ready(g[k]) = {} THEN g[k] ELSE Append(g[k], NextOf(g[k]))
    BY <2>1 DEF Pops
  <2>3. CASE Ready(g[k]) = {}
    BY <1>3, <2>1, <2>2, <2>3
  <2>4. CASE Ready(g[k]) # {}
    <3>1. Given(g[k]) /\ Len(g[k]) = k
      BY <1>3, <2>4
    <3>2. Given(g[k + 1]) /\ Len(g[k + 1]) = k + 1
      BY <2>2, <2>4, <3>1, NextGiven
    <3> QED BY <2>1, <3>2
  <2> QED BY <2>3, <2>4
<1>4. n \in T
  <2> HIDE DEF T, n
  <2>1. \A k \in 0 .. n : k \in T
    BY <1>1, <1>2, <1>3, UpTo
  <2> QED BY <1>1, <2>1
<1>5. Given(g[n]) /\ (Len(g[n]) = n \/ Ready(g[n]) = {})
  BY <1>4
<1>6. ASSUME Len(g[n]) = n PROVE Ready(g[n]) = {}
  <2> DEFINE q == g[n]
  <2>1. q \in Seq(Member) /\ IsInjective(q)
    BY <1>5 DEF Given
  <2>2. ToSet(q) \subseteq Member
    <3> HIDE DEF q
    <3> QED BY <2>1, LenProperties DEF ToSet
  <2>3. Cardinality(ToSet(q)) = n
    BY <1>6, <2>1, LengthIs
  <2>4. IsFiniteSet(Member) /\ Cardinality(Member) = n
    BY LengthIs DEF GroupOK, Member
  <2> HIDE DEF q, n
  <2>5. ToSet(q) = Member
    BY <2>2, <2>3, <2>4, FS_Subset
  <2>6. Ready(q) = {}
    BY <2>5 DEF Ready, Member
  <2> QED BY <2>6 DEF q
<1> QED BY <1>5, <1>6

\* Nothing that is before a member of A is outside of it.
Complete(A) == \A m \in Member, x \in A : Edge(m, x) => m \in A

\* What is to run before n: those next before it, all before them, and nothing else
LEMMA EarlierIs ==
  ASSUME GroupOK, NEW n
  PROVE  /\ Earlier(n) \subseteq Member /\ Complete(Earlier(n))
         /\ \A m \in Member : Edge(m, n) => m \in Earlier(n)
         /\ \A A \in SUBSET Member : Complete(A) /\ (\A m \in Member : Edge(m, n) => m \in A) => Earlier(n) \subseteq A
<1> DEFINE d == Len(byGroup)
           first == {m \in ToSet(byGroup) : Edge(m, n)}
           Step(g, k) == IF k = 0 THEN first
                         ELSE LET near == g[k - 1] IN near \cup {m \in ToSet(byGroup) : \E x \in near : Edge(m, x)}
           Right(g) == g = [k \in 0 .. d |-> Step(g, k)]
           More(v) == v \cup {m \in Member : \E x \in v : Edge(m, x)}
           V == SUBSET Member
           F == [k \in 1 .. d |-> [v \in V |-> More(v)]]
<1>1. d \in Nat
  BY LenProperties DEF GroupOK
<1>2. (\A v \in V : More(v) \in V) /\ first \in V
  BY DEF Member
<1> HIDE DEF d, V
<1>3. \E g : Right(g)
  <2>1. F \in Steps(d, V)
    <3> HIDE DEF More
    <3> QED BY <1>2 DEF Steps
  <2> HIDE DEF F, Step, More, first
  <2>3. PICK g \in [0 .. d -> V] : g[0] = first /\ \A k \in 1 .. d : g[k] = F[k][g[k - 1]]
    <3>1. Walks(d, V, first, F)
      BY <1>1, <1>2, <2>1, Iterated
    <3> QED BY <3>1 DEF Walks
  <2>4. ASSUME NEW k \in 0 .. d PROVE g[k] = Step(g, k)
    <3>1. CASE k = 0
      BY <2>3, <3>1 DEF Step
    <3>2. CASE k # 0
      <4>1. k \in 1 .. d /\ g[k - 1] \in V
        BY <1>1, <3>2
      <4>2. g[k] = More(g[k - 1])
        BY <2>3, <4>1 DEF F
      <4> QED BY <3>2, <4>2 DEF Step, More, Member
    <3> QED BY <3>1, <3>2
  <2>5. g = [k \in 0 .. d |-> g[k]]
    OBVIOUS
  <2>6. [k \in 0 .. d |-> g[k]] = [k \in 0 .. d |-> Step(g, k)]
    BY <2>4
  <2>7. Right(g)
    BY <2>5, <2>6
  <2> HIDE DEF Right
  <2> QED BY <2>7
<1> DEFINE f == CHOOSE g : Right(g)
<1>4. Right(f)
  <2> HIDE DEF Right
  <2> QED BY <1>3
<1>5. Earlier(n) = f[d]
  BY DEF Earlier, d
<1>6. f[0] = first /\ \A k \in 1 .. d : f[k] = More(f[k - 1])
  <2> DEFINE h == [k \in 0 .. d |-> Step(f, k)]
  <2>1. \A k \in 0 .. d : h[k] = Step(f, k)
    OBVIOUS
  <2>2. f = h
    BY <1>4
  <2> HIDE DEF h, f
  <2>3. \A k \in 0 .. d : f[k] = Step(f, k)
    BY <2>1, <2>2
  <2>4. 0 \in 0 .. d /\ \A k \in 1 .. d : k \in 0 .. d /\ k # 0
    BY <1>1
  <2> QED BY <2>3, <2>4 DEF Member
<1> HIDE DEF f, F, Right, Step
<1>m. IsFiniteSet(Member) /\ Cardinality(Member) = d
  BY LengthIs DEF GroupOK, Member, d
\* It grows until it is complete.
<1> DEFINE T == {k \in Nat : /\ f[k] \in V /\ first \subseteq f[k]
                             /\ Complete(f[k]) \/ Cardinality(f[k]) >= k
                             /\ \A A \in SUBSET Member : Complete(A) /\ first \subseteq A => f[k] \subseteq A}
<1>7. 0 \in T
  <2>1. IsFiniteSet(first)
    BY <1>2, <1>m, FS_Subset DEF V
  <2>2. Cardinality(first) \in Nat
    BY <2>1, FS_CardinalityType
  <2>3. Cardinality(first) >= 0
    <3> HIDE DEF first
    <3> QED BY <2>2
  <2> QED BY <1>2, <1>6, <2>3
<1>8. ASSUME NEW k \in 0 .. d - 1, k \in T PROVE k + 1 \in T
  <2> DEFINE a == f[k]
             b == f[k + 1]
  <2>1. k + 1 \in 1 .. d /\ (k + 1) - 1 = k /\ k \in Nat /\ k + 1 \in Nat
    BY <1>1
  <2>2. b = More(a)
    BY <1>6, <2>1
  <2>3. /\ a \in V /\ first \subseteq a /\ (Complete(a) \/ Cardinality(a) >= k)
        /\ \A A \in SUBSET Member : Complete(A) /\ first \subseteq A => a \subseteq A
    BY <1>8
  <2> HIDE DEF a, b, first
  <2>4. b \in V /\ first \subseteq b /\ a \subseteq b
    BY <1>2, <2>2, <2>3
  <2>5. \A A \in SUBSET Member : Complete(A) /\ first \subseteq A => b \subseteq A
    BY <2>2, <2>3 DEF Complete
  <2>6. Complete(b) \/ Cardinality(b) >= k + 1
    <3>1. CASE Complete(a)
      <4>1. b = a
        BY <2>2, <3>1 DEF Complete
      <4> QED BY <3>1, <4>1
    <3>2. CASE ~Complete(a)
      <4>1. a # b
        BY <2>2, <3>2 DEF Complete
      <4>2. IsFiniteSet(b)
        BY <1>m, <2>4, FS_Subset DEF V
      <4>3. IsFiniteSet(a) /\ Cardinality(a) <= Cardinality(b) /\ Cardinality(a) # Cardinality(b)
        BY <2>4, <4>1, <4>2, FS_Subset
      <4>4. Cardinality(a) \in Nat /\ Cardinality(b) \in Nat
        BY <4>2, <4>3, FS_CardinalityType
      <4>5. Cardinality(a) >= k
        BY <2>3, <3>2
      <4> QED BY <2>1, <4>3, <4>4, <4>5
    <3> QED BY <3>1, <3>2
  <2> QED BY <2>1, <2>4, <2>5, <2>6 DEF b
<1>9. d \in T
  <2> HIDE DEF T
  <2>1. \A k \in 0 .. d : k \in T
    BY <1>1, <1>7, <1>8, UpTo
  <2> QED BY <1>1, <2>1
<1> DEFINE E == f[d]
<1>10. /\ E \in V /\ first \subseteq E /\ (Complete(E) \/ Cardinality(E) >= d)
       /\ \A A \in SUBSET Member : Complete(A) /\ first \subseteq A => E \subseteq A
  BY <1>9
<1> HIDE DEF E
<1>11. Complete(E)
  <2> SUFFICES ASSUME Cardinality(E) >= d PROVE Complete(E)
    BY <1>10
  <2>1. E \in SUBSET Member
    BY <1>10 DEF V
  <2>2. IsFiniteSet(E) /\ Cardinality(E) <= Cardinality(Member) /\ (Cardinality(Member) = Cardinality(E) => Member = E)
    BY <1>m, <2>1, FS_Subset
  <2>3. Cardinality(E) \in Nat
    BY <2>2, FS_CardinalityType
  <2>4. Cardinality(E) = d
    BY <1>1, <1>m, <2>2, <2>3
  <2>5. E = Member
    BY <1>m, <2>2, <2>4
  <2> QED BY <2>5 DEF Complete
<1>12. Earlier(n) = E
  BY <1>5 DEF E
<1>13. \A A : (\A m \in Member : Edge(m, n) => m \in A) <=> first \subseteq A
  BY DEF Member
<1>14. \A m \in Member : Edge(m, n) => m \in E
  BY <1>10, <1>13
<1>15. E \subseteq Member
  BY <1>10 DEF V
<1> HIDE DEF first
<1> QED BY <1>10, <1>11, <1>12, <1>13, <1>14, <1>15

\* Where everybody waits for another, everybody is behind a cycle.
LEMMA BehindCycle ==
  ASSUME GroupOK, NEW L \in SUBSET Member, \A x \in L : \E m \in L : Edge(m, x), NEW n \in L
  PROVE  \E m \in {n} \cup Earlier(n) : m \in Earlier(m)
<1> SUFFICES ASSUME \A m \in {n} \cup Earlier(n) : m \notin Earlier(m) PROVE FALSE
  OBVIOUS
<1> DEFINE A == L \cap ({n} \cup Earlier(n))
           T == {Cardinality(Earlier(x)) : x \in A}
<1>1. IsFiniteSet(Member)
  BY LengthIs DEF GroupOK, Member
<1>2. \A x : /\ Earlier(x) \subseteq Member /\ Complete(Earlier(x))
             /\ \A m \in Member : Edge(m, x) => m \in Earlier(x)
  BY EarlierIs
<1>3. \A x : IsFiniteSet(Earlier(x)) /\ Cardinality(Earlier(x)) \in Nat
  <2> SUFFICES ASSUME NEW x PROVE IsFiniteSet(Earlier(x)) /\ Cardinality(Earlier(x)) \in Nat
    OBVIOUS
  <2>1. IsFiniteSet(Earlier(x))
    BY <1>1, <1>2, FS_Subset
  <2> QED BY <2>1, FS_CardinalityType
<1>4. PICK least \in T : \A k \in T : least <= k
  <2>1. T \in SUBSET Nat
    BY <1>3
  <2>2. T # {}
    OBVIOUS
  <2> HIDE DEF T
  <2> QED BY <2>1, <2>2, LeastNatural
<1>5. PICK x \in A : least = Cardinality(Earlier(x))
  OBVIOUS
<1>6. PICK m \in L : Edge(m, x)
  OBVIOUS
<1>7. m \in Member /\ m \in Earlier(x) /\ m \in A
  <2>1. m \in Member /\ m \in Earlier(x)
    BY <1>2, <1>6
  <2>2. CASE x = n
    BY <1>6, <2>1, <2>2
  <2>3. CASE x \in Earlier(n)
    <3>1. m \in Earlier(n)
      BY <1>2, <1>6, <2>1, <2>3 DEF Complete
    <3> QED BY <1>6, <2>1, <3>1
  <2> QED BY <2>1, <2>2, <2>3
<1>8. Earlier(m) \subseteq Earlier(x)
  <2>1. \A y \in Member : Edge(y, m) => y \in Earlier(x)
    BY <1>2, <1>7 DEF Complete
  <2>2. Earlier(x) \in SUBSET Member /\ Complete(Earlier(x))
    BY <1>2
  <2> QED BY <2>1, <2>2, EarlierIs
<1>9. m \notin Earlier(m)
  BY <1>7
<1>10. Cardinality(Earlier(m)) # Cardinality(Earlier(x)) /\ Cardinality(Earlier(m)) <= Cardinality(Earlier(x))
  BY <1>3, <1>7, <1>8, <1>9, FS_Subset
<1>11. Cardinality(Earlier(x)) <= Cardinality(Earlier(m))
  BY <1>4, <1>5, <1>7
<1> QED BY <1>3, <1>10, <1>11

\* Kahn's algorithm does what is asked of the chain.
LEMMA ChainIsRight == GroupOK => ChainRespectsConstraints
<1> SUFFICES ASSUME GroupOK PROVE ChainRespectsConstraints
  OBVIOUS
<1> DEFINE chain == ChainOrder
           fresh(n) == ~\E m \in {n} \cup Earlier(n) : m \in Earlier(m)
<1>1. PICK g : Pops(g) /\ ChainOrder = g[Len(byGroup)] \o Dropping(byGroup, ToSet(g[Len(byGroup)]))
  BY ChainPops
<1> DEFINE s == g[Len(byGroup)]
           rest == Dropping(byGroup, ToSet(s))
           n == Len(s)
           L == Member \ ToSet(s)
<1>2. Given(s) /\ Ready(s) = {}
  BY <1>1, QueueRunsDry
<1> HIDE DEF s
<1>3. s \in Seq(Member) /\ IsInjective(s) /\ n \in Nat /\ DOMAIN s = 1 .. n /\ ToSet(s) \subseteq Member
  <2>1. s \in Seq(Member) /\ IsInjective(s)
    BY <1>2 DEF Given
  <2>2. n \in Nat /\ DOMAIN s = 1 .. n /\ \A i \in 1 .. n : s[i] \in Member
    BY <2>1, LenProperties
  <2> QED BY <2>1, <2>2 DEF ToSet
<1>4. /\ byGroup \in Seq(Member) /\ IsInjective(byGroup)
      /\ rest \in Seq(Member) /\ ToSet(rest) = L /\ IsInjective(rest)
  <2>1. byGroup \in Seq(Member) /\ IsInjective(byGroup)
    <3>1. byGroup \in Seq(Names) /\ IsInjective(byGroup)
      BY DEF GroupOK
    <3>2. Len(byGroup) \in Nat /\ DOMAIN byGroup = 1 .. Len(byGroup) /\ byGroup \in [1 .. Len(byGroup) -> Names]
      BY <3>1, LenProperties
    <3>3. byGroup \in [1 .. Len(byGroup) -> Member]
      BY <3>2 DEF Member, ToSet
    <3> QED BY <3>1, <3>2, <3>3
  <2> QED BY <2>1, DroppingIs DEF Member
<1> HIDE DEF rest
<1>5. /\ chain \in Seq(Member) /\ IsInjective(chain) /\ ToSet(chain) = Member
  <2>1. chain = s \o rest
    BY <1>1 DEF s, rest
  <2>2. /\ s \o rest \in Seq(Member) /\ ToSet(s \o rest) = ToSet(s) \cup ToSet(rest)
        /\ IsInjective(s) /\ IsInjective(rest) /\ ToSet(s) \cap ToSet(rest) = {} => IsInjective(s \o rest)
    BY <1>3, <1>4, Joined
  <2>3. ToSet(s) \cap ToSet(rest) = {} /\ ToSet(s) \cup ToSet(rest) = Member
    BY <1>3, <1>4
  <2> HIDE DEF chain
  <2> QED BY <1>3, <1>4, <2>1, <2>2, <2>3
<1>6. \A i \in 1 .. n : i \in DOMAIN chain /\ chain[i] = s[i]
  <2>1. chain = s \o rest
    BY <1>1 DEF s, rest
  <2>2. Len(rest) \in Nat
    BY <1>4, LenProperties
  <2>3. /\ DOMAIN (s \o rest) = 1 .. n + Len(rest)
        /\ \A i \in 1 .. n + Len(rest) : (s \o rest)[i] = IF i <= n THEN s[i] ELSE rest[i - n]
    <3>1. /\ s \o rest \in Seq(Member) /\ Len(s \o rest) = n + Len(rest)
          /\ \A i \in 1 .. n + Len(rest) : (s \o rest)[i] = IF i <= n THEN s[i] ELSE rest[i - n]
      BY <1>3, <1>4, ConcatProperties
    <3>2. DOMAIN (s \o rest) = 1 .. Len(s \o rest)
      BY <3>1, LenProperties
    <3> QED BY <3>1, <3>2
  <2> HIDE DEF chain
  <2>4. \A i \in 1 .. n : i \in 1 .. n + Len(rest) /\ i <= n
    BY <1>3, <2>2
  <2> QED BY <2>1, <2>3, <2>4
<1> HIDE DEF chain
<1>7. Len(chain) \in Nat /\ DOMAIN chain = 1 .. Len(chain) /\ Len(chain) = Len(byGroup)
  <2>1. Len(chain) \in Nat /\ DOMAIN chain = 1 .. Len(chain)
    BY <1>5, LenProperties
  <2>2. Cardinality(Member) = Len(chain) /\ Cardinality(Member) = Len(byGroup)
    BY <1>4, <1>5, LengthIs DEF Member
  <2> QED BY <2>1, <2>2
<1>8. \A x \in L : \E m \in L : Edge(m, x)
  BY <1>2 DEF Ready, Member
<1>9. \A i \in DOMAIN chain : chain[i] \in Member /\ (chain[i] \in ToSet(s) => i \in 1 .. n)
  <2> SUFFICES ASSUME NEW i \in DOMAIN chain PROVE chain[i] \in Member /\ (chain[i] \in ToSet(s) => i \in 1 .. n)
    OBVIOUS
  <2>1. chain[i] \in Member
    BY <1>5 DEF ToSet
  <2>2. ASSUME chain[i] \in ToSet(s) PROVE i \in 1 .. n
    <3>1. PICK j \in 1 .. n : s[j] = chain[i]
      BY <1>3, <2>2 DEF ToSet
    <3>2. i = j
      BY <1>5, <1>6, <3>1 DEF IsInjective
    <3> QED BY <3>2
  <2> QED BY <2>1, <2>2
<1>10. ASSUME NEW i \in DOMAIN chain, NEW j \in DOMAIN chain, Edge(chain[i], chain[j]), fresh(chain[j])
       PROVE  i < j
  <2>1. chain[j] \in ToSet(s)
    <3> SUFFICES ASSUME chain[j] \in L PROVE FALSE
      BY <1>9
    <3>1. L \in SUBSET Member
      OBVIOUS
    <3> HIDE DEF L
    <3>2. \E m \in {chain[j]} \cup Earlier(chain[j]) : m \in Earlier(m)
      BY <1>8, <3>1, BehindCycle
    <3> QED BY <1>10, <3>2
  <2>2. j \in 1 .. n /\ chain[i] \in Member /\ s[j] = chain[j]
    BY <1>6, <1>9, <2>1
  <2>3. PICK k \in 1 .. j - 1 : s[k] = chain[i]
    BY <1>2, <1>10, <2>2 DEF Given
  <2>4. k \in 1 .. n /\ k < j
    BY <1>3, <2>2
  <2>5. k \in DOMAIN chain /\ chain[k] = chain[i]
    BY <1>6, <2>3, <2>4
  <2>6. k = i
    BY <1>5, <2>5 DEF IsInjective
  <2> QED BY <2>4, <2>6
<1>11. ASSUME Unbound, NEW i \in DOMAIN chain, NEW j \in DOMAIN chain, i < j
       PROVE  Precedes(chain[i], chain[j])
  <2>1. L = {}
    BY <1>8, <1>11 DEF Unbound
  <2>2. i \in 1 .. n /\ j \in 1 .. n /\ s[i] = chain[i] /\ s[j] = chain[j] /\ s[j] \in Member
    BY <1>6, <1>9, <2>1
  <2>3. \A k \in 1 .. i : k \in 1 .. n /\ k # j
    BY <1>3, <1>11, <2>2
  <2>4. s[j] \notin {s[k] : k \in 1 .. i}
    BY <1>3, <2>2, <2>3 DEF IsInjective
  <2> QED BY <1>2, <1>11, <2>2, <2>4 DEF Given
<1>12. ToSet(chain) = ToSet(byGroup)
  BY <1>5 DEF Member
<1>13. (\A m, k \in ToSet(byGroup) : ~Edge(m, k)) <=> Unbound
  BY DEF Unbound, Member
<1> HIDE DEF L, n
<1> QED BY <1>7, <1>10, <1>11, <1>12, <1>13 DEF ChainRespectsConstraints, chain

\* Whatever is registered, a chain has every member once, keeps every constraint that no
\* cycle stands in the way of, and is otherwise in the default order.
THEOREM ChainsInOrder == RegistrySpec => []ChainRespectsConstraints
<1>1. RegistryInv => GroupOK
  BY DEF RegistryInv, RegistryTypeOK, TablesAgree, GroupOK
<1>2. RegistryInv => ChainRespectsConstraints
  BY <1>1, ChainIsRight
<1> QED BY <1>2, RegistryStarts, RegistryStep, PTL DEF RegistrySpec

\* The registry, after any registrations and unregistrations: its tables tell the same,
\* and the chain keeps its constraints.
THEOREM RegistryStaysSound == RegistrySpec => []RegistrySound
<1>1. TablesAgree /\ ChainRespectsConstraints => RegistrySound
  BY DEF RegistrySound
<1> QED BY <1>1, TablesTellOneStory, ChainsInOrder, PTL

-----------------------------------------------------------------------------
(* Discovery                                                                 *)

\* The graph of needs is one of packages.
NeedsOK == IsFiniteSet(Package) /\ \A p \in Package : Requires(p) \subseteq Package

\* The levels of Kahn's algorithm
Level(g, n) ==
  /\ n \in Nat /\ g \in [0 .. n -> SUBSET Package] /\ g[0] = {}
  /\ \A k \in 1 .. n : g[k] = {p \in Package : Requires(p) \subseteq g[k - 1]}

\* What is reached is reached level by level.
LEMMA ReachedByLevel == NeedsOK => \E n, g : Level(g, n) /\ Reached(Package) = g[n]
<1> SUFFICES ASSUME NeedsOK PROVE \E n, g : Level(g, n) /\ Reached(Package) = g[n]
  OBVIOUS
<1> DEFINE n == Cardinality(Package)
           Step(g, k) == IF k = 0 THEN {} ELSE {p \in Package : Requires(p) \cap Package \subseteq g[k - 1]}
           Right(g) == g = [k \in 0 .. n |-> Step(g, k)]
           Next1(v) == {p \in Package : Requires(p) \cap Package \subseteq v}
           V == SUBSET Package
           F == [k \in 1 .. n |-> [v \in V |-> Next1(v)]]
<1>1. n \in Nat
  BY FS_CardinalityType DEF NeedsOK
<1>2. (\A v \in V : Next1(v) \in V) /\ {} \in V
  OBVIOUS
<1> HIDE DEF n, V
<1>3. \E g : Right(g) /\ g \in [0 .. n -> V]
  <2>1. F \in Steps(n, V)
    <3> HIDE DEF Next1
    <3> QED BY <1>2 DEF Steps
  <2> HIDE DEF F, Step, Next1
  <2>3. PICK g \in [0 .. n -> V] : g[0] = {} /\ \A k \in 1 .. n : g[k] = F[k][g[k - 1]]
    <3>1. Walks(n, V, {}, F)
      BY <1>1, <1>2, <2>1, Iterated
    <3> QED BY <3>1 DEF Walks
  <2>4. ASSUME NEW k \in 0 .. n PROVE g[k] = Step(g, k)
    <3>1. CASE k = 0
      BY <2>3, <3>1 DEF Step
    <3>2. CASE k # 0
      <4>1. k \in 1 .. n /\ g[k - 1] \in V
        BY <1>1, <3>2
      <4>2. g[k] = Next1(g[k - 1])
        BY <2>3, <4>1 DEF F
      <4> QED BY <3>2, <4>2 DEF Step, Next1
    <3> QED BY <3>1, <3>2
  <2>5. g = [k \in 0 .. n |-> g[k]]
    OBVIOUS
  <2>6. [k \in 0 .. n |-> g[k]] = [k \in 0 .. n |-> Step(g, k)]
    BY <2>4
  <2>7. Right(g)
    BY <2>5, <2>6
  <2> HIDE DEF Right
  <2> QED BY <2>7
<1> DEFINE f == CHOOSE g : Right(g)
<1>4. Right(f)
  <2> HIDE DEF Right
  <2> QED BY <1>3
<1>5. Reached(Package) = f[n]
  BY DEF Reached, n
<1>6. f[0] = {} /\ \A k \in 1 .. n : f[k] = Next1(f[k - 1])
  <2> DEFINE h == [k \in 0 .. n |-> Step(f, k)]
  <2>1. \A k \in 0 .. n : h[k] = Step(f, k)
    OBVIOUS
  <2>2. f = h
    BY <1>4
  <2> HIDE DEF h, f
  <2>3. \A k \in 0 .. n : f[k] = Step(f, k)
    BY <2>1, <2>2
  <2>4. 0 \in 0 .. n /\ \A k \in 1 .. n : k \in 0 .. n /\ k # 0
    BY <1>1
  <2> QED BY <2>3, <2>4
<1>7. f = [k \in 0 .. n |-> f[k]]
  <2> DEFINE h == [k \in 0 .. n |-> Step(f, k)]
  <2>1. f = h
    BY <1>4
  <2> HIDE DEF f, Step
  <2> QED BY <2>1
<1> HIDE DEF f, F, Right, Step
<1>8. \A k \in 0 .. n : f[k] \in SUBSET Package
  <2> SUFFICES ASSUME NEW k \in 0 .. n PROVE f[k] \in SUBSET Package
    OBVIOUS
  <2>1. CASE k = 0
    BY <1>6, <2>1
  <2>2. CASE k # 0
    BY <1>1, <1>6, <2>2
  <2> QED BY <2>1, <2>2
<1>9. f \in [0 .. n -> SUBSET Package]
  BY <1>7, <1>8
<1>10. \A k \in 1 .. n : f[k] = {p \in Package : Requires(p) \subseteq f[k - 1]}
  BY <1>6 DEF NeedsOK
<1> QED BY <1>1, <1>5, <1>6, <1>9, <1>10 DEF Level

\* Each level is within the next.
LEMMA LevelsGrow ==
  ASSUME NEW n, NEW g, Level(g, n)
  PROVE  \A k \in 1 .. n : g[k - 1] \subseteq g[k]
<1> DEFINE T == {k \in Nat : k + 1 \in 1 .. n => g[k] \subseteq g[k + 1]}
<1>1. 0 \in T
  BY DEF Level
<1>2. ASSUME NEW k \in Nat, k \in T PROVE k + 1 \in T
  <2> SUFFICES ASSUME (k + 1) + 1 \in 1 .. n PROVE g[k + 1] \subseteq g[(k + 1) + 1]
    OBVIOUS
  <2>1. k + 1 \in 1 .. n /\ (k + 1) - 1 = k /\ ((k + 1) + 1) - 1 = k + 1
    BY DEF Level
  <2>2. g[k] \subseteq g[k + 1]
    BY <1>2, <2>1
  <2>3. g[k + 1] = {p \in Package : Requires(p) \subseteq g[k]}
    BY <2>1 DEF Level
  <2>4. g[(k + 1) + 1] = {p \in Package : Requires(p) \subseteq g[k + 1]}
    BY <2>1 DEF Level
  <2> QED BY <2>2, <2>3, <2>4
<1>3. \A k \in Nat : k \in T
  <2> HIDE DEF T
  <2> QED BY <1>1, <1>2, ByStep
<1>4. ASSUME NEW k \in 1 .. n PROVE g[k - 1] \subseteq g[k]
  <2>1. k - 1 \in Nat /\ (k - 1) + 1 = k /\ n \in Nat
    BY DEF Level
  <2>2. k - 1 \in T
    BY <1>3, <2>1
  <2> QED BY <2>1, <2>2
<1> QED BY <1>4

\* Among packages that are on no cycle and need none that is, one needs none of the others.
LEMMA OneIsFirst ==
  ASSUME NeedsOK, NEW L, L \subseteq Package \ Cycles, L # {}
  PROVE  \E p \in L : Requires(p) \cap L = {}
<1>1. PICK n, g : Level(g, n) /\ Reached(Package) = g[n]
  BY ReachedByLevel
<1>2. L \subseteq g[n]
  BY <1>1 DEF Cycles
<1> DEFINE T == {k \in 0 .. n : L \cap g[k] # {}}
<1>3. PICK k \in T : \A j \in T : k <= j
  <2>1. n \in T /\ T \in SUBSET Nat
    BY <1>1, <1>2 DEF Level
  <2> HIDE DEF T
  <2> QED BY <2>1, LeastNatural
<1>4. k \in 1 .. n
  BY <1>1, <1>3 DEF Level
<1>5. k - 1 \in 0 .. n /\ ~(k <= k - 1)
  BY <1>1, <1>4 DEF Level
<1>6. L \cap g[k - 1] = {}
  BY <1>3, <1>5
<1>7. PICK p \in L : p \in g[k]
  BY <1>3
<1>8. Requires(p) \subseteq g[k - 1]
  BY <1>1, <1>4, <1>7 DEF Level
<1> QED BY <1>6, <1>7, <1>8

\* What is needed however far down is within every set that has what p needs and all
\* that its members need.
LEMMA BelowIsWithin ==
  ASSUME NeedsOK, NEW p \in Package, NEW A \in SUBSET Package, Requires(p) \subseteq A,
         \A d \in A : Requires(d) \subseteq A
  PROVE  Below(p) \subseteq A
<1> DEFINE n == Cardinality(Package)
           Step(g, k) == IF k = 0 THEN Requires(p) ELSE g[k - 1] \cup UNION {Requires(d) : d \in g[k - 1]}
           Right(g) == g = [k \in 0 .. n |-> Step(g, k)]
           Next1(v) == v \cup UNION {Requires(d) : d \in v}
           V == SUBSET Package
           F == [k \in 1 .. n |-> [v \in V |-> Next1(v)]]
<1>1. n \in Nat
  BY FS_CardinalityType DEF NeedsOK
<1>2. (\A v \in V : Next1(v) \in V) /\ Requires(p) \in V
  BY DEF NeedsOK
<1> HIDE DEF n, V
<1>3. \E g : Right(g)
  <2>1. F \in Steps(n, V)
    <3> HIDE DEF Next1
    <3> QED BY <1>2 DEF Steps
  <2> HIDE DEF F, Step, Next1
  <2>3. PICK g \in [0 .. n -> V] : g[0] = Requires(p) /\ \A k \in 1 .. n : g[k] = F[k][g[k - 1]]
    <3>1. Walks(n, V, Requires(p), F)
      BY <1>1, <1>2, <2>1, Iterated
    <3> QED BY <3>1 DEF Walks
  <2>4. ASSUME NEW k \in 0 .. n PROVE g[k] = Step(g, k)
    <3>1. CASE k = 0
      BY <2>3, <3>1 DEF Step
    <3>2. CASE k # 0
      <4>1. k \in 1 .. n /\ g[k - 1] \in V
        BY <1>1, <3>2
      <4>2. g[k] = Next1(g[k - 1])
        BY <2>3, <4>1 DEF F
      <4> QED BY <3>2, <4>2 DEF Step, Next1
    <3> QED BY <3>1, <3>2
  <2>5. g = [k \in 0 .. n |-> g[k]]
    OBVIOUS
  <2>6. [k \in 0 .. n |-> g[k]] = [k \in 0 .. n |-> Step(g, k)]
    BY <2>4
  <2>7. Right(g)
    BY <2>5, <2>6
  <2> HIDE DEF Right
  <2> QED BY <2>7
<1> DEFINE f == CHOOSE g : Right(g)
<1>4. Right(f)
  <2> HIDE DEF Right
  <2> QED BY <1>3
<1>5. Below(p) = f[n]
  BY DEF Below, n
<1>6. f[0] = Requires(p) /\ \A k \in 1 .. n : f[k] = Next1(f[k - 1])
  <2> DEFINE h == [k \in 0 .. n |-> Step(f, k)]
  <2>1. \A k \in 0 .. n : h[k] = Step(f, k)
    OBVIOUS
  <2>2. f = h
    BY <1>4
  <2> HIDE DEF h, f
  <2>3. \A k \in 0 .. n : f[k] = Step(f, k)
    BY <2>1, <2>2
  <2>4. 0 \in 0 .. n /\ \A k \in 1 .. n : k \in 0 .. n /\ k # 0
    BY <1>1
  <2> QED BY <2>3, <2>4
<1> HIDE DEF f, F, Right, Step
<1> DEFINE T == {k \in Nat : f[k] \subseteq A}
<1>7. 0 \in T
  BY <1>6
<1>8. ASSUME NEW k \in 0 .. n - 1, k \in T PROVE k + 1 \in T
  <2>1. k + 1 \in 1 .. n /\ (k + 1) - 1 = k /\ k + 1 \in Nat
    BY <1>1
  <2>2. f[k + 1] = Next1(f[k])
    BY <1>6, <2>1
  <2>3. f[k] \subseteq A
    BY <1>8
  <2> HIDE DEF f
  <2>4. Next1(f[k]) \subseteq A
    BY <2>3
  <2> QED BY <2>1, <2>2, <2>4
<1>9. n \in T
  <2> HIDE DEF T
  <2> QED BY <1>1, <1>7, <1>8, UpTo
<1> QED BY <1>5, <1>9

\* A package that is on no cycle and needs none that is does not need itself.
LEMMA NotBelowItself ==
  ASSUME NeedsOK, NEW p \in Package \ Cycles
  PROVE  p \notin Below(p)
<1>1. PICK n, g : Level(g, n) /\ Reached(Package) = g[n]
  BY ReachedByLevel
<1> DEFINE T == {k \in 0 .. n : p \in g[k]}
<1>2. PICK k \in T : \A j \in T : k <= j
  <2>1. n \in T /\ T \in SUBSET Nat
    BY <1>1 DEF Level, Cycles
  <2> HIDE DEF T
  <2> QED BY <2>1, LeastNatural
<1>3. k \in 1 .. n
  BY <1>1, <1>2 DEF Level
<1>4. k - 1 \in 0 .. n /\ ~(k <= k - 1)
  BY <1>1, <1>3 DEF Level
<1>5. p \notin g[k - 1]
  BY <1>2, <1>4
<1>6. Requires(p) \subseteq g[k - 1] /\ g[k - 1] \in SUBSET Package
  BY <1>1, <1>2, <1>3, <1>4 DEF Level
<1>7. ASSUME NEW d \in g[k - 1] PROVE Requires(d) \subseteq g[k - 1]
  <2>1. k - 1 \in 1 .. n
    BY <1>1, <1>3, <1>4, <1>7 DEF Level
  <2>2. Requires(d) \subseteq g[(k - 1) - 1]
    BY <1>1, <1>7, <2>1 DEF Level
  <2>3. g[(k - 1) - 1] \subseteq g[k - 1]
    BY <1>1, <2>1, LevelsGrow
  <2> QED BY <2>2, <2>3
<1>8. Below(p) \subseteq g[k - 1]
  BY <1>6, <1>7, BelowIsWithin
<1> QED BY <1>5, <1>8

-----------------------------------------------------------------------------
\* What is known of the packages read so far: they have a status that is theirs, and
\* what is turned down for its needs is INCOMPATIBLE.
StatusInv ==
  /\ pass \in {"read", "cascade", "close"} =>
       \A p \in Package : status[p] \in {"unread", "INCOMPATIBLE"} \cup Determine(p, 0)
  /\ pass # "read" => \A p \in Package : status[p] # "unread"

\* What stands once the cascade is over needs only what fits and is on no cycle if it
\* is loaded; until it is judged again, what it needs is loaded or does not stand.
NeedsInv ==
  /\ pass \in {"close", "again", "done"} =>
       \A p \in Package :
         /\ Stands(p) => \A d \in Requires(p) : manifest[d].fits
         /\ status[p] = "LOADED" => p \notin Cycles
  /\ pass = "close" =>
       \A p \in Package : Stands(p) => \A d \in Requires(p) : status[d] = "LOADED" \/ ~Stands(d)

\* The order closes what is needed first, and nobody has less than what they need.
OrderInv ==
  /\ pass \in {"read", "cascade"} => closed = {}
  /\ pass = "close" => \A p \in closed : Stands(p) /\ \A d \in Requires(p) : Stands(d) => d \in closed
  /\ pass \in {"again", "done"} => \A p \in Package : Stands(p) => p \in closed

PowerInv ==
  /\ \A p \in closed : /\ manifest[p].power <= effective[p]
                       /\ \A d \in Requires(p) : d \in closed => effective[d] <= effective[p]
  /\ pass \in {"again", "done"} =>
       \A p \in Package :
         status[p] = "LOADED" /\ manifest[p].record = "none" /\ ~manifest[p].empty =>
           effective[p] <= manifest[p].power

LoadInv ==
  /\ DiscoveryTypeOK /\ StatusInv /\ NeedsInv /\ OrderInv /\ PowerInv
  /\ pass = "done" => \A p \in Package : ~Unmet(p)

\* What a package is, as far as it is asked
LEMMA Kinded ==
  ASSUME DiscoveryTypeOK
  PROVE  /\ NeedsOK /\ policy \in {"all", "dangerous", "none"}
         /\ \A p \in Package : /\ manifest[p].power \in 0 .. 2 /\ manifest[p].signed \in BOOLEAN
                               /\ manifest[p].empty \in BOOLEAN
                               /\ manifest[p].record \in {"none", "same", "changed", "unverified"}
<1>1. manifest \in [Package -> [power : 0 .. 2, signed : BOOLEAN, empty : BOOLEAN, fits : BOOLEAN,
                       fault : {"none", "unreadable", "malformed", "stranger", "engine"},
                       record : {"none", "same", "changed", "unverified"}]]
  BY DiscoveryAssumption DEF DiscoveryTypeOK
<1>2. needs \in [Package -> SUBSET Package] /\ policy \in {"all", "dangerous", "none"}
  BY DiscoveryAssumption DEF DiscoveryTypeOK
<1>3. NeedsOK
  BY <1>2, DiscoveryAssumption DEF NeedsOK, Requires
<1> QED BY <1>1, <1>2, <1>3

\* A verdict is a status that is not "unread".
LEMMA VerdictIsStatus ==
  ASSUME DiscoveryTypeOK, NEW p \in Package, NEW level
  PROVE  Determine(p, level) \subseteq {"LOADED", "PENDING_REVIEW", "DISABLED", "INCOMPATIBLE", "FAILED"}
<1> DEFINE m == manifest[p]
<1>1. /\ policy \in {"all", "dangerous", "none"} /\ m.power \in 0 .. 2
      /\ m.record \in {"none", "same", "changed", "unverified"}
  BY Kinded
<1> HIDE DEF m
<1>2. m.record # "none" => Trusted(m) \subseteq {"LOADED", "PENDING_REVIEW", "FAILED"}
  BY <1>1 DEF Trusted
<1>3. ByPolicy(m) \subseteq {"LOADED", "PENDING_REVIEW", "INCOMPATIBLE"}
  <2>1. m.power = 0 \/ m.power = 1 \/ m.power = 2
    BY <1>1
  <2> QED BY <1>1, <2>1 DEF ByPolicy
<1>4. Untrusted(m, level) \subseteq {"LOADED", "PENDING_REVIEW", "INCOMPATIBLE", "FAILED"}
  BY <1>3 DEF Untrusted
<1> QED BY <1>2, <1>4 DEF Determine, m

\* Who gains power is loaded only if they were to be loaded without it: they have a
\* record that is still true, or nothing to offer.
LEMMA GainedIsLoaded ==
  ASSUME DiscoveryTypeOK, NEW p \in Package, NEW level \in 0 .. 2, level > manifest[p].power,
         "LOADED" \in Determine(p, level)
  PROVE  Determine(p, 0) = {"LOADED"} /\ (manifest[p].record # "none" \/ manifest[p].empty)
<1> DEFINE m == manifest[p]
<1>1. /\ m.power \in 0 .. 2 /\ m.empty \in BOOLEAN /\ m.signed \in BOOLEAN
      /\ m.record \in {"none", "same", "changed", "unverified"}
  BY Kinded
<1>2. level > m.power
  OBVIOUS
<1>3. p \notin disabled /\ m.fault # "engine"
  BY DEF Determine
<1>4. "LOADED" \in IF m.record # "none" THEN Trusted(m) ELSE Untrusted(m, level)
  BY <1>3 DEF Determine
<1>5. Determine(p, 0) = IF m.record # "none" THEN Trusted(m) ELSE Untrusted(m, 0)
  BY <1>3 DEF Determine
<1> HIDE DEF m
<1>6. CASE m.record # "none"
  <2>1. Trusted(m) = {"LOADED"}
    BY <1>1, <1>4, <1>6 DEF Trusted
  <2> QED BY <1>5, <1>6, <2>1 DEF m
<1>7. CASE m.record = "none"
  <2>1. m.empty
    BY <1>2, <1>4, <1>7 DEF Untrusted
  <2>2. Untrusted(m, 0) = {"LOADED"}
    BY <2>1 DEF Untrusted
  <2> QED BY <1>5, <1>7, <2>1, <2>2 DEF m
<1> QED BY <1>6, <1>7

\* The properties of the end follow.
LEMMA LoadIsSound == LoadInv => LoadingSound
<1> SUFFICES ASSUME LoadInv PROVE LoadingSound
  OBVIOUS
<1>1. NeedsOK /\ DiscoveryTypeOK
  BY Kinded DEF LoadInv
<1>2. OrderGoesOn
  <2> DEFINE left == {p \in Package : Stands(p)} \ closed
  <2> SUFFICES ASSUME pass = "close", left # {} PROVE \E p \in left : Requires(p) \cap left = {}
    BY DEF OrderGoesOn
  <2>1. \A p \in left : \A d \in Requires(p) \cap left : d \notin Cycles
    BY DEF LoadInv, NeedsInv
  <2>2. CASE left \ Cycles = {}
    BY <2>1, <2>2
  <2>3. CASE left \ Cycles # {}
    <3> DEFINE L == left \ Cycles
    <3>1. L \subseteq Package \ Cycles
      OBVIOUS
    <3>2. PICK p \in L : Requires(p) \cap L = {}
      <4> HIDE DEF L
      <4> QED BY <1>1, <2>3, <3>1, OneIsFirst DEF L
    <3>3. Requires(p) \cap left = {}
      BY <2>1, <3>2
    <3> QED BY <3>2, <3>3
  <2> QED BY <2>2, <2>3
<1> SUFFICES ASSUME pass = "done" PROVE LoadedIsClosed /\ NoBorrowedPower
  BY <1>2 DEF LoadingSound, LoadedIsClosed, NoBorrowedPower
<1> DEFINE A == {d \in Package : status[d] = "LOADED"}
<1>3. \A p \in Package : Stands(p) => Requires(p) \subseteq A /\ p \in closed /\ \A d \in Requires(p) : manifest[d].fits
  BY <1>1 DEF LoadInv, Unmet, NeedsInv, OrderInv, NeedsOK
<1>4. \A p \in A : Stands(p) /\ p \in Package
  BY DEF Stands
<1>5. ASSUME NEW p \in Package, Stands(p) PROVE Below(p) \subseteq A
  <2>1. A \in SUBSET Package /\ Requires(p) \subseteq A /\ \A d \in A : Requires(d) \subseteq A
    BY <1>3, <1>4, <1>5
  <2> HIDE DEF A
  <2> QED BY <1>1, <2>1, BelowIsWithin
<1>6. ASSUME NEW p \in Package, Stands(p) PROVE \A d \in Below(p) : manifest[d].fits
  <2> DEFINE B == {d \in A : manifest[d].fits}
  <2>1. B \in SUBSET Package /\ Requires(p) \subseteq B /\ \A d \in B : Requires(d) \subseteq B
    BY <1>3, <1>4, <1>6
  <2>2. Below(p) \subseteq B
    <3> HIDE DEF B
    <3> QED BY <1>1, <2>1, BelowIsWithin
  <2> QED BY <2>2
<1>7. ASSUME NEW p \in A PROVE p \notin Below(p)
  <2>1. p \in Package \ Cycles
    BY DEF LoadInv, NeedsInv
  <2> QED BY <1>1, <2>1, NotBelowItself
<1>8. LoadedIsClosed
  <2> SUFFICES ASSUME NEW p \in Package
               PROVE  /\ status[p] = "LOADED" => p \notin Below(p) /\ \A d \in Below(p) : status[d] = "LOADED" /\ manifest[d].fits
                      /\ status[p] = "PENDING_REVIEW" => \A d \in Below(p) : status[d] = "LOADED"
    BY DEF LoadedIsClosed
  <2>1. status[p] \in {"LOADED", "PENDING_REVIEW"} => Stands(p)
    BY DEF Stands
  <2> QED BY <1>5, <1>6, <1>7, <2>1
<1>9. NoBorrowedPower
  <2> SUFFICES ASSUME NEW p \in Package, status[p] = "LOADED", manifest[p].record = "none", ~manifest[p].empty,
                      NEW d \in Below(p)
               PROVE  manifest[d].power <= manifest[p].power
    BY DEF NoBorrowedPower
  <2> DEFINE B == {x \in A : x \in closed /\ effective[x] <= effective[p]}
  <2>1. effective \in [Package -> 0 .. 2] /\ p \in A /\ Stands(p)
    BY <1>1, <1>4 DEF DiscoveryTypeOK
  <2>2. effective[p] <= manifest[p].power
    BY DEF LoadInv, PowerInv
  <2>3. \A x \in closed : manifest[x].power <= effective[x] /\ \A y \in Requires(x) : y \in closed => effective[y] <= effective[x]
    BY DEF LoadInv, PowerInv
  <2>4. \A x \in A : Requires(x) \subseteq A /\ x \in closed
    BY <1>3, <1>4
  <2>5. Requires(p) \subseteq B
    BY <2>1, <2>3, <2>4
  <2>6. ASSUME NEW x \in B PROVE Requires(x) \subseteq B
    <3> SUFFICES ASSUME NEW y \in Requires(x) PROVE y \in B
      OBVIOUS
    <3>1. y \in A /\ y \in closed /\ effective[y] <= effective[x] /\ effective[x] <= effective[p]
      BY <2>3, <2>4
    <3>2. effective[y] \in Nat /\ effective[x] \in Nat /\ effective[p] \in Nat
      BY <2>1, <3>1
    <3> QED BY <3>1, <3>2
  <2>7. B \in SUBSET Package
    OBVIOUS
  <2>8. Below(p) \subseteq B
    <3> HIDE DEF B
    <3> QED BY <1>1, <2>5, <2>6, <2>7, BelowIsWithin
  <2>9. d \in Package /\ effective[d] <= effective[p] /\ manifest[d].power <= effective[d]
    BY <2>3, <2>8
  <2>10. effective[d] \in Nat /\ effective[p] \in Nat /\ manifest[d].power \in Nat /\ manifest[p].power \in Nat
    BY <1>1, <2>1, <2>9, Kinded
  <2> QED BY <2>2, <2>9, <2>10
<1> QED BY <1>8, <1>9

\* What is installed is in order before anything is read.
LEMMA LoadStarts == DiscoveryInit => LoadInv
<1> SUFFICES ASSUME DiscoveryInit PROVE LoadInv
  OBVIOUS
<1>1. DiscoveryTypeOK
  BY DEF DiscoveryInit, DiscoveryTypeOK, Status
<1>2. StatusInv
  BY DEF DiscoveryInit, StatusInv
<1> QED BY <1>1, <1>2 DEF DiscoveryInit, LoadInv, NeedsInv, OrderInv, PowerInv

\* What is asked of what is installed has the same answer after a step.
LEMMA InstalledStays ==
  ASSUME UNCHANGED installed
  PROVE  /\ Cycles' = Cycles /\ \A p : Requires(p)' = Requires(p)
         /\ \A p, level : Determine(p, level)' = Determine(p, level)
<1>1. manifest' = manifest /\ needs' = needs /\ policy' = policy /\ disabled' = disabled
  BY DEF installed
<1>2. \A p : Requires(p)' = Requires(p)
  BY <1>1 DEF Requires
<1>3. Cycles' = Cycles
  BY <1>1 DEF Cycles, Reached, Requires
<1>4. \A p, level : Determine(p, level)' = Determine(p, level)
  BY <1>1 DEF Determine, Trusted, Untrusted, ByPolicy
<1> QED BY <1>2, <1>3, <1>4

\* To read a manifest gives its package a status of its own,
LEMMA ReadKeeps ==
  ASSUME LoadInv, NEW p \in Package, ReadManifest(p)
  PROVE  LoadInv'
<1>1. UNCHANGED installed /\ UNCHANGED <<effective, pass, closed>> /\ pass = "read"
  BY DEF ReadManifest
<1>2. manifest' = manifest /\ needs' = needs /\ policy' = policy /\ disabled' = disabled
  BY <1>1 DEF installed
<1>3. PICK s \in Determine(p, 0) \cup {"INCOMPATIBLE"} : status' = [status EXCEPT ![p] = s]
  BY DEF ReadManifest
<1>4. DiscoveryTypeOK /\ DiscoveryTypeOK'
  <2>1. s \in Status
    BY <1>3, VerdictIsStatus DEF Status, LoadInv
  <2> QED BY <1>1, <1>2, <1>3, <2>1 DEF LoadInv, DiscoveryTypeOK
<1>5. StatusInv'
  BY <1>1, <1>3, <1>4, InstalledStays DEF LoadInv, StatusInv, DiscoveryTypeOK
<1>6. NeedsInv'
  BY <1>1 DEF NeedsInv
<1>7. OrderInv'
  BY <1>1 DEF LoadInv, OrderInv
<1>8. PowerInv'
  BY <1>1 DEF LoadInv, OrderInv, PowerInv
<1> QED BY <1>1, <1>4, <1>5, <1>6, <1>7, <1>8 DEF LoadInv

\* and the end of the reading changes none.
LEMMA AllReadKeeps == LoadInv /\ AllRead => LoadInv'
<1> SUFFICES ASSUME LoadInv, AllRead PROVE LoadInv'
  OBVIOUS
<1>1. UNCHANGED installed /\ UNCHANGED <<status, effective, closed>> /\ pass = "read" /\ pass' = "cascade"
  BY DEF AllRead, Goto
<1>2. manifest' = manifest /\ needs' = needs /\ policy' = policy /\ disabled' = disabled
  BY <1>1 DEF installed
<1>3. DiscoveryTypeOK'
  BY <1>1, <1>2 DEF LoadInv, DiscoveryTypeOK
<1>4. StatusInv'
  BY <1>1, InstalledStays DEF LoadInv, StatusInv, AllRead
<1>5. NeedsInv' /\ OrderInv' /\ PowerInv'
  BY <1>1 DEF LoadInv, NeedsInv, OrderInv, PowerInv
<1> QED BY <1>1, <1>3, <1>4, <1>5 DEF LoadInv

\* A package that is turned down gives nobody else a thing.
LEMMA CascadeKeeps ==
  ASSUME LoadInv, NEW p \in Package, Cascade(p)
  PROVE  LoadInv'
<1>1. UNCHANGED installed /\ UNCHANGED <<effective, pass, closed>> /\ pass \in {"cascade", "again"}
      /\ status' = [status EXCEPT ![p] = "INCOMPATIBLE"]
  BY DEF Cascade
<1>2. manifest' = manifest /\ needs' = needs /\ policy' = policy /\ disabled' = disabled
  BY <1>1 DEF installed
<1>3. DiscoveryTypeOK'
  BY <1>1, <1>2 DEF LoadInv, DiscoveryTypeOK, Status
<1>4. \A q \in Package : /\ status'[q] \in {status[q], "INCOMPATIBLE"}
                         /\ Stands(q)' => Stands(q)
                         /\ status'[q] = "LOADED" => status[q] = "LOADED"
  BY <1>1 DEF Stands, LoadInv, DiscoveryTypeOK
<1>5. StatusInv'
  BY <1>1, <1>4, InstalledStays DEF LoadInv, StatusInv
<1>6. NeedsInv'
  BY <1>1, <1>2, <1>4, InstalledStays DEF LoadInv, NeedsInv
<1>7. OrderInv'
  BY <1>1, <1>4 DEF LoadInv, OrderInv
<1>8. PowerInv'
  BY <1>1, <1>2, <1>4, InstalledStays DEF LoadInv, PowerInv
<1> QED BY <1>1, <1>3, <1>5, <1>6, <1>7, <1>8 DEF LoadInv

\* After the cascade what stands needs what is loaded, but for what is on a cycle.
LEMMA CascadeEndsKeeps == LoadInv /\ CascadeEnds => LoadInv'
<1> SUFFICES ASSUME LoadInv, CascadeEnds PROVE LoadInv'
  OBVIOUS
<1>1. /\ UNCHANGED installed /\ UNCHANGED <<effective, closed>> /\ pass = "cascade" /\ pass' = "close"
      /\ status' = [p \in Package |-> IF p \in Cycles /\ status[p] = "LOADED" THEN "INCOMPATIBLE" ELSE status[p]]
      /\ \A p \in Package : ~Unmet(p)
  BY DEF CascadeEnds, Goto
<1>2. manifest' = manifest /\ needs' = needs /\ policy' = policy /\ disabled' = disabled
  BY <1>1 DEF installed
<1>3. closed' = {} /\ NeedsOK
  BY <1>1, Kinded DEF LoadInv, OrderInv
<1>4. \A q \in Package : /\ status'[q] = (IF q \in Cycles /\ status[q] = "LOADED" THEN "INCOMPATIBLE" ELSE status[q])
                         /\ Stands(q)' => Stands(q)
                         /\ status'[q] = "LOADED" => q \notin Cycles
  BY <1>1 DEF Stands
<1>5. DiscoveryTypeOK'
  BY <1>1, <1>2 DEF LoadInv, DiscoveryTypeOK, Status
<1>6. StatusInv'
  BY <1>1, <1>4, InstalledStays DEF LoadInv, StatusInv
<1>7. \A q \in Package : Stands(q) => \A d \in Requires(q) : status[d] = "LOADED" /\ manifest[d].fits
  BY <1>1 DEF Unmet
<1>8. NeedsInv'
  <2>1. \A q \in Package : Stands(q)' => \A d \in Requires(q) : manifest[d].fits
    BY <1>4, <1>7
  <2>2. \A q \in Package : Stands(q)' => \A d \in Requires(q) : status'[d] = "LOADED" \/ ~Stands(d)'
    <3> SUFFICES ASSUME NEW q \in Package, Stands(q)', NEW d \in Requires(q) PROVE status'[d] = "LOADED" \/ ~Stands(d)'
      OBVIOUS
    <3>1. d \in Package /\ status[d] = "LOADED"
      BY <1>3, <1>4, <1>7 DEF NeedsOK
    <3>2. status'[d] = "LOADED" \/ status'[d] = "INCOMPATIBLE"
      BY <1>4, <3>1
    <3> QED BY <3>2 DEF Stands
  <2> QED BY <1>1, <1>2, <1>4, <2>1, <2>2, InstalledStays DEF NeedsInv
<1>9. OrderInv' /\ PowerInv'
  BY <1>1, <1>3 DEF OrderInv, PowerInv
<1> QED BY <1>1, <1>5, <1>6, <1>8, <1>9 DEF LoadInv

\* The greatest of some levels is one of them, and none is greater.
LEMMA MostIs ==
  ASSUME NEW levels \in SUBSET (0 .. 2), levels # {}
  PROVE  Most(levels) \in levels /\ \A k \in levels : k <= Most(levels)
<1>1. \E n \in levels : \A k \in levels : k <= n
  <2>1. CASE 2 \in levels
    BY <2>1
  <2>2. CASE 2 \notin levels /\ 1 \in levels
    BY <2>2
  <2>3. CASE 2 \notin levels /\ 1 \notin levels
    <3>1. 0 .. 2 = {0, 1, 2}
      OBVIOUS
    <3>2. \A k \in levels : k = 0
      BY <2>3, <3>1
    <3>3. PICK x \in levels : TRUE
      OBVIOUS
    <3>4. 0 \in levels
      BY <3>2, <3>3
    <3> QED BY <3>2, <3>4
  <2> QED BY <2>1, <2>2, <2>3
<1> QED BY <1>1 DEF Most

\* A package is closed after those it needs, and with no less power than theirs.
LEMMA CloseKeeps ==
  ASSUME LoadInv, NEW p \in Package, Close1(p)
  PROVE  LoadInv'
<1>1. /\ UNCHANGED installed /\ UNCHANGED <<status, pass>> /\ pass = "close" /\ p \notin closed /\ Stands(p)
      /\ \A d \in Requires(p) : Stands(d) => d \in closed
      /\ effective' = [effective EXCEPT ![p] = Borrowed(p)] /\ closed' = closed \cup {p}
  BY DEF Close1
<1>2. manifest' = manifest /\ needs' = needs /\ policy' = policy /\ disabled' = disabled
  BY <1>1 DEF installed
<1>3. /\ closed \in SUBSET Package /\ effective \in [Package -> 0 .. 2] /\ NeedsOK
      /\ \A q \in Package : manifest[q].power \in 0 .. 2
  BY Kinded DEF LoadInv, DiscoveryTypeOK
<1>4. /\ Borrowed(p) \in 0 .. 2 /\ manifest[p].power <= Borrowed(p)
      /\ \A d \in Requires(p) : d \in closed => effective[d] <= Borrowed(p)
  <2> DEFINE levels == {manifest[p].power} \cup {effective[d] : d \in Requires(p) \cap closed}
  <2>1. levels \in SUBSET (0 .. 2) /\ levels # {}
    BY <1>3
  <2>2. Most(levels) \in levels /\ \A k \in levels : k <= Most(levels)
    <3> HIDE DEF levels
    <3> QED BY <2>1, MostIs
  <2> QED BY <2>1, <2>2 DEF Borrowed
<1>5. DiscoveryTypeOK'
  BY <1>1, <1>2, <1>3, <1>4 DEF LoadInv, DiscoveryTypeOK
<1>6. StatusInv'
  BY <1>1, InstalledStays DEF LoadInv, StatusInv
<1>7. \A q : Stands(q)' <=> Stands(q)
  BY <1>1 DEF Stands
<1>8. NeedsInv'
  BY <1>1, <1>2, <1>7, InstalledStays DEF LoadInv, NeedsInv
<1>9. \A q \in closed : Stands(q) /\ \A d \in Requires(q) : Stands(d) => d \in closed
  BY <1>1 DEF LoadInv, OrderInv
<1>10. OrderInv'
  BY <1>1, <1>7, <1>9, InstalledStays DEF OrderInv
<1>11. PowerInv'
  <2> SUFFICES ASSUME NEW q \in closed'
               PROVE  /\ manifest[q].power <= effective'[q]
                      /\ \A d \in Requires(q) : d \in closed' => effective'[d] <= effective'[q]
    BY <1>1, <1>2, InstalledStays DEF PowerInv
  <2>1. effective'[p] = Borrowed(p) /\ \A d \in closed : effective'[d] = effective[d]
    BY <1>1, <1>3
  <2>2. CASE q = p
    <3>1. p \notin Requires(p)
      BY <1>1
    <3> QED BY <1>1, <1>4, <2>1, <2>2, <3>1
  <2>3. CASE q \in closed
    <3>1. p \notin Requires(q)
      BY <1>1, <1>9, <2>3
    <3>2. manifest[q].power <= effective[q] /\ \A d \in Requires(q) : d \in closed => effective[d] <= effective[q]
      BY <2>3 DEF LoadInv, PowerInv
    <3> QED BY <1>1, <2>1, <2>3, <3>1, <3>2
  <2> QED BY <1>1, <2>2, <2>3
<1> QED BY <1>1, <1>5, <1>6, <1>8, <1>10, <1>11 DEF LoadInv

\* The second judgement loads nobody who was not, and nobody who borrowed power.
LEMMA JudgeKeeps == LoadInv /\ Judge => LoadInv'
<1> SUFFICES ASSUME LoadInv, Judge PROVE LoadInv'
  OBVIOUS
<1>1. /\ UNCHANGED installed /\ UNCHANGED <<effective, closed>> /\ pass = "close" /\ pass' = "again"
      /\ status' \in [Package -> Status] /\ {p \in Package : Stands(p)} = closed
      /\ \A p \in Package :
           status'[p] \in IF p \in closed /\ effective[p] > manifest[p].power THEN Determine(p, effective[p]) ELSE {status[p]}
  BY DEF Judge, Goto
<1>2. manifest' = manifest /\ needs' = needs /\ policy' = policy /\ disabled' = disabled
  BY <1>1 DEF installed
<1>3. /\ DiscoveryTypeOK /\ effective \in [Package -> 0 .. 2] /\ closed \in SUBSET Package
      /\ \A p \in Package : manifest[p].power \in 0 .. 2
  BY Kinded DEF LoadInv, DiscoveryTypeOK
<1>4. DiscoveryTypeOK'
  BY <1>1, <1>2, <1>3 DEF DiscoveryTypeOK
<1>5. ASSUME NEW p \in Package
      PROVE  /\ Stands(p)' => p \in closed
             /\ status'[p] = "LOADED" => /\ status[p] = "LOADED"
                                         /\ \/ effective[p] <= manifest[p].power
                                            \/ manifest[p].record # "none" \/ manifest[p].empty
             /\ status'[p] # "unread"
  <2>1. status[p] \in {"INCOMPATIBLE"} \cup Determine(p, 0) /\ status[p] # "unread"
    BY <1>1 DEF LoadInv, StatusInv
  <2>2. effective[p] \in 0 .. 2 /\ manifest[p].power \in 0 .. 2
    BY <1>3
  <2>3. CASE p \in closed /\ effective[p] > manifest[p].power
    <3>1. status'[p] \in Determine(p, effective[p])
      BY <1>1, <2>3
    <3>2. status'[p] # "unread"
      BY <1>3, <3>1, VerdictIsStatus
    <3>3. ASSUME status'[p] = "LOADED" PROVE status[p] = "LOADED" /\ (manifest[p].record # "none" \/ manifest[p].empty)
      <4>1. Determine(p, 0) = {"LOADED"} /\ (manifest[p].record # "none" \/ manifest[p].empty)
        BY <1>3, <2>2, <2>3, <3>1, <3>3, GainedIsLoaded
      <4>2. Stands(p)
        BY <1>1, <2>3
      <4> QED BY <2>1, <4>1, <4>2 DEF Stands
    <3> QED BY <2>3, <3>2, <3>3
  <2>4. CASE p \notin closed \/ ~(effective[p] > manifest[p].power)
    <3>1. status'[p] = status[p]
      BY <1>1, <2>4
    <3>2. Stands(p)' => p \in closed
      BY <1>1, <3>1 DEF Stands
    <3>3. status[p] = "LOADED" => p \in closed
      BY <1>1 DEF Stands
    <3>4. p \in closed => effective[p] <= manifest[p].power
      BY <2>2, <2>4
    <3> QED BY <2>1, <3>1, <3>2, <3>3, <3>4
  <2> QED BY <2>3, <2>4
<1>6. StatusInv'
  BY <1>1, <1>5 DEF StatusInv
<1>7. NeedsInv'
  <2>1. \A p \in Package : /\ Stands(p) => \A d \in Requires(p) : manifest[d].fits
                           /\ status[p] = "LOADED" => p \notin Cycles
    BY <1>1 DEF LoadInv, NeedsInv
  <2>2. \A p \in Package : p \in closed => Stands(p)
    BY <1>1
  <2> QED BY <1>1, <1>2, <1>5, <2>1, <2>2, InstalledStays DEF NeedsInv
<1>8. OrderInv'
  BY <1>1, <1>5 DEF OrderInv
<1>9. PowerInv'
  <2>1. \A p \in closed : /\ manifest[p].power <= effective[p]
                          /\ \A d \in Requires(p) : d \in closed => effective[d] <= effective[p]
    BY DEF LoadInv, PowerInv
  <2> QED BY <1>1, <1>2, <1>5, <2>1, InstalledStays DEF PowerInv
<1> QED BY <1>1, <1>4, <1>6, <1>7, <1>8, <1>9 DEF LoadInv

\* At the end nobody who stands is without what they need.
LEMMA OverKeeps == LoadInv /\ DiscoveryOver => LoadInv'
<1> SUFFICES ASSUME LoadInv, DiscoveryOver PROVE LoadInv'
  OBVIOUS
<1>1. /\ UNCHANGED installed /\ UNCHANGED <<status, effective, closed>> /\ pass = "again" /\ pass' = "done"
      /\ \A p \in Package : ~Unmet(p)
  BY DEF DiscoveryOver, Goto
<1>2. manifest' = manifest /\ needs' = needs /\ policy' = policy /\ disabled' = disabled
  BY <1>1 DEF installed
<1>3. DiscoveryTypeOK'
  BY <1>1, <1>2 DEF LoadInv, DiscoveryTypeOK
<1>4. StatusInv'
  BY <1>1 DEF LoadInv, StatusInv
<1>5. \A p : Stands(p)' <=> Stands(p)
  BY <1>1 DEF Stands
<1>6. NeedsInv' /\ OrderInv' /\ PowerInv'
  BY <1>1, <1>2, <1>5, InstalledStays DEF LoadInv, NeedsInv, OrderInv, PowerInv
<1>7. \A p \in Package : ~Unmet(p)'
  BY <1>1, <1>2, <1>5, InstalledStays DEF Unmet
<1> QED BY <1>3, <1>4, <1>6, <1>7 DEF LoadInv

\* So every step of discovery keeps its invariant.
LEMMA DiscoveryStep == LoadInv /\ [DiscoveryNext]_discovery => LoadInv'
<1> SUFFICES ASSUME LoadInv, [DiscoveryNext]_discovery PROVE LoadInv'
  OBVIOUS
<1>1. CASE UNCHANGED discovery
  <2>1. /\ UNCHANGED installed /\ status' = status /\ effective' = effective /\ pass' = pass /\ closed' = closed
        /\ manifest' = manifest /\ needs' = needs /\ policy' = policy /\ disabled' = disabled
    BY <1>1 DEF discovery, installed
  <2>2. \A p : Stands(p)' <=> Stands(p)
    BY <2>1 DEF Stands
  <2>3. DiscoveryTypeOK'
    BY <2>1 DEF LoadInv, DiscoveryTypeOK
  <2>4. StatusInv' /\ NeedsInv' /\ OrderInv' /\ PowerInv'
    BY <2>1, <2>2, InstalledStays DEF LoadInv, StatusInv, NeedsInv, OrderInv, PowerInv
  <2>5. pass' = "done" => \A p \in Package : ~Unmet(p)'
    BY <2>1, <2>2, InstalledStays DEF LoadInv, Unmet
  <2> QED BY <2>3, <2>4, <2>5 DEF LoadInv
<1>2. CASE \E p \in Package : ReadManifest(p) \/ Cascade(p) \/ Close1(p)
  BY <1>2, ReadKeeps, CascadeKeeps, CloseKeeps
<1>3. CASE AllRead \/ CascadeEnds \/ Judge \/ DiscoveryOver
  BY <1>3, AllReadKeeps, CascadeEndsKeeps, JudgeKeeps, OverKeeps
<1> QED BY <1>1, <1>2, <1>3 DEF DiscoveryNext

\* Discovery of plugins, whatever they need and whatever the order: it never waits for
\* ever, what is loaded needs only what is loaded and not itself, and has no more power
\* than it was given.
THEOREM LoadedIsSound == DiscoverySpec => []LoadingSound
<1> QED BY LoadStarts, DiscoveryStep, LoadIsSound, PTL DEF DiscoverySpec

-----------------------------------------------------------------------------
(* The child process                                                         *)

Deed == {"import", "make", "setup", "setup_ok", "call", "aclose"}
Did(s, x) == \E k \in 1 .. Len(s) : s[k] = x

\* What may come next of a plugin's life, when the handshake was or was not
MayFollow(s, x, greetedBy) ==
  /\ ~Did(s, "aclose")
  /\ x = "import" => s = <<>>
  /\ x = "make" => greetedBy /\ ~Did(s, "setup_ok")
  /\ x \in {"setup", "setup_ok"} => s # <<>> /\ s[Len(s)] = "make"
  /\ x = "call" => Did(s, "setup_ok")
  /\ x = "aclose" => Did(s, "make")

\* LifeInOrder of any life
InOrder(s, greetedBy) ==
  \A k \in 1 .. Len(s) :
    /\ s[k] = "import" => k = 1
    /\ s[k] = "make" => greetedBy /\ ~\E j \in 1 .. k - 1 : s[j] = "setup_ok"
    /\ s[k] \in {"setup", "setup_ok"} => k > 1 /\ s[k - 1] = "make"
    /\ s[k] = "call" => \E j \in 1 .. k - 1 : s[j] = "setup_ok"
    /\ s[k] = "aclose" => k = Len(s) /\ \E j \in 1 .. k - 1 : s[j] = "make"

LifeInv ==
  /\ life \in Seq(Deed) /\ InOrder(life, greeted)
  /\ position \in {"config", "layers", "import"} => life = <<>>
  /\ position = "loop" => ~Did(life, "aclose") /\ (Did(life, "setup_ok") => setUp)
  /\ setUp => Did(life, "setup_ok")
  /\ instance # "none" => Did(life, "make")

\* Lines that wait are no more than one as long as the parent is patient.
PipeInv ==
  /\ stdin \in Seq(HostLine) /\ written \in 0 .. MaxWritten /\ taken \in Nat /\ dropped \in Nat
  /\ hasty \in BOOLEAN
  /\ taken + dropped + Len(stdin) = written
  /\ ~hasty => dropped = 0 /\ Len(stdin) <= 1

AnswersInv ==
  /\ answers \in Nat /\ blanks \in Nat /\ AnswersOnce
  /\ position \in {"config", "layers", "import"} => answers = 0 /\ blanks = 0 /\ taken = 0 /\ dropped = 0

FlagsInv ==
  /\ position \in {"config", "layers", "import", "loop", "over"} /\ instance \in {"none", "some"}
  /\ greeted \in BOOLEAN /\ setUp \in BOOLEAN /\ (heard => position \in {"import", "loop", "over"})

HostInv == FlagsInv /\ PipeInv /\ AnswersInv /\ LifeInv

\* What may follow a life in order is a life in order.
LEMMA LifeGoesOn ==
  ASSUME NEW s \in Seq(Deed), NEW g, InOrder(s, g), NEW x \in Deed, MayFollow(s, x, g)
  PROVE  LET t == Append(s, x) IN
         /\ t \in Seq(Deed) /\ InOrder(t, g)
         /\ \A y : Did(t, y) <=> Did(s, y) \/ y = x
<1> DEFINE t == Append(s, x)
           n == Len(s)
<1>1. n \in Nat /\ t \in Seq(Deed) /\ Len(t) = n + 1 /\ t[n + 1] = x /\ \A k \in 1 .. n : t[k] = s[k]
  BY AppendProperties
<1>2. s # <<>> => n > 0
  BY EmptySeq
<1> HIDE DEF t, n
<1>3. ASSUME NEW y PROVE Did(t, y) <=> Did(s, y) \/ y = x
  BY <1>1 DEF Did, n
<1>4. ASSUME NEW k \in 1 .. Len(t)
      PROVE /\ t[k] = "import" => k = 1
            /\ t[k] = "make" => g /\ ~\E j \in 1 .. k - 1 : t[j] = "setup_ok"
            /\ t[k] \in {"setup", "setup_ok"} => k > 1 /\ t[k - 1] = "make"
            /\ t[k] = "call" => \E j \in 1 .. k - 1 : t[j] = "setup_ok"
            /\ t[k] = "aclose" => k = Len(t) /\ \E j \in 1 .. k - 1 : t[j] = "make"
  <2>1. CASE k \in 1 .. n
    <3>1. t[k] = s[k] /\ \A j \in 1 .. k - 1 : t[j] = s[j]
      BY <1>1, <2>1
    <3>2. s[k] # "aclose"
      BY <2>1 DEF MayFollow, Did, n
    <3> QED BY <2>1, <3>1, <3>2 DEF InOrder, n
  <2>2. CASE k = n + 1
    <3>1. k - 1 = n /\ t[k] = x /\ \A j \in 1 .. n : t[j] = s[j]
      BY <1>1, <2>2
    <3>2. x \in {"setup", "setup_ok"} => n > 0 /\ t[n] = "make"
      BY <1>1, <1>2 DEF MayFollow, n
    <3>3. x = "import" => n = 0
      BY EmptySeq DEF MayFollow, n
    <3> QED BY <1>1, <2>2, <3>1, <3>2, <3>3 DEF MayFollow, Did, n
  <2> QED BY <1>1, <2>1, <2>2
<1> QED BY <1>1, <1>3, <1>4 DEF InOrder, t

\* A line that is taken leaves the count of lines as it was.
LEMMA LineTaken ==
  ASSUME HostInv, NEW m, Take(m)
  PROVE  PipeInv' /\ position = "loop" /\ taken' = taken + 1
<1> DEFINE n == Len(stdin)
<1>1. PICK k \in 0 .. n - 1 : stdin' = SubSeq(stdin, k + 2, n) /\ dropped' = dropped + k
  BY DEF Take
<1>2. stdin \in Seq(HostLine)
  BY DEF HostInv, PipeInv
<1>3. n \in Nat /\ k \in Nat /\ k + 1 <= n
  <2>1. n \in Nat
    BY <1>2, LenProperties
  <2> HIDE DEF n
  <2> QED BY <2>1
<1>4. stdin' \in Seq(HostLine) /\ Len(stdin') = n - 1 - k
  <2>1. SubSeq(stdin, k + 2, n) \in Seq(HostLine)
    <3>1. \A i \in k + 2 .. n : i \in 1 .. Len(stdin) /\ stdin[i] \in HostLine
      BY <1>2, <1>3
    <3> QED BY <1>2, <1>3, <3>1, SubSeqProperties
  <2>2. Len(SubSeq(stdin, k + 2, n)) = IF k + 2 <= n THEN n - (k + 2) + 1 ELSE 0
    BY <1>2, <1>3, SubSeqProperties
  <2> HIDE DEF n
  <2> QED BY <1>1, <1>3, <2>1, <2>2
<1>5. taken' = taken + 1 /\ taken \in Nat /\ dropped \in Nat /\ taken + dropped + n = written
  BY DEF Take, HostInv, PipeInv
<1>6. ~hasty => dropped = 0 /\ n <= 1
  BY DEF HostInv, PipeInv
<1>7. /\ position = "loop" /\ written' = written /\ hasty' = hasty
      /\ written \in 0 .. MaxWritten /\ hasty \in BOOLEAN
  BY DEF Take, HostInv, PipeInv
<1> HIDE DEF n
<1>8. ASSUME ~hasty PROVE dropped' = 0 /\ Len(stdin') <= 1
  <2>1. dropped = 0 /\ n <= 1
    BY <1>6, <1>8
  <2>2. n = 1 /\ k = 0
    BY <1>3, <2>1
  <2> QED BY <1>1, <1>4, <2>1, <2>2
<1>9. taken' \in Nat /\ dropped' \in Nat /\ taken' + dropped' + Len(stdin') = written
  BY <1>1, <1>3, <1>4, <1>5
<1> QED BY <1>4, <1>5, <1>7, <1>8, <1>9 DEF PipeInv

\* A child that starts has done nothing and read nothing.
LEMMA HostStarts == HostInit => HostInv
<1> SUFFICES ASSUME HostInit PROVE HostInv
  OBVIOUS
<1>1. <<>> \in Seq(Deed)
  BY EmptySeq
<1>2. <<>> \in Seq(HostLine)
  BY EmptySeq
<1>3. Len(<<>>) = 0
  OBVIOUS
<1>4. FlagsInv /\ AnswersInv
  BY DEF HostInit, FlagsInv, AnswersInv, AnswersOnce
<1>5. PipeInv
  <2>1. 0 \in 0 .. MaxWritten
    BY HostAssumption
  <2>2. stdin = <<>> /\ written = 0 /\ taken = 0 /\ dropped = 0 /\ hasty = FALSE
    BY DEF HostInit
  <2>3. stdin \in Seq(HostLine) /\ Len(stdin) = 0
    BY <1>2, <1>3, <2>2
  <2>4. taken + dropped + Len(stdin) = written /\ Len(stdin) <= 1
    BY <2>2, <2>3
  <2> QED BY <2>1, <2>2, <2>3, <2>4 DEF PipeInv
<1>6. LifeInv
  <2>1. InOrder(<<>>, FALSE) /\ \A x : ~Did(<<>>, x)
    BY <1>3 DEF InOrder, Did
  <2> QED BY <1>1, <2>1 DEF HostInit, LifeInv
<1> QED BY <1>4, <1>5, <1>6 DEF HostInv
\* A line that was read is answered, or was empty, or was the last.
LEMMA LineAnswered ==
  ASSUME HostInv, NEW m, Take(m), heard' \in {heard, FALSE},
         \/ position' = position /\ answers' = answers + 1 /\ blanks' = blanks
         \/ position' = position /\ answers' = answers /\ blanks' = blanks + 1
         \/ position' = "over" /\ blanks' = blanks /\ answers' \in {answers, answers + 1}
  PROVE  PipeInv' /\ AnswersInv' /\ position = "loop" /\ position' \in {"loop", "over"}
<1>1. PipeInv' /\ position = "loop" /\ taken' = taken + 1
  BY LineTaken
<1>2. answers \in Nat /\ blanks \in Nat /\ taken \in Nat /\ answers + blanks = taken
  BY <1>1 DEF HostInv, AnswersInv, AnswersOnce, PipeInv
<1>3. ASSUME position' = "loop", answers' + blanks' = answers + blanks + 1, answers' \in Nat, blanks' \in Nat
      PROVE  AnswersInv'
  <2>1. answers' + blanks' = taken'
    BY <1>1, <1>2, <1>3
  <2> QED BY <1>3, <2>1 DEF AnswersInv, AnswersOnce
<1>4. CASE position' = "over" /\ blanks' = blanks /\ answers' \in {answers, answers + 1}
  <2>1. CASE answers' = answers
    <3>1. answers' + blanks' = taken' - 1 /\ answers' \in Nat /\ blanks' \in Nat
      BY <1>1, <1>2, <1>4, <2>1
    <3> QED BY <1>1, <1>4, <3>1 DEF AnswersInv, AnswersOnce
  <2>2. CASE answers' = answers + 1
    <3>1. answers' + blanks' = taken' /\ answers' \in Nat /\ blanks' \in Nat
      BY <1>1, <1>2, <1>4, <2>2
    <3> QED BY <1>1, <1>4, <3>1 DEF AnswersInv, AnswersOnce
  <2> QED BY <1>4, <2>1, <2>2
<1>5. CASE position' = position /\ answers' = answers + 1 /\ blanks' = blanks
  <2>1. position' = "loop" /\ answers' + blanks' = answers + blanks + 1 /\ answers' \in Nat /\ blanks' \in Nat
    BY <1>1, <1>2, <1>5
  <2> QED BY <1>1, <1>3, <2>1
<1>6. CASE position' = position /\ answers' = answers /\ blanks' = blanks + 1
  <2>1. position' = "loop" /\ answers' + blanks' = answers + blanks + 1 /\ answers' \in Nat /\ blanks' \in Nat
    BY <1>1, <1>2, <1>6
  <2> QED BY <1>1, <1>3, <2>1
<1> QED BY <1>1, <1>4, <1>5, <1>6

\* A line that leads to nothing but an answer, or to the end
LEMMA LifeStays ==
  ASSUME HostInv, position = "loop", position' \in {"loop", "over"}, heard' \in {heard, FALSE},
         UNCHANGED <<setUp, instance, life>>, greeted' \in BOOLEAN, greeted => greeted'
  PROVE  LifeInv' /\ FlagsInv'
<1>1. FlagsInv'
  BY DEF HostInv, FlagsInv
<1>2. InOrder(life', greeted')
  BY DEF HostInv, LifeInv, FlagsInv, InOrder
<1> QED BY <1>1, <1>2 DEF HostInv, LifeInv

\* The plugin hears of one thing more.
LEMMA LifeAnd ==
  ASSUME HostInv, position = "loop", position' \in {"loop", "over"}, heard' \in {heard, FALSE},
         NEW x \in Deed, life' = Append(life, x), MayFollow(life, x, greeted), greeted' = greeted,
         setUp' \in BOOLEAN, instance' \in {"none", "some"},
         x = "aclose" => position' = "over",
         setUp' => setUp \/ x = "setup_ok", position' = "loop" => (setUp \/ x = "setup_ok" => setUp'),
         instance' # "none" => instance # "none" \/ x = "make"
  PROVE  LifeInv' /\ FlagsInv'
<1>1. life \in Seq(Deed) /\ InOrder(life, greeted)
  BY DEF HostInv, LifeInv
<1>2. /\ life' \in Seq(Deed) /\ InOrder(life', greeted)
      /\ \A y : Did(life', y) <=> Did(life, y) \/ y = x
  BY <1>1, LifeGoesOn
<1>3. FlagsInv'
  BY DEF HostInv, FlagsInv
<1>4. /\ setUp' => Did(life', "setup_ok")
      /\ instance' # "none" => Did(life', "make")
      /\ position' = "loop" => ~Did(life', "aclose") /\ (Did(life', "setup_ok") => setUp')
  BY <1>2 DEF HostInv, LifeInv
<1> QED BY <1>2, <1>3, <1>4 DEF LifeInv

\* A list of two
LEMMA TwoLong == ASSUME NEW x PROVE Append(<<"make">>, x) = <<"make", x>>
<1>1. <<"make">> \in Seq({"make", x})
  OBVIOUS
<1>2. <<"make", x>> \in Seq({"make", x})
  OBVIOUS
<1>3. Append(<<"make">>, x) \in Seq({"make", x}) /\ Len(Append(<<"make">>, x)) = 2
  BY <1>1, AppendProperties
<1>4. Append(<<"make">>, x)[1] = "make" /\ Append(<<"make">>, x)[2] = x
  BY <1>1, AppendProperties
<1>5. Len(<<"make", x>>) = 2 /\ <<"make", x>>[1] = "make" /\ <<"make", x>>[2] = x
  OBVIOUS
<1>6. \A i \in 1 .. 2 : Append(<<"make">>, x)[i] = <<"make", x>>[i]
  <2>1. \A i \in 1 .. 2 : i = 1 \/ i = 2
    OBVIOUS
  <2> QED BY <1>4, <1>5, <2>1
<1> QED BY <1>2, <1>3, <1>5, <1>6, SeqEqual

\* What the plugin does when it is set up
LEMMA SetUpKeeps ==
  ASSUME HostInv, SetUpPlugin
  PROVE  HostInv'
<1>1. /\ position = "loop" /\ ~setUp /\ greeted /\ greeted' = greeted /\ heard' \in {heard, FALSE}
      /\ position' \in {"loop", "over"}
  BY DEF SetUpPlugin, Take, AnswerAnd, LoopEnds, LoopGoesOn
<1>2. PipeInv' /\ AnswersInv'
  <2>1. Take("setup") /\ heard' \in {heard, FALSE}
    BY <1>1 DEF SetUpPlugin
  <2>2. \/ position' = position /\ answers' = answers + 1 /\ blanks' = blanks
        \/ position' = "over" /\ blanks' = blanks /\ answers' \in {answers, answers + 1}
    BY DEF SetUpPlugin, AnswerAnd, LoopEnds, LoopGoesOn
  <2> QED BY <2>1, <2>2, LineAnswered
<1>3. PICK calls \in SetUpCalls : /\ life' = life \o calls /\ setUp' = ("setup_ok" \in ToSet(calls))
                                 /\ instance' = IF calls = <<>> THEN instance ELSE "some"
  BY DEF SetUpPlugin
<1>4. life \in Seq(Deed) /\ InOrder(life, greeted) /\ ~Did(life, "setup_ok") /\ ~Did(life, "aclose")
  BY <1>1 DEF HostInv, LifeInv
<1>5. calls = <<>> \/ calls = <<"make">> \/ calls = <<"make", "setup">> \/ calls = <<"make", "setup_ok">>
  <2>1. SetUpCalls = {<<>>, <<"make">> \o <<>>, <<"make">> \o <<"setup">>, <<"make">> \o <<"setup_ok">>}
    BY DEF SetUpCalls, Validated
  <2>2. <<"make">> \o <<>> = <<"make">>
    OBVIOUS
  <2>3. ASSUME NEW x PROVE <<"make">> \o <<x>> = <<"make", x>>
    <3>1. <<"make">> \o <<x>> = Append(<<"make">>, x)
      OBVIOUS
    <3>2. Append(<<"make">>, x) = <<"make", x>>
      BY TwoLong
    <3> QED BY <3>1, <3>2
  <2> QED BY <1>3, <2>1, <2>2, <2>3
<1>6. CASE calls = <<>>
  <2>1. life' = life /\ setUp' = setUp /\ instance' = instance
    <3>1. life \o <<>> = life
      BY <1>4, ConcatEmptySeq
    <3>2. ToSet(<<>>) = {}
      BY DEF ToSet
    <3> QED BY <1>1, <1>3, <1>6, <3>1, <3>2 DEF HostInv, FlagsInv
  <2>2. LifeInv' /\ FlagsInv'
    BY <1>1, <2>1, LifeStays DEF HostInv, FlagsInv
  <2> QED BY <1>2, <2>2 DEF HostInv
<1>7. CASE calls # <<>>
  <2> DEFINE s == Append(life, "make")
  <2>1. s \in Seq(Deed) /\ InOrder(s, greeted) /\ \A y : Did(s, y) <=> Did(life, y) \/ y = "make"
    <3>1. "make" \in Deed /\ MayFollow(life, "make", greeted)
      BY <1>1, <1>4 DEF Deed, MayFollow
    <3> QED BY <1>4, <3>1, LifeGoesOn
  <2>2. s # <<>> /\ s[Len(s)] = "make"
    BY <1>4, AppendProperties
  <2>3. /\ calls = <<"make">> => life' = s /\ setUp' = FALSE
        /\ calls = <<"make", "setup">> => life' = Append(s, "setup") /\ setUp' = FALSE
        /\ calls = <<"make", "setup_ok">> => life' = Append(s, "setup_ok") /\ setUp' = TRUE
    <3>1. /\ life \o <<"make">> = Append(life, "make")
          /\ life \o <<"make", "setup">> = Append(Append(life, "make"), "setup")
          /\ life \o <<"make", "setup_ok">> = Append(Append(life, "make"), "setup_ok")
      BY <1>4
    <3>2. /\ ToSet(<<"make">>) = {"make"} /\ ToSet(<<"make", "setup">>) = {"make", "setup"}
          /\ ToSet(<<"make", "setup_ok">>) = {"make", "setup_ok"}
      BY DEF ToSet
    <3>3. /\ "setup_ok" \notin {"make"} /\ "setup_ok" \notin {"make", "setup"}
          /\ "setup_ok" \in {"make", "setup_ok"}
      OBVIOUS
    <3>4. ASSUME calls = <<"make">> PROVE life' = s /\ setUp' = FALSE
      <4>1. life' = life \o <<"make">> /\ setUp' = ("setup_ok" \in ToSet(<<"make">>))
        BY <1>3, <3>4
      <4>2. life' = s
        BY <3>1, <4>1
      <4>3. setUp' = FALSE
        <5>1. "setup_ok" \notin ToSet(<<"make">>)
          BY <3>2, <3>3
        <5>2. ~setUp'
          BY <4>1, <5>1
        <5>3. setUp' \in BOOLEAN
          BY <4>1
        <5> QED BY <5>2, <5>3
      <4> QED BY <4>2, <4>3
    <3>5. ASSUME calls = <<"make", "setup">> PROVE life' = Append(s, "setup") /\ setUp' = FALSE
      <4>1. life' = life \o <<"make", "setup">> /\ setUp' = ("setup_ok" \in ToSet(<<"make", "setup">>))
        BY <1>3, <3>5
      <4>2. life' = Append(s, "setup")
        BY <3>1, <4>1
      <4>3. setUp' = FALSE
        <5>1. "setup_ok" \notin ToSet(<<"make", "setup">>)
          BY <3>2, <3>3
        <5>2. ~setUp'
          BY <4>1, <5>1
        <5>3. setUp' \in BOOLEAN
          BY <4>1
        <5> QED BY <5>2, <5>3
      <4> QED BY <4>2, <4>3
    <3>6. ASSUME calls = <<"make", "setup_ok">> PROVE life' = Append(s, "setup_ok") /\ setUp' = TRUE
      <4>1. life' = life \o <<"make", "setup_ok">> /\ setUp' = ("setup_ok" \in ToSet(<<"make", "setup_ok">>))
        BY <1>3, <3>6
      <4>2. life' = Append(s, "setup_ok")
        BY <3>1, <4>1
      <4>3. setUp' = TRUE
        BY <3>2, <3>3, <4>1
      <4> QED BY <4>2, <4>3
    <3> QED BY <3>4, <3>5, <3>6
  <2> HIDE DEF s
  <2>4. /\ life' \in Seq(Deed) /\ InOrder(life', greeted) /\ setUp' \in BOOLEAN
        /\ ~Did(life', "aclose") /\ Did(life', "make") /\ (Did(life', "setup_ok") <=> setUp')
    <3>1. CASE calls = <<"make">>
      BY <1>4, <2>1, <2>3, <3>1
    <3>2. ASSUME NEW x \in {"setup", "setup_ok"}
          PROVE  /\ Append(s, x) \in Seq(Deed) /\ InOrder(Append(s, x), greeted)
                 /\ \A y : Did(Append(s, x), y) <=> Did(life, y) \/ y \in {"make", x}
      <4>1. x \in Deed /\ MayFollow(s, x, greeted)
        BY <1>4, <2>1, <2>2 DEF Deed, MayFollow
      <4> QED BY <2>1, <4>1, LifeGoesOn
    <3>3. CASE calls = <<"make", "setup">>
      <4>1. life' = Append(s, "setup") /\ setUp' = FALSE
        BY <2>3, <3>3
      <4> QED BY <1>4, <3>2, <4>1
    <3>4. CASE calls = <<"make", "setup_ok">>
      <4>1. life' = Append(s, "setup_ok") /\ setUp' = TRUE
        BY <2>3, <3>4
      <4> QED BY <1>4, <3>2, <4>1
    <3> QED BY <1>5, <1>7, <3>1, <3>3, <3>4
  <2>5. instance' = "some"
    BY <1>3, <1>7
  <2>6. FlagsInv' /\ LifeInv'
    BY <1>1, <2>4, <2>5 DEF HostInv, FlagsInv, LifeInv
  <2> QED BY <1>2, <2>6 DEF HostInv
<1> QED BY <1>6, <1>7

\* Every step of the child and of its parent
LEMMA HostStep == HostInv /\ [HostNext]_host => HostInv'
<1> SUFFICES ASSUME HostInv, [HostNext]_host PROVE HostInv'
  OBVIOUS
<1> DEFINE Hushed(m) == /\ Take(m) /\ heard' \in {heard, FALSE}
                       /\ \/ position' = position /\ answers' = answers + 1 /\ blanks' = blanks
                          \/ position' = position /\ answers' = answers /\ blanks' = blanks + 1
                          \/ position' = "over" /\ blanks' = blanks /\ answers' \in {answers, answers + 1}
<1>1. ASSUME NEW m, Take(m), AnswerAnd(LoopGoesOn) \/ AnswerAnd(LoopEnds) PROVE Hushed(m)
  BY <1>1 DEF AnswerAnd, LoopGoesOn, LoopEnds
<1>2. ASSUME NEW m, Hushed(m) PROVE PipeInv' /\ AnswersInv' /\ position = "loop" /\ position' \in {"loop", "over"}
  BY <1>2, LineAnswered
<1>3. ASSUME NEW m, Hushed(m), UNCHANGED <<setUp, instance, life>>, greeted' \in BOOLEAN, greeted => greeted'
      PROVE  HostInv'
  <2>1. heard' \in {heard, FALSE}
    BY <1>3
  <2> QED BY <1>2, <1>3, <2>1, LifeStays DEF HostInv
<1>4. ASSUME NEW m, SendError(m) PROVE HostInv'
  <2>1. Hushed(m) /\ UNCHANGED <<setUp, instance, life, greeted>> /\ greeted \in BOOLEAN
    BY <1>1, <1>4 DEF SendError, flags, HostInv, FlagsInv
  <2> QED BY <1>3, <2>1
<1>5. ASSUME NEW m \in HostLine, Write(m) PROVE HostInv'
  <2> DEFINE n == Len(stdin)
  <2>1. stdin \in Seq(HostLine) /\ n \in Nat
    BY LenProperties DEF HostInv, PipeInv
  <2>2. stdin' \in Seq(HostLine) /\ Len(stdin') = n + 1
    BY <1>5, <2>1, AppendProperties DEF Write
  <2>3. taken + dropped + n = written /\ taken \in Nat /\ dropped \in Nat /\ written \in Nat
    BY HostAssumption DEF HostInv, PipeInv
  <2>4. written < MaxWritten /\ written' = written + 1 /\ position # "over" /\ UNCHANGED <<taken, dropped>>
    BY <1>5 DEF Write
  <2> HIDE DEF n
  <2>5. ASSUME ~hasty' PROVE n = 0 /\ dropped = 0
    <3>1. answers >= written
      <4>1. ~(answers < written)
        BY <1>5, <2>5 DEF Write
      <4>2. answers \in Nat
        BY DEF HostInv, AnswersInv
      <4> QED BY <2>3, <4>1, <4>2
    <3>2. answers <= taken /\ answers \in Nat
      <4>1. answers \in Nat /\ blanks \in Nat
        BY DEF HostInv, AnswersInv
      <4>2. answers + blanks = taken \/ (answers = 0 /\ taken = 0)
        BY <2>4 DEF HostInv, FlagsInv, AnswersInv, AnswersOnce
      <4> QED BY <2>3, <4>1, <4>2
    <3> QED BY <2>1, <2>3, <3>1, <3>2
  <2>6. PipeInv'
    <3>1. taken' + dropped' + Len(stdin') = written' /\ written' \in 0 .. MaxWritten
      BY <2>1, <2>2, <2>3, <2>4, HostAssumption
    <3>2. hasty' \in BOOLEAN
      BY <1>5 DEF Write
    <3>3. ~hasty' => dropped' = 0 /\ Len(stdin') <= 1
      BY <2>2, <2>4, <2>5
    <3> QED BY <2>2, <2>3, <2>4, <3>1, <3>2, <3>3 DEF PipeInv
  <2> QED BY <1>5, <2>6 DEF Write, HostInv, FlagsInv, AnswersInv, AnswersOnce, LifeInv, flags
<1>6. CASE CloseStdin \/ ParentGone
  BY <1>6 DEF CloseStdin, ParentGone, HostInv, FlagsInv, PipeInv, AnswersInv, AnswersOnce, LifeInv, flags, tally
<1>7. CASE LoadConfig \/ RaiseLayers \/ LayersFail
  <2>1. /\ UNCHANGED <<pipe, flags, life, written, taken, dropped, blanks, hasty>>
        /\ position \in {"config", "layers"}
        /\ \/ position' \in {"layers", "import"} /\ answers' = answers
           \/ position' = "over" /\ answers' = answers + 1
        /\ heard' => position' = "import" \/ heard
    <3>1. CASE LoadConfig
      BY <3>1 DEF LoadConfig, tally
    <3>2. CASE RaiseLayers
      BY <3>2 DEF RaiseLayers, tally
    <3>3. CASE LayersFail
      BY <3>3 DEF LayersFail
    <3> QED BY <1>7, <3>1, <3>2, <3>3
  <2>2. life = <<>> /\ answers = 0 /\ blanks = 0 /\ taken = 0 /\ dropped = 0
    BY <2>1 DEF HostInv, LifeInv, AnswersInv
  <2>3. ~heard
    BY <2>1 DEF HostInv, FlagsInv
  <2>4. FlagsInv' /\ PipeInv'
    BY <2>1, <2>3 DEF HostInv, FlagsInv, PipeInv, flags, pipe
  <2>5. AnswersInv'
    BY <2>1, <2>2 DEF AnswersInv, AnswersOnce
  <2>6. LifeInv'
    BY <2>1, <2>2 DEF HostInv, LifeInv, flags
  <2> QED BY <2>4, <2>5, <2>6 DEF HostInv
<1>8. CASE ImportPlugin
  <2>1. /\ UNCHANGED <<heard, pipe, flags, written, taken, dropped, blanks, hasty>>
        /\ position = "import" /\ life' = Append(life, "import")
        /\ \/ position' = "loop" /\ answers' = answers
           \/ position' = "over" /\ answers' = answers + 1
    BY <1>8 DEF ImportPlugin, tally
  <2>2. life = <<>> /\ answers = 0 /\ blanks = 0 /\ taken = 0 /\ dropped = 0
    BY <2>1 DEF HostInv, LifeInv, AnswersInv
  <2>3. FlagsInv' /\ PipeInv'
    BY <2>1 DEF HostInv, FlagsInv, PipeInv, flags, pipe
  <2>4. AnswersInv'
    BY <2>1, <2>2 DEF AnswersInv, AnswersOnce
  <2>5. \A x : ~Did(life, x)
    BY <2>2 DEF Did
  <2>6. ~setUp /\ instance = "none"
    BY <2>5 DEF HostInv, LifeInv, FlagsInv
  <2>7. MayFollow(life, "import", greeted)
    BY <2>2, <2>5 DEF MayFollow
  <2>8. /\ life' \in Seq(Deed) /\ InOrder(life', greeted) /\ \A y : Did(life', y) <=> y = "import"
    <3>1. "import" \in Deed /\ life \in Seq(Deed) /\ InOrder(life, greeted)
      BY DEF Deed, HostInv, LifeInv
    <3> QED BY <2>1, <2>5, <2>7, <3>1, LifeGoesOn
  <2>9. LifeInv'
    BY <2>1, <2>6, <2>8 DEF LifeInv, flags
  <2> QED BY <2>3, <2>4, <2>9 DEF HostInv
<1>9. CASE Noise \/ Unknown \/ SetUpAlready \/ NotSetUp \/ \E m \in HostLine : NotGreeted(m)
  BY <1>4, <1>9 DEF Noise, Unknown, SetUpAlready, NotSetUp, NotGreeted
<1>10. CASE EmptyLine
  <2>1. Hushed("blank") /\ UNCHANGED <<setUp, instance, life, greeted>> /\ greeted \in BOOLEAN
    BY <1>10 DEF EmptyLine, LoopGoesOn, flags, HostInv, FlagsInv
  <2> QED BY <1>3, <2>1
<1>11. CASE NoObject
  <2>1. Hushed("no_object") /\ UNCHANGED <<setUp, instance, life, greeted>> /\ greeted \in BOOLEAN
    BY <1>11 DEF NoObject, LoopEnds, flags, HostInv, FlagsInv
  <2> QED BY <1>3, <2>1
<1>12. CASE Huge \/ OtherHandshake
  <2>1. \E m : Hushed(m)
    BY <1>1, <1>12 DEF Huge, OtherHandshake
  <2>2. UNCHANGED <<setUp, instance, life, greeted>> /\ greeted \in BOOLEAN
    BY <1>12 DEF Huge, OtherHandshake, flags, HostInv, FlagsInv
  <2> QED BY <1>3, <2>1, <2>2
<1>13. CASE Handshake
  <2>1. Hushed("handshake")
    BY <1>1, <1>13 DEF Handshake
  <2>2. UNCHANGED <<setUp, instance, life>> /\ greeted' \in BOOLEAN /\ (greeted => greeted')
    BY <1>13 DEF Handshake
  <2> QED BY <1>3, <2>1, <2>2
<1>14. CASE SetUpPlugin
  BY <1>14, SetUpKeeps
<1>15. CASE CallPlugin
  <2>1. Hushed("process") /\ UNCHANGED <<greeted, setUp, instance>> /\ greeted \in BOOLEAN /\ setUp
    BY <1>1, <1>15 DEF CallPlugin, flags, HostInv, FlagsInv
  <2>2. CASE life' = life
    BY <1>3, <2>1, <2>2
  <2>3. CASE life' = Append(life, "call")
    <3>1. PipeInv' /\ AnswersInv' /\ position = "loop" /\ position' \in {"loop", "over"}
      BY <1>2, <2>1
    <3>2. MayFollow(life, "call", greeted) /\ "call" \in Deed
      BY <2>1, <3>1 DEF HostInv, LifeInv, MayFollow, Deed
    <3>3. heard' \in {heard, FALSE} /\ setUp' \in BOOLEAN /\ instance' \in {"none", "some"}
      BY <2>1 DEF HostInv, FlagsInv
    <3>4. LifeInv' /\ FlagsInv'
      BY <2>1, <2>3, <3>1, <3>2, <3>3, LifeAnd
    <3> QED BY <3>1, <3>4 DEF HostInv
  <2> QED BY <1>15, <2>2, <2>3 DEF CallPlugin, Called
<1>16. CASE PluginExits
  <2>1. Hushed("process") /\ UNCHANGED <<greeted, setUp, instance>> /\ setUp
    BY <1>16 DEF PluginExits, LoopEnds, flags
  <2>2. PipeInv' /\ AnswersInv' /\ position = "loop" /\ position' \in {"loop", "over"}
    BY <1>2, <2>1
  <2>3. MayFollow(life, "call", greeted) /\ "call" \in Deed /\ life' = Append(life, "call")
    BY <1>16, <2>1, <2>2 DEF PluginExits, HostInv, LifeInv, MayFollow, Deed
  <2>4. heard' \in {heard, FALSE} /\ setUp' \in BOOLEAN /\ instance' \in {"none", "some"}
    BY <2>1 DEF HostInv, FlagsInv
  <2>5. LifeInv' /\ FlagsInv'
    BY <2>1, <2>2, <2>3, <2>4, LifeAnd
  <2> QED BY <2>2, <2>5 DEF HostInv
<1>17. CASE AClose
  <2>1. Hushed("aclose") /\ AnswerAnd(LoopEnds) /\ greeted' = greeted /\ greeted \in BOOLEAN
    BY <1>1, <1>17 DEF AClose, flags, HostInv, FlagsInv
  <2>2. PipeInv' /\ AnswersInv' /\ position = "loop" /\ position' = "over"
    BY <1>2, <2>1 DEF AnswerAnd, LoopEnds
  <2>3. CASE instance = "none"
    <3>1. UNCHANGED <<setUp, instance, life>>
      BY <1>17, <2>3 DEF AClose, flags
    <3> QED BY <1>3, <2>1, <3>1
  <2>4. CASE instance # "none"
    <3>1. /\ life' = Append(life, "aclose") /\ setUp' \in {setUp, FALSE} /\ instance' \in {instance, "none"}
          /\ setUp' => setUp
      BY <1>17, <2>4 DEF AClose, flags
    <3>2. MayFollow(life, "aclose", greeted) /\ "aclose" \in Deed
      BY <2>2, <2>4 DEF HostInv, LifeInv, MayFollow, Deed
    <3>3. heard' \in {heard, FALSE} /\ setUp' \in BOOLEAN /\ instance' \in {"none", "some"}
      BY <2>1, <3>1 DEF HostInv, FlagsInv
    <3>4. (setUp' => setUp) /\ (instance' # "none" => instance # "none")
      BY <3>1
    <3>5. LifeInv' /\ FlagsInv'
      BY <2>1, <2>2, <3>1, <3>2, <3>3, <3>4, LifeAnd
    <3> QED BY <2>2, <3>5 DEF HostInv
  <2> QED BY <2>3, <2>4
<1>18. CASE EndOfInput
  <2>1. /\ position = "loop" /\ position' = "over" /\ heard' = FALSE /\ UNCHANGED <<pipe, flags, life, tally>>
    BY <1>18 DEF EndOfInput, LoopEnds
  <2>2. PipeInv' /\ AnswersInv' /\ greeted \in BOOLEAN
    BY <2>1 DEF HostInv, FlagsInv, PipeInv, AnswersInv, AnswersOnce, pipe, tally
  <2> QED BY <2>1, <2>2, LifeStays DEF HostInv, flags
<1>19. CASE UNCHANGED host
  BY <1>19 DEF host, HostInv, FlagsInv, PipeInv, AnswersInv, AnswersOnce, LifeInv, pipe, flags, tally
<1> QED BY <1>5, <1>6, <1>7, <1>8, <1>9, <1>10, <1>11, <1>12, <1>13, <1>14, <1>15, <1>16, <1>17, <1>18, <1>19 DEF HostNext

\* What a plugin hears of its life, in the order it is meant to, and what the parent may
\* count on: HostSound, whatever the parent writes, loses, or leaves unread.
THEOREM ChildInOrder == HostSpec => []HostSound
<1>1. HostInit => HostInv
  BY HostStarts
<1>2. HostInv /\ [HostNext]_host => HostInv'
  BY HostStep
<1>3. HostInv => HostSound
  <2> SUFFICES ASSUME HostInv PROVE HostSound
    OBVIOUS
  <2>1. life \in Seq(Deed) /\ InOrder(life, greeted) /\ DOMAIN life = 1 .. Len(life)
    BY LenProperties DEF HostInv, LifeInv
  <2>2. ASSUME NEW k \in DOMAIN life PROVE life[k] \in Deed
    BY <2>1
  <2>3. LifeInOrder
    BY <2>1, <2>2 DEF LifeInOrder, InOrder, CalledBefore, Deed
  <2>4. PatientLosesNothing
    <3> DEFINE n == Len(stdin)
    <3>1. /\ taken \in Nat /\ dropped \in Nat /\ taken + dropped + n = written /\ n \in Nat
          /\ ~hasty => dropped = 0
      BY LenProperties DEF HostInv, PipeInv
    <3> HIDE DEF n
    <3>2. dropped = 0 => written = taken + n
      BY <3>1
    <3> QED BY <3>1, <3>2 DEF PatientLosesNothing, n
  <2> QED BY <2>3, <2>4 DEF HostSound, HostInv, AnswersInv
<1> QED BY <1>1, <1>2, <1>3, PTL DEF HostSpec

-----------------------------------------------------------------------------
(* The check of a signature                                                  *)

\* What is right of an answer, by the wheels there are
AnswerRight(signing, outcome) ==
  /\ outcome = "verified" => \E w \in wheels : Attested(signing, w)
  /\ wheels # {} /\ (\A w \in wheels : Attested(signing, w)) => outcome = "verified"

UnderWay == check.step \in {"look", "open", "run", "after"}

\* A check under way knows the hash it began with, and looks at what it has found.
CheckKnows ==
  /\ UnderWay => /\ check = [step |-> check.step, signing |-> check.signing, wheel |-> check.wheel,
                             sig |-> check.sig, before |-> check.before, outcome |-> check.outcome]
                 /\ check.before = Hash(began) /\ check.outcome \in {"verified", "unverified"}
  /\ check.step \in {"look", "open", "run"} =>
       check.outcome = "unverified" /\ check.signing.method \in {"sigstore", "gpg"}
  /\ check.step \in {"open", "run"} /\ calm =>
       /\ check.wheel \in wheels /\ check.sig # "none"
       /\ check.sig = IF check.signing.method = "gpg" THEN FindsSignature(check.wheel) ELSE "bundle"
  /\ check.step = "after" /\ calm => AnswerRight(check.signing, check.outcome)

SignedInv ==
  /\ check.step \in {"idle", "look", "open", "run", "after", "done"}
  /\ calm \in BOOLEAN /\ wheels \subseteq Wheel
  /\ CheckKnows /\ SignatureSound

\* What files attest is so as long as they are the same.
LEMMA SameTree ==
  ASSUME tree' = tree, NEW s, NEW w
  PROVE  /\ Hash(tree)' = Hash(tree) /\ FindsSignature(w)' = FindsSignature(w)
         /\ Attested(s, w)' <=> Attested(s, w)
<1>1. Hash(tree)' = Hash(tree)
  BY DEF Hash
<1>2. FindsSignature(w)' = FindsSignature(w)
  BY DEF FindsSignature
<1>3. \A sig : Signer(w, sig)' = Signer(w, sig)
  BY DEF Signer
<1> QED BY <1>1, <1>2, <1>3 DEF Attested

\* An answer stays right as long as the wheels are the same.
LEMMA SameAnswer ==
  ASSUME tree' = tree, wheels' = wheels, NEW s, NEW outcome
  PROVE  AnswerRight(s, outcome)' <=> AnswerRight(s, outcome)
BY SameTree DEF AnswerRight

\* An outcome stays what it is, for nobody but who takes it changes it.
LEMMA Rests ==
  ASSUME SignedInv, UNCHANGED <<check, began, pin>>, calm' \in BOOLEAN, wheels' \subseteq Wheel,
         calm' => calm /\ tree' = tree /\ wheels' = wheels
  PROVE  SignedInv'
<1>1. CASE calm'
  <2>1. calm /\ tree' = tree /\ wheels' = wheels
    BY <1>1
  <2>2. /\ \A w : FindsSignature(w)' = FindsSignature(w)
        /\ \A s, w : Attested(s, w)' <=> Attested(s, w)
        /\ \A s, outcome : AnswerRight(s, outcome)' <=> AnswerRight(s, outcome)
    BY <2>1, SameTree, SameAnswer
  <2>3. Hash(began)' = Hash(began) /\ Hash(check.ended)' = Hash(check.ended)
    BY DEF Hash
  <2>4. CheckKnows'
    BY <2>1, <2>2, <2>3 DEF SignedInv, CheckKnows, UnderWay
  <2>5. SignatureSound'
    BY <2>1, <2>2, <2>3 DEF SignedInv, SignatureSound, SameFiles, AnswerAttested, ErrorsAreOurs, VerdictBy
  <2> QED BY <2>4, <2>5 DEF SignedInv
<1>2. CASE ~calm'
  <2>1. Hash(began)' = Hash(began) /\ Hash(check.ended)' = Hash(check.ended)
    BY DEF Hash
  <2>2. CheckKnows'
    BY <1>2, <2>1 DEF SignedInv, CheckKnows, UnderWay
  <2>3. SignatureSound'
    BY <1>2, <2>1 DEF SignedInv, SignatureSound, SameFiles, AnswerAttested, ErrorsAreOurs, VerdictBy
  <2> QED BY <2>2, <2>3 DEF SignedInv
<1> QED BY <1>1, <1>2

\* Files that change while nobody looks
LEMMA Idle ==
  ASSUME SignedInv, check'.step = "idle", calm' \in BOOLEAN, wheels' \subseteq Wheel
  PROVE  SignedInv'
BY DEF SignedInv, CheckKnows, UnderWay, SignatureSound, SameFiles, AnswerAttested, ErrorsAreOurs, VerdictBy

\* The end of a check
LEMMA Ends ==
  ASSUME SignedInv, tree' = tree, wheels' = wheels, pin' = pin, calm' \in BOOLEAN,
         NEW s, NEW outcome \in {"verified", "unverified", "error"}, NEW why,
         check' = [step |-> "done", outcome |-> outcome, why |-> why, signing |-> s, ended |-> tree],
         why = "signature" => /\ outcome = "verified" => NoHash \in {Hash(began'), Hash(tree)} \/ Hash(began') = Hash(tree)
                              /\ calm' => AnswerRight(s, outcome),
         why = "pin" => (outcome = "verified" <=> Hash(tree) # NoHash /\ Hash(tree) = pin),
         outcome = "error" => ~calm' \/ tree.build = 0
  PROVE  SignedInv'
<1>1. /\ check'.step = "done" /\ check'.outcome = outcome /\ check'.why = why /\ check'.signing = s
      /\ check'.ended = tree
  OBVIOUS
<1>2. CheckKnows'
  BY <1>1 DEF CheckKnows, UnderWay
<1>3. /\ Hash(began)' = Hash(began') /\ Hash(check.ended)' = Hash(tree)
      /\ AnswerRight(s, outcome)' <=> AnswerRight(s, outcome)
  BY <1>1, SameAnswer DEF Hash
<1>4. SameFiles' /\ ErrorsAreOurs'
  BY <1>1, <1>3 DEF SameFiles, ErrorsAreOurs, VerdictBy
<1>5. AnswerAttested'
  BY <1>1, <1>3 DEF AnswerAttested, VerdictBy, AnswerRight
<1> QED BY <1>1, <1>2, <1>4, <1>5 DEF SignedInv, SignatureSound

\* The next step of a check
LEMMA GoesOn ==
  ASSUME SignedInv, tree' = tree, wheels' = wheels, pin' = pin, calm' \in BOOLEAN,
         NEW step \in {"look", "open", "run", "after"}, NEW s, NEW w, NEW sig, NEW outcome \in {"verified", "unverified"},
         check' = [step |-> step, signing |-> s, wheel |-> w, sig |-> sig, before |-> Hash(began'), outcome |-> outcome],
         step # "after" => outcome = "unverified" /\ s.method \in {"sigstore", "gpg"},
         step \in {"open", "run"} /\ calm' =>
           w \in wheels /\ sig # "none" /\ sig = IF s.method = "gpg" THEN FindsSignature(w) ELSE "bundle",
         step = "after" /\ calm' => AnswerRight(s, outcome)
  PROVE  SignedInv'
<1>1. /\ check'.step = step /\ check'.outcome = outcome /\ check'.wheel = w /\ check'.signing = s
      /\ check'.sig = sig /\ check'.before = Hash(began')
  OBVIOUS
<1>2. Hash(began)' = Hash(began') /\ FindsSignature(w)' = FindsSignature(w)
      /\ (AnswerRight(s, outcome)' <=> AnswerRight(s, outcome))
  BY SameAnswer, SameTree DEF Hash
<1>3. CheckKnows'
  BY <1>1, <1>2 DEF CheckKnows, UnderWay
<1>4. SignatureSound'
  BY <1>1 DEF SignatureSound, SameFiles, AnswerAttested, ErrorsAreOurs, VerdictBy
<1> QED BY <1>1, <1>3, <1>4 DEF SignedInv

\* Before the first check there is none to be wrong.
LEMMA SignedStarts == SignedInit => SignedInv
BY DEF SignedInit, SignedInv, CheckKnows, UnderWay, SignatureSound, SameFiles, AnswerAttested, ErrorsAreOurs, VerdictBy
\* A check begins, and may be over at once.
LEMMA BeginKeeps ==
  ASSUME SignedInv, NEW s \in Signings, BeginPinned(s) \/ BeginCheck(s)
  PROVE  SignedInv'
<1>1. /\ check.step = "idle" /\ UNCHANGED <<tree, wheels, pin>> /\ ValidSigning(s)
      /\ began' = tree /\ calm' = TRUE
  BY DEF BeginPinned, BeginCheck, Checking
<1>2. Hash(began') = Hash(tree)
  BY <1>1
<1>3. CASE BeginPinned(s)
  <2> DEFINE outcome == IF Hash(tree) # NoHash /\ Hash(tree) = pin THEN "verified" ELSE "unverified"
  <2>1. check' = [step |-> "done", outcome |-> outcome, why |-> "pin", signing |-> s, ended |-> tree]
    BY <1>3 DEF BeginPinned
  <2>2. /\ outcome \in {"verified", "unverified", "error"} /\ outcome # "error"
        /\ outcome = "verified" <=> Hash(tree) # NoHash /\ Hash(tree) = pin
    OBVIOUS
  <2> HIDE DEF outcome
  <2>3. "pin" # "signature"
    OBVIOUS
  <2> QED BY <1>1, <2>1, <2>2, <2>3, Ends
<1>4. CASE BeginCheck(s)
  <2> DEFINE method == IF s.method = "none" THEN "unsigned" ELSE s.method
  <2>1. CASE tree.build = 0
    <3>1. check' = [step |-> "done", outcome |-> "error", why |-> "package", signing |-> s, ended |-> tree]
      BY <1>4, <2>1 DEF BeginCheck
    <3>2. "package" # "signature" /\ "package" # "pin" /\ "error" \in {"verified", "unverified", "error"}
      OBVIOUS
    <3> QED BY <1>1, <2>1, <3>1, <3>2, Ends
  <2>2. CASE tree.build # 0
    <3> DEFINE step == IF method = "unsigned" THEN "after" ELSE "look"
    <3>1. check' = [step |-> step, signing |-> s, wheel |-> NoWheel, sig |-> "none",
                    before |-> Hash(began'), outcome |-> "unverified"]
      BY <1>2, <1>4, <2>2 DEF BeginCheck
    <3>2. step = "look" => s.method \in {"sigstore", "gpg"}
      BY <1>1 DEF ValidSigning
    <3>3. step = "after" => AnswerRight(s, "unverified")
      BY <1>1 DEF ValidSigning, AnswerRight, Attested
    <3>4. step \in {"look", "after"}
      OBVIOUS
    <3> HIDE DEF step
    <3> QED BY <1>1, <3>1, <3>2, <3>3, <3>4, GoesOn
  <2> QED BY <2>1, <2>2
<1> QED BY <1>3, <1>4

\* The search for the wheel and its signature finds them, unless something failed,
LEMMA LookKeeps == SignedInv /\ Look => SignedInv'
<1> SUFFICES ASSUME SignedInv, Look PROVE SignedInv'
  OBVIOUS
<1> DEFINE s == check.signing
<1>1. check.step = "look" /\ UNCHANGED <<tree, wheels, pin, began>>
  BY DEF Look, Checking
<1>2. /\ check = [step |-> "look", signing |-> s, wheel |-> check.wheel, sig |-> check.sig,
                  before |-> check.before, outcome |-> check.outcome]
      /\ check.before = Hash(began') /\ check.outcome = "unverified" /\ s.method \in {"sigstore", "gpg"}
  BY <1>1 DEF SignedInv, CheckKnows, UnderWay
<1>3. CASE Verdict("error", "tool") /\ calm' = FALSE
  <2>1. check' = [step |-> "done", outcome |-> "error", why |-> "tool", signing |-> s, ended |-> tree]
    BY <1>3 DEF Verdict, Outcome
  <2>2. "tool" # "signature" /\ "tool" # "pin" /\ "error" \in {"verified", "unverified", "error"}
    OBVIOUS
  <2> QED BY <1>1, <1>3, <2>1, <2>2, Ends
<1>4. ASSUME NEW listed \in BOOLEAN, NEW dirKnown \in BOOLEAN, NEW w \in FindsWheel(listed, dirKnown),
             NEW sig, sig = (IF s.method = "gpg" THEN FindsSignature(w) ELSE "bundle"),
             check' = [check EXCEPT !.step = IF w = NoWheel \/ sig = "none" THEN "after" ELSE "open", !.wheel = w, !.sig = sig],
             calm' = (calm /\ listed)
      PROVE  SignedInv'
  <2> DEFINE step == IF w = NoWheel \/ sig = "none" THEN "after" ELSE "open"
  <2>1. check' = [step |-> step, signing |-> s, wheel |-> w, sig |-> sig, before |-> Hash(began'), outcome |-> "unverified"]
    BY <1>2, <1>4
  <2>2. step \in {"after", "open"} /\ (step = "open" => sig # "none")
    OBVIOUS
  <2>3. ASSUME calm' PROVE (w = NoWheel /\ wheels = {}) \/ w \in wheels
    BY <1>4, <2>3 DEF FindsWheel
  <2>4. ASSUME calm', step = "open" PROVE w \in wheels
    BY <2>3, <2>4
  <2>5. ASSUME calm', step = "after" PROVE AnswerRight(s, "unverified")
    <3>1. CASE wheels = {}
      BY <3>1 DEF AnswerRight
    <3>2. CASE w \in wheels
      <4>1. w # NoWheel
        BY <3>2 DEF SignedInv, Wheel, NoWheel
      <4>2. sig = "none"
        BY <2>5, <4>1
      <4>3. s.method = "gpg" /\ FindsSignature(w) = "none"
        BY <1>2, <1>4, <4>2
      <4>4. ~Attested(s, w)
        BY <4>3 DEF Attested
      <4> QED BY <3>2, <4>4 DEF AnswerRight
    <3> QED BY <2>3, <2>5, <3>1, <3>2
  <2>6. calm' \in BOOLEAN
    BY <1>4 DEF SignedInv
  <2>7. step \in {"look", "open", "run", "after"} /\ (step # "after" => s.method \in {"sigstore", "gpg"})
    BY <1>2, <2>2
  <2>8. step \in {"open", "run"} /\ calm' =>
          w \in wheels /\ sig # "none" /\ sig = (IF s.method = "gpg" THEN FindsSignature(w) ELSE "bundle")
    BY <1>4, <2>2, <2>4
  <2>9. step = "after" /\ calm' => AnswerRight(s, "unverified")
    BY <2>5
  <2>10. "unverified" \in {"verified", "unverified"}
    OBVIOUS
  <2>11. tree' = tree /\ wheels' = wheels /\ pin' = pin
    BY <1>1
  <2>12. step # "after" => "unverified" = "unverified" /\ s.method \in {"sigstore", "gpg"}
    BY <2>7
  <2>13. step \in {"look", "open", "run", "after"}
    BY <2>7
  <2> HIDE DEF step
  <2> QED BY <2>1, <2>6, <2>8, <2>9, <2>10, <2>11, <2>12, <2>13, GoesOn
<1>5. \/ Verdict("error", "tool") /\ calm' = FALSE
      \/ \E listed, dirKnown \in BOOLEAN : \E w \in FindsWheel(listed, dirKnown) : \E sig :
           /\ sig = (IF s.method = "gpg" THEN FindsSignature(w) ELSE "bundle")
           /\ check' = [check EXCEPT !.step = IF w = NoWheel \/ sig = "none" THEN "after" ELSE "open", !.wheel = w, !.sig = sig]
           /\ calm' = (calm /\ listed)
  BY DEF Look
<1> QED BY <1>3, <1>4, <1>5

\* their files are opened,
LEMMA OpenKeeps == SignedInv /\ OpenFiles => SignedInv'
<1> SUFFICES ASSUME SignedInv, OpenFiles PROVE SignedInv'
  OBVIOUS
<1> DEFINE s == check.signing
           step == IF check.wheel \in wheels THEN "run" ELSE "after"
<1>1. check.step = "open" /\ UNCHANGED <<tree, wheels, pin, began, calm>>
  BY DEF OpenFiles, Checking
<1>2. /\ check = [step |-> "open", signing |-> s, wheel |-> check.wheel, sig |-> check.sig,
                  before |-> check.before, outcome |-> check.outcome]
      /\ check.before = Hash(began') /\ check.outcome = "unverified" /\ s.method \in {"sigstore", "gpg"}
  BY <1>1 DEF SignedInv, CheckKnows, UnderWay
<1>3. check' = [step |-> step, signing |-> s, wheel |-> check.wheel, sig |-> check.sig,
                before |-> Hash(began'), outcome |-> "unverified"]
  BY <1>2 DEF OpenFiles
<1>4. step \in {"run", "after"}
  OBVIOUS
<1>5. calm => /\ check.wheel \in wheels /\ check.sig # "none" /\ step = "run"
              /\ check.sig = IF s.method = "gpg" THEN FindsSignature(check.wheel) ELSE "bundle"
  BY <1>1 DEF SignedInv, CheckKnows
<1>6. calm' \in BOOLEAN
  BY <1>1 DEF SignedInv
<1> HIDE DEF step
<1> QED BY <1>1, <1>2, <1>3, <1>4, <1>5, <1>6, GoesOn

\* the tool says what they attest,
LEMMA RunKeeps == SignedInv /\ RunTool => SignedInv'
<1> SUFFICES ASSUME SignedInv, RunTool PROVE SignedInv'
  OBVIOUS
<1> DEFINE s == check.signing
           w == check.wheel
           good == /\ w \in wheels /\ Signer(w, check.sig) = s.key
                   /\ s.method = "sigstore" => SignedBy[w].logged
<1>1. check.step = "run" /\ UNCHANGED <<tree, wheels, pin, began>>
  BY DEF RunTool, Checking
<1>2. /\ check = [step |-> "run", signing |-> s, wheel |-> w, sig |-> check.sig,
                  before |-> check.before, outcome |-> check.outcome]
      /\ check.before = Hash(began') /\ check.outcome = "unverified" /\ s.method \in {"sigstore", "gpg"}
  BY <1>1 DEF SignedInv, CheckKnows, UnderWay
<1>3. CASE Verdict("error", "tool") /\ calm' = FALSE
  <2>1. check' = [step |-> "done", outcome |-> "error", why |-> "tool", signing |-> s, ended |-> tree]
    BY <1>3 DEF Verdict, Outcome
  <2>2. "tool" # "signature" /\ "tool" # "pin" /\ "error" \in {"verified", "unverified", "error"}
    OBVIOUS
  <2> QED BY <1>1, <1>3, <2>1, <2>2, Ends
<1>4. CASE check' = [check EXCEPT !.step = "after"] /\ calm' = FALSE
  <2>1. check' = [step |-> "after", signing |-> s, wheel |-> w, sig |-> check.sig,
                  before |-> Hash(began'), outcome |-> "unverified"]
    BY <1>2, <1>4
  <2>2. calm' \in BOOLEAN /\ ~calm'
    BY <1>4
  <2>3. "after" \in {"look", "open", "run", "after"} /\ "unverified" \in {"verified", "unverified"}
    OBVIOUS
  <2>4. ("after" # "after" => s.method \in {"sigstore", "gpg"}) /\ "after" \notin {"open", "run"}
    OBVIOUS
  <2> HIDE DEF s, w
  <2> QED BY <1>1, <2>1, <2>2, <2>3, <2>4, GoesOn
<1>5. CASE check' = [check EXCEPT !.step = "after", !.outcome = IF good THEN "verified" ELSE "unverified"] /\ calm' = calm
  <2> DEFINE outcome == IF good THEN "verified" ELSE "unverified"
  <2>1. check' = [step |-> "after", signing |-> s, wheel |-> w, sig |-> check.sig,
                  before |-> Hash(began'), outcome |-> outcome]
    BY <1>2, <1>5
  <2>2. outcome \in {"verified", "unverified"} /\ (outcome = "verified" <=> good)
    OBVIOUS
  <2>3. ASSUME calm PROVE w \in wheels /\ (good <=> Attested(s, w))
    <3>1. w \in wheels /\ check.sig # "none" /\ check.sig = IF s.method = "gpg" THEN FindsSignature(w) ELSE "bundle"
      BY <1>1, <2>3 DEF SignedInv, CheckKnows
    <3>2. CASE s.method = "gpg"
      BY <3>1, <3>2 DEF Attested
    <3>3. CASE s.method = "sigstore"
      <4>1. Signer(w, check.sig) = SignedBy[w].key
        BY <3>1, <3>3 DEF Signer
      <4> QED BY <3>1, <3>3, <4>1 DEF Attested
    <3> QED BY <1>2, <3>1, <3>2, <3>3
  <2>4. ASSUME calm PROVE AnswerRight(s, outcome)
    <3> HIDE DEF good, outcome
    <3> QED BY <2>2, <2>3, <2>4 DEF AnswerRight
  <2>5. calm' \in BOOLEAN
    BY <1>5 DEF SignedInv
  <2>6. "after" \in {"look", "open", "run", "after"} /\ "after" \notin {"open", "run"}
    OBVIOUS
  <2>7. calm' => AnswerRight(s, outcome)
    BY <1>5, <2>4
  <2> HIDE DEF outcome, s, w, good
  <2> QED BY <1>1, <2>1, <2>2, <2>5, <2>6, <2>7, GoesOn
<1> QED BY <1>3, <1>4, <1>5 DEF RunTool

\* and the package is hashed once more, to see that it is still the one it was.
LEMMA AgainKeeps == SignedInv /\ HashAgain => SignedInv'
<1> SUFFICES ASSUME SignedInv, HashAgain PROVE SignedInv'
  OBVIOUS
<1>1. check.step = "after" /\ UNCHANGED <<tree, wheels, pin, began, calm>>
  BY DEF HashAgain, Checking
<1>2. /\ check.before = Hash(began') /\ check.outcome \in {"verified", "unverified"} /\ calm' \in BOOLEAN
      /\ calm => AnswerRight(check.signing, check.outcome)
  BY <1>1 DEF SignedInv, CheckKnows, UnderWay
<1>3. CASE Verdict("unverified", "changed")
  <2>1. check' = [step |-> "done", outcome |-> "unverified", why |-> "changed", signing |-> check.signing, ended |-> tree]
    BY <1>3 DEF Verdict, Outcome
  <2>2. /\ "changed" # "signature" /\ "changed" # "pin" /\ "unverified" # "error"
        /\ "unverified" \in {"verified", "unverified", "error"}
    OBVIOUS
  <2> QED BY <1>1, <1>2, <2>1, <2>2, Ends
<1>4. CASE /\ Verdict(check.outcome, "signature")
           /\ ~(check.before # NoHash /\ Hash(tree) # NoHash /\ check.before # Hash(tree))
  <2> DEFINE outcome == check.outcome
             s == check.signing
  <2>1. check' = [step |-> "done", outcome |-> outcome, why |-> "signature", signing |-> s, ended |-> tree]
    BY <1>4 DEF Verdict, Outcome
  <2>2. "signature" # "pin" /\ outcome \in {"verified", "unverified", "error"} /\ outcome # "error"
    BY <1>2
  <2>3. NoHash \in {Hash(began'), Hash(tree)} \/ Hash(began') = Hash(tree)
    BY <1>2, <1>4
  <2>4. calm' => AnswerRight(s, outcome)
    BY <1>1, <1>2
  <2> HIDE DEF outcome, s
  <2> QED BY <1>1, <1>2, <2>1, <2>2, <2>3, <2>4, Ends
<1> QED BY <1>3, <1>4 DEF HashAgain

\* What others do to the files is seen by nobody but the next check.
LEMMA SignedStep == SignedInv /\ [SignedNext]_signed => SignedInv'
<1> SUFFICES ASSUME SignedInv, [SignedNext]_signed PROVE SignedInv'
  OBVIOUS
<1>1. CASE \E s \in Signings : BeginPinned(s) \/ BeginCheck(s)
  BY <1>1, BeginKeeps
<1>2. CASE Look \/ OpenFiles \/ RunTool \/ HashAgain
  BY <1>2, LookKeeps, OpenKeeps, RunKeeps, AgainKeeps
<1>3. CASE Taken
  <2>1. check'.step = "idle" /\ UNCHANGED <<calm, wheels>>
    BY <1>3 DEF Taken, Checking
  <2> QED BY <2>1, Idle DEF SignedInv
<1>4. CASE Pin \/ Unpin
  <2>1. check'.step = "idle" /\ UNCHANGED <<calm, wheels>>
    BY <1>4 DEF Pin, Unpin
  <2> QED BY <2>1, Idle DEF SignedInv
<1>5. CASE Install \/ InstallOther \/ EditDocs \/ Overflow \/ \E w \in Wheel : Cache(w)
  <2>1. UNCHANGED <<check, began, pin>> /\ ~calm' /\ calm' \in BOOLEAN
    BY <1>5 DEF Install, InstallOther, EditDocs, Overflow, Cache, Upheaval
  <2>2. wheels' \subseteq Wheel
    BY <1>5 DEF Install, InstallOther, EditDocs, Overflow, Cache, SignedInv
  <2> QED BY <2>1, <2>2, Rests
<1>6. CASE UNCHANGED signed
  <2>1. UNCHANGED <<check, began, pin, calm, tree, wheels>>
    BY <1>6 DEF signed
  <2> QED BY <2>1, Rests DEF SignedInv
<1> QED BY <1>1, <1>2, <1>3, <1>4, <1>5, <1>6 DEF SignedNext

\* Whatever is installed, purged or lost while a check goes on: nothing is verified whose
\* files changed, an answer undisturbed is the one the wheels attest, and an error never
\* stands for a bad signature.
THEOREM AnswersAttested == SignedSpec => []SignatureSound
<1>1. SignedInv => SignatureSound
  BY DEF SignedInv
<1> QED BY <1>1, SignedStarts, SignedStep, PTL DEF SignedSpec

\* A plugin on its way to its process, for any packages, processes, wheels and messages:
\* changes of its record that returned are seen, what is loaded may be, verdicts on
\* signatures are right, and its process hears of its life in order.
THEOREM WayIsSound == StateSpec /\ DiscoverySpec /\ SignedSpec /\ HostSpec => []PluginsSound
<1>1. ReturnedIsSeen /\ LoadingSound /\ SignatureSound /\ HostSound => PluginsSound
  BY DEF PluginsSound
<1> QED BY <1>1, ChangesAreSeen, LoadedIsSound, AnswersAttested, ChildInOrder, PTL
=============================================================================
