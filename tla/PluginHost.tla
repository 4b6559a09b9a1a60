------------------------------ MODULE PluginHost ------------------------------
(***************************************************************************)
(* The child process of a plugin, astroframe/_host.py: its start, the four *)
(* layers of its sandbox (_sandbox.py), the import of the plugin, and the  *)
(* loop that takes a line from stdin and answers with a line.  The parent  *)
(* is free: it may write anything at any time, not wait for an answer,     *)
(* close the pipe, or be gone.  PluginProcess has the parent that          *)
(* SubprocessPlugin is.  What a plugin passes before it has a process, its *)
(* record, its discovery and its signature, is in the modules extended.    *)
(***************************************************************************)
EXTENDS PluginState, PluginDiscovery, SignedPackage, Sequences, SequencesExt

CONSTANTS MaxWritten, MaxUnread    \* bounds: messages of the parent, in all and in the pipe

ASSUME HostAssumption == MaxWritten \in Nat /\ MaxUnread \in Nat

\* Lines the parent may write: the five the loop knows, a handshake of another protocol, a
\* type it does not know, what is no JSON, JSON that is no object, an empty line, and more
\* than 10 MB in a line
HostLine == {"handshake", "other_handshake", "setup", "process", "aclose",
         "unknown", "noise", "no_object", "blank", "huge"}

VARIABLES
  position,        \* "config", "layers", "import", "loop" or "over"
  heard,     \* the audit hook is installed, and _sentinel does not mute it
  stdin,     \* written and not read
  stdinOpen, readerGone, \* the ends of the pipes that the parent holds
  greeted, setUp,  \* handshake_done, setup_done
  instance,  \* plugin_instance: "none" or "some"
  life,      \* history: what was called of the plugin
  written, taken, dropped, blanks, answers, \* history: messages written, read, lost, empty; answers
  hasty      \* history: the parent wrote before it had the answer to the last

flags == <<greeted, setUp, instance>>
pipe == <<stdin, stdinOpen, readerGone>>
tally == <<written, taken, dropped, blanks, answers, hasty>>
host == <<position, heard, pipe, flags, life, tally>>

-----------------------------------------------------------------------------
(* The parent                                                                *)

Write(m) ==
  /\ stdinOpen /\ written < MaxWritten /\ Len(stdin) < MaxUnread /\ position # "over"
  /\ stdin' = Append(stdin, m) /\ written' = written + 1
  /\ hasty' = (hasty \/ answers < written)
  /\ UNCHANGED <<position, heard, stdinOpen, readerGone, flags, life, taken, dropped, blanks, answers>>

CloseStdin ==
  /\ stdinOpen /\ stdinOpen' = FALSE
  /\ UNCHANGED <<position, heard, stdin, readerGone, flags, life, tally>>

ParentGone ==
  /\ ~readerGone /\ readerGone' = TRUE /\ stdinOpen' = FALSE
  /\ UNCHANGED <<position, heard, stdin, flags, life, tally>>

-----------------------------------------------------------------------------
(* The layers of the sandbox                                                 *)

\* rlimit, seccomp, landlock and the audit hook: setup of each, then apply of each; what
\* fails is logged, and the next has its turn.
RaiseLayers ==
  /\ position = "layers"
  /\ heard' \in {TRUE, FALSE} /\ position' = "import"
  /\ UNCHANGED <<pipe, flags, life, tally>>

\* Only an import of the module or a constructor can fail here.
LayersFail ==
  /\ position = "layers" /\ position' = "over" /\ answers' = answers + 1
  /\ UNCHANGED <<heard, pipe, flags, life, written, taken, dropped, blanks, hasty>>

-----------------------------------------------------------------------------
(* The start                                                                 *)

LoadConfig ==
  /\ position = "config"
  /\ \/ position' = "layers" /\ UNCHANGED tally
     \/ position' = "over" /\ answers' = answers + 1 /\ UNCHANGED <<written, taken, dropped, blanks, hasty>>
  /\ UNCHANGED <<heard, pipe, flags, life>>

ImportPlugin ==
  /\ position = "import" /\ life' = Append(life, "import")
  /\ \/ position' = "loop" /\ UNCHANGED tally
     \/ position' = "over" /\ answers' = answers + 1 /\ UNCHANGED <<written, taken, dropped, blanks, hasty>>
  /\ UNCHANGED <<heard, pipe, flags>>

-----------------------------------------------------------------------------
(* The loop                                                                  *)

\* _read_line_guarded: what came in one read behind the end of the line is lost.
Take(m) ==
  /\ position = "loop" /\ stdin # <<>> /\ Head(stdin) = m
  /\ \E k \in 0 .. Len(stdin) - 1 :
       /\ stdin' = SubSeq(stdin, k + 2, Len(stdin)) /\ dropped' = dropped + k
  /\ taken' = taken + 1
  /\ UNCHANGED <<stdinOpen, readerGone, written, hasty>>

\* The finally clause: the layers are torn down, which only mutes the audit hook.
LoopEnds == position' = "over" /\ heard' = FALSE
LoopGoesOn == UNCHANGED <<position, heard>>

\* One line of answer; nobody to read it ends the loop.
AnswerAnd(next) ==
  /\ UNCHANGED blanks
  /\ IF readerGone THEN LoopEnds /\ UNCHANGED answers ELSE answers' = answers + 1 /\ next

\* _send_error and continue
SendError(m) == Take(m) /\ AnswerAnd(LoopGoesOn) /\ UNCHANGED <<flags, life>>

NotYetGreeted == ~greeted

Noise == SendError("noise")
NotGreeted(m) == NotYetGreeted /\ m \in {"setup", "process", "aclose", "unknown"} /\ SendError(m)
Unknown == greeted /\ SendError("unknown")

EmptyLine == Take("blank") /\ LoopGoesOn /\ blanks' = blanks + 1 /\ UNCHANGED <<flags, life, answers>>

\* What has no get, the loop does not survive.
NoObject == Take("no_object") /\ LoopEnds /\ UNCHANGED <<flags, life, blanks, answers>>

\* The answer, if it can be written, is the last; sys.exit passes the finally clause too.
Huge == Take("huge") /\ AnswerAnd(LoopEnds) /\ UNCHANGED <<flags, life>>

Handshake ==
  /\ Take("handshake") /\ AnswerAnd(LoopGoesOn)
  /\ greeted' = (greeted \/ ~readerGone)
  /\ UNCHANGED <<setUp, instance, life>>

OtherHandshake == Take("other_handshake") /\ AnswerAnd(LoopEnds) /\ UNCHANGED <<flags, life>>

SetUpAlready == greeted /\ setUp /\ SendError("setup")

\* What made the instance may be refused by _validate_plugin_instance, and its setup may raise.
Validated == {<<>>, <<"setup">>, <<"setup_ok">>}
SetUpCalls == {<<>>} \cup {<<"make">> \o rest : rest \in Validated}

\* Mutant: the flag is set before the plugin has agreed.
MutSetUpPlugin ==
  /\ greeted /\ ~setUp /\ Take("setup")
  /\ \E calls \in SetUpCalls :
       /\ life' = life \o calls /\ setUp' = TRUE
       /\ instance' = IF calls = <<>> THEN instance ELSE "some"
  /\ AnswerAnd(LoopGoesOn) /\ UNCHANGED greeted

\* The instance is made, looked at, and set up.  The name is bound by the first of these:
\* after a failure it stays, and another setup may follow.
SetUpPlugin ==
  /\ greeted /\ ~setUp /\ Take("setup")
  /\ \E calls \in SetUpCalls :
       /\ life' = life \o calls
       /\ setUp' = ("setup_ok" \in ToSet(calls))
       /\ instance' = IF calls = <<>> THEN instance ELSE "some"
  /\ AnswerAnd(LoopGoesOn) /\ UNCHANGED greeted

NotSetUp == greeted /\ ~setUp /\ SendError("process")

\* A context or a method the host does not know ends before the plugin is called.
Called == {life, Append(life, "call")}

CallPlugin ==
  /\ greeted /\ setUp /\ Take("process")
  /\ life' \in Called
  /\ AnswerAnd(LoopGoesOn) /\ UNCHANGED flags

\* The plugin's own sys.exit is none of the exceptions the loop knows.
PluginExits ==
  /\ greeted /\ setUp /\ Take("process")
  /\ life' = Append(life, "call") /\ LoopEnds /\ UNCHANGED <<flags, blanks, answers>>

AClose ==
  /\ greeted /\ Take("aclose")
  /\ IF instance = "none" THEN UNCHANGED <<flags, life>>
     ELSE /\ life' = Append(life, "aclose")
          /\ \/ UNCHANGED flags       \* it raised
             \/ setUp' = FALSE /\ instance' = "none" /\ UNCHANGED greeted
  /\ AnswerAnd(LoopEnds)

EndOfInput ==
  /\ position = "loop" /\ stdin = <<>> /\ ~stdinOpen /\ LoopEnds
  /\ UNCHANGED <<pipe, flags, life, tally>>

HostInit ==
  /\ position = "config" /\ heard = FALSE
  /\ stdin = <<>> /\ stdinOpen = TRUE /\ readerGone = FALSE
  /\ greeted = FALSE /\ setUp = FALSE /\ instance = "none" /\ life = <<>>
  /\ written = 0 /\ taken = 0 /\ dropped = 0 /\ blanks = 0 /\ answers = 0 /\ hasty = FALSE

HostNext ==
  \/ \E m \in HostLine : Write(m) \/ NotGreeted(m)
  \/ CloseStdin \/ ParentGone
  \/ LoadConfig \/ RaiseLayers \/ LayersFail \/ ImportPlugin
  \/ Noise \/ Unknown \/ EmptyLine \/ NoObject \/ Huge \/ Handshake \/ OtherHandshake
  \/ SetUpAlready \/ SetUpPlugin \/ NotSetUp \/ CallPlugin \/ PluginExits \/ AClose \/ EndOfInput

HostSpec == HostInit /\ [][HostNext]_host
-----------------------------------------------------------------------------
(* Properties                                                                *)

HostTypeOK ==
  /\ position \in {"config", "layers", "import", "loop", "over"} /\ instance \in {"none", "some"}
  /\ greeted \in BOOLEAN /\ setUp \in BOOLEAN /\ (heard => position \in {"import", "loop", "over"})
  /\ written \in 0 .. MaxWritten /\ taken + dropped + Len(stdin) = written

CalledBefore(x, k) == \E j \in 1 .. k - 1 : life[j] = x

\* Whatever the parent writes, in whatever order and however much of it is lost: the plugin
\* is imported first, is set up once at most, is called only after that, and hears nothing
\* more after its aclose, which it gets only if it was made.
LifeInOrder ==
  \A k \in DOMAIN life :
    CASE life[k] = "import" -> k = 1
      [] life[k] = "make" -> greeted /\ ~CalledBefore("setup_ok", k)
      [] life[k] \in {"setup", "setup_ok"} -> life[k - 1] = "make"
      [] life[k] = "call" -> CalledBefore("setup_ok", k)
      [] life[k] = "aclose" -> k = Len(life) /\ CalledBefore("make", k)

\* A parent that waits for each answer before it writes again loses no message.
PatientLosesNothing == ~hasty => dropped = 0 /\ written = taken + Len(stdin)

\* While the loop runs, each message that was read, but for empty answers, was answered with
\* one line; at the end at most the last was not.
AnswersOnce ==
  /\ position = "loop" => answers + blanks = taken
  /\ position = "over" => answers + blanks \in {taken, taken - 1, taken + 1}

\* What the parent may count on: order, answers, and no loss as long as it waits.
HostSound == LifeInOrder /\ PatientLosesNothing /\ AnswersOnce

\* ReturnedIsSeen, LoadingSound, SignatureSound and HostSound, of a plugin on its way to
\* its process: it is known again whatever became of its record, it is loaded only with
\* what its manifest, its signature and its dependencies allow, the verdict on its
\* signature is one of the files that are there and of a signature's own words, not of
\* what failed while they were looked at, and its process hears of its life in order.
PluginsSound == ReturnedIsSeen /\ LoadingSound /\ SignatureSound /\ HostSound
===============================================================================
