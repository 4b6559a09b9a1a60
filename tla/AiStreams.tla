------------------------------ MODULE AiStreams ------------------------------
(***************************************************************************)
(* Answers that arrive in pieces: the streams of ai/providers/openai.py,   *)
(* anthropic.py and google.py, and _StreamSession of ai/_client.py.  Calls *)
(* of tools are put together in a table that belongs to the provider's     *)
(* client, not to the stream; streams may be open at the same time, end,   *)
(* break, or be left by who reads them.                                    *)
(***************************************************************************)
EXTENDS Naturals, Sequences

CONSTANTS
  Stream,      \* streams somebody opens, one after the other or together
  CallId,      \* what calls of tools are told apart by
  Speech,      \* what a model may say: sequences of calls, each in some pieces
  ClientKind,  \* the provider's kind: some of openai, anthropic, google
  MaxOpened    \* bound: streams opened

ToolUse == [id : CallId, pieces : Nat \ {0}]

ASSUME StreamsAssumption ==
  /\ MaxOpened \in Nat /\ ClientKind \subseteq {"openai", "anthropic", "google"}
  /\ Speech \subseteq Seq(ToolUse) /\ "" \notin CallId

VARIABLES
  kind,     \* of the client
  toolTable,    \* _stream_tool_state: the indexes in their order, with the id and the pieces put together
  stream,   \* of each stream: at, the call and the chunk of it to come, what was told, and its usage
  counted,     \* calls in the usage tracker
  streamsOpened,
  leftOver, \* ghost: a stream broke, and none finished since
  uttered,     \* of each stream the calls its model makes
  mixed     \* ghost: streams that shared the client with another, or with its leavings

streams == <<kind, toolTable, stream, counted, streamsOpened, leftOver, uttered, mixed>>

\* The chunks of a speech, as each service sends them: of each call that it begins, the
\* pieces, and with Anthropic that it stops; then that the speech is at its end, and a last
\* one.  A call has its place in the speech as its index; OpenAI's usage comes by itself.
\* Google's grows: each chunk is taken for all of the text up to it.
Coming(s) == uttered[s][stream[s].call]
LastOfCall(s) == IF kind = "anthropic" THEN Coming(s).pieces + 1 ELSE Coming(s).pieces
Due(s) ==
  CASE stream[s].call <= Len(uttered[s]) ->
         (CASE kind = "google" -> "text"
            [] kind # "google" /\ stream[s].nth = 0 -> "start"
            [] kind # "google" /\ stream[s].nth \in 1 .. Coming(s).pieces -> "piece"
            [] OTHER -> "stop")
    [] stream[s].call = Len(uttered[s]) + 1 -> "finish"
    [] stream[s].call = Len(uttered[s]) + 2 /\ kind = "openai" -> "usage"
    [] stream[s].call = Len(uttered[s]) + 2 /\ kind = "anthropic" -> "end"
    [] OTHER -> "nothing"

Closed == [at |-> "none", call |-> 1, nth |-> 0, told |-> <<>>, seen |-> 0, usage |-> FALSE]

StreamsInit ==
  /\ kind \in ClientKind /\ toolTable = <<>> /\ stream = [s \in Stream |-> Closed]
  /\ counted = 0 /\ streamsOpened = 0 /\ leftOver = FALSE /\ uttered = [s \in Stream |-> <<>>] /\ mixed = {}

Running == {s \in Stream : stream[s].at = "open"}

OpenStream(s, speech) ==
  /\ stream[s].at # "open" /\ streamsOpened < MaxOpened /\ streamsOpened' = streamsOpened + 1
  /\ stream' = [stream EXCEPT ![s] = [Closed EXCEPT !.at = "open"]]
  /\ uttered' = [uttered EXCEPT ![s] = speech]
  /\ mixed' = IF Running # {} THEN mixed \cup Running \cup {s}
              ELSE IF leftOver /\ kind = "openai" THEN mixed \cup {s} ELSE mixed \ {s}
  /\ UNCHANGED <<kind, toolTable, counted, leftOver>>

-----------------------------------------------------------------------------
(* One chunk                                                                 *)

Arrives(s, type) == stream[s].at = "open" /\ Due(s) = type
Rest(s) ==
  IF Due(s) \in {"start", "piece", "stop"} /\ stream[s].nth < LastOfCall(s)
  THEN [stream[s] EXCEPT !.nth = @ + 1] ELSE [stream[s] EXCEPT !.call = @ + 1, !.nth = 0]
Tells(s, told) == stream' = [stream EXCEPT ![s] = [Rest(s) EXCEPT !.told = @ \o told]]
ToClient == UNCHANGED <<kind, counted, streamsOpened, uttered, mixed>>

\* What json.loads makes of the pieces: the call they are all of, or nothing
Arguments(got) ==
  IF \E s \in Stream : \E i \in DOMAIN uttered[s] : got = [n \in 1 .. uttered[s][i].pieces |-> <<uttered[s][i].id, n>>]
  THEN got[1][1] ELSE "nothing"
ToolCall(entry) == [id |-> entry.id, args |-> Arguments(entry.got)]

\* What a list has at these places, in order
Kept(list, places) ==
  LET upTo[k \in 0 .. Len(list)] == IF k = 0 THEN <<>>
                                    ELSE IF k \in places THEN Append(upTo[k - 1], list[k]) ELSE upTo[k - 1] IN
  upTo[Len(list)]

HasIndex(index) == \E p \in DOMAIN toolTable : toolTable[p].index = index
StateOf(index) == IF HasIndex(index) THEN toolTable[CHOOSE p \in DOMAIN toolTable : toolTable[p].index = index]
                  ELSE [index |-> index, id |-> "", got |-> <<>>]
With(entry) == IF HasIndex(entry.index) THEN [p \in DOMAIN toolTable |-> IF toolTable[p].index = entry.index THEN entry ELSE toolTable[p]]
               ELSE Append(toolTable, entry)
\* What the index has, with an id if it had none, and with the piece that comes
WithId(s) ==
  LET state == StateOf(stream[s].call)
  IN [index |-> stream[s].call, id |-> IF state.id = "" THEN Coming(s).id ELSE state.id, got |-> state.got]
Longer(s) ==
  LET state == StateOf(stream[s].call)
  IN [index |-> stream[s].call, id |-> state.id, got |-> Append(state.got, <<Coming(s).id, stream[s].nth>>)]

\* OpenAI's chunks: the first to give an id and a name for the index gives it for all.
OpenaiDelta(s) ==
  /\ kind = "openai"
  /\ \/ Arrives(s, "start") /\ toolTable' = With(WithId(s))
     \/ Arrives(s, "piece") /\ toolTable' = With(Longer(s))
  /\ Tells(s, <<>>) /\ ToClient /\ UNCHANGED leftOver

\* _flush_tool_states
Flushed == <<>>
Whole == Kept(toolTable, {p \in DOMAIN toolTable : toolTable[p].id # "" /\ toolTable[p].got # <<>>})
OpenaiFinish(s) ==
  /\ kind = "openai" /\ Arrives(s, "finish")
  /\ Tells(s, [i \in DOMAIN Whole |-> ToolCall(Whole[i])])
  /\ toolTable' = Flushed /\ leftOver' = FALSE /\ ToClient

\* The usage comes in a chunk without a choice, which is passed over.
OpenaiUsage(s) == kind = "openai" /\ Arrives(s, "usage") /\ Tells(s, <<>>) /\ ToClient /\ UNCHANGED <<toolTable, leftOver>>

\* _normalize_stream_event: a block begins anew at its index,
BlockStart(s) ==
  /\ kind = "anthropic" /\ Arrives(s, "start")
  /\ toolTable' = With([index |-> stream[s].call, id |-> Coming(s).id, got |-> <<>>])
  /\ Tells(s, <<>>) /\ ToClient /\ UNCHANGED leftOver
\* pieces go to where it is, or nowhere,
BlockDelta(s) ==
  /\ kind = "anthropic" /\ Arrives(s, "piece")
  /\ toolTable' = IF HasIndex(stream[s].call) THEN With(Longer(s)) ELSE toolTable
  /\ Tells(s, <<>>) /\ ToClient /\ UNCHANGED leftOver
\* and its end takes it out and tells it.
BlockStop(s) ==
  /\ kind = "anthropic" /\ Arrives(s, "stop")
  /\ Tells(s, IF HasIndex(stream[s].call) THEN <<ToolCall(StateOf(stream[s].call))>> ELSE <<>>)
  /\ toolTable' = Kept(toolTable, {p \in DOMAIN toolTable : toolTable[p].index # stream[s].call})
  /\ ToClient /\ UNCHANGED leftOver
MessageDelta(s) ==
  /\ kind \in {"anthropic", "google"} /\ Arrives(s, "finish")
  /\ stream' = [stream EXCEPT ![s] = [Rest(s) EXCEPT !.usage = TRUE]]
  /\ ToClient /\ UNCHANGED <<toolTable, leftOver>>
MessageStop(s) ==
  /\ kind = "anthropic" /\ Arrives(s, "end")
  /\ Tells(s, <<>>) /\ toolTable' = <<>> /\ leftOver' = FALSE /\ ToClient

\* Google's text: what is longer than the last is told, by a length each stream has itself.
GoogleText(s) ==
  /\ kind = "google" /\ Arrives(s, "text")
  /\ LET upTo == stream[s].call
     IN stream' = [stream EXCEPT ![s] = [Rest(s) EXCEPT !.seen = upTo,
                     !.told = @ \o [n \in 1 .. upTo - stream[s].seen |-> [id |-> stream[s].seen + n, args |-> "text"]]]]
  /\ ToClient /\ UNCHANGED <<toolTable, leftOver>>

\* finalize: only a stream that was read to its end is counted, with what it told of its
\* usage.
Finalize(s) ==
  /\ Arrives(s, "nothing")
  /\ stream' = [stream EXCEPT ![s].at = "ended"] /\ counted' = counted + (IF stream[s].usage THEN 1 ELSE 0)
  /\ UNCHANGED <<kind, toolTable, streamsOpened, leftOver, uttered, mixed>>

\* The connection breaks, or the reader leaves.
Break(s) ==
  /\ stream[s].at = "open" /\ Due(s) # "nothing"
  /\ stream' = [stream EXCEPT ![s].at = "broken"] /\ leftOver' = TRUE
  /\ UNCHANGED <<kind, toolTable, counted, streamsOpened, uttered, mixed>>

StreamsNext ==
  \E s \in Stream :
    \/ \E speech \in Speech : OpenStream(s, speech)
    \/ OpenaiDelta(s) \/ OpenaiFinish(s) \/ OpenaiUsage(s)
    \/ BlockStart(s) \/ BlockDelta(s) \/ BlockStop(s) \/ MessageDelta(s) \/ MessageStop(s)
    \/ GoogleText(s) \/ Finalize(s) \/ Break(s)

StreamsSpec == StreamsInit /\ [][StreamsNext]_streams

StreamsTypeOK ==
  /\ \A s \in Stream : stream[s].at \in {"none", "open", "ended", "broken"} /\ stream[s].usage \in BOOLEAN
  /\ counted \in 0 .. MaxOpened /\ leftOver \in BOOLEAN /\ mixed \subseteq Stream

-----------------------------------------------------------------------------
\* A stream that had the client to itself tells the calls its model made, each once, in
\* order, with its own arguments; with Anthropic's also after one that broke, and
\* Google's text is whole whoever else reads.
CallsAsMade ==
  \A s \in Stream : stream[s].at = "ended" /\ (s \notin mixed \/ kind = "google") =>
    stream[s].told = [i \in DOMAIN uttered[s] |->
      IF kind = "google" THEN [id |-> i, args |-> "text"] ELSE [id |-> uttered[s][i].id, args |-> uttered[s][i].id]]

\* Nothing stays in the table for the next once one was read to its end, or none was begun.
TableCleared ==
  Running = {} /\ ~leftOver => toolTable = <<>>

\* A stream alone tells just the calls its model made, piece by piece, and leaves the
\* table empty for the next.
StreamsSound == CallsAsMade /\ TableCleared
=============================================================================
