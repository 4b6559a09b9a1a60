----------------------------- MODULE RuleMaking -----------------------------
(***************************************************************************)
(* A rule made by a model: rules/_ai.py over ai/_client.py and the three   *)
(* providers, with rules/_schema.py to judge it.  What the model answers   *)
(* must be a rule and must find something on the page for every field;     *)
(* what is wrong with it is told back, a few times.  The user may cancel.  *)
(***************************************************************************)
EXTENDS FieldExtraction, RuleBook

CONSTANTS
  Provider,     \* some of openai, anthropic, google
  ModelAnswer,  \* what models answer: [form, rule], form text, prose or tool
  MaxAttempts,  \* _MAX_RESPONSE_RETRIES
  MaxMakings    \* bound: rules asked for

ASSUME MakingAssumption ==
  /\ {MaxAttempts, MaxMakings} \subseteq Nat \ {0}
  /\ \A a \in ModelAnswer : \A i \in DOMAIN a.rule.fields : HasSelectors(a.rule.fields[i])

VARIABLES
  provider, \* of the client
  strict,   \* the service knows JSON schemas
  making,   \* the rule under way: at, attempt, the probe's tries, the format, the answer
  feedback, \* what was told back: what was wrong with each answer that was refused
  cancel,   \* cancel_event
  chatsAfter, \* ghost: chats sent since the user cancelled
  chats,    \* ghost: chats sent for this rule
  makings

makingVars == <<provider, strict, making, feedback, cancel, chatsAfter, chats, makings>>

NoMaking == [at |-> "idle", attempt |-> 0, tries |-> 0, format |-> "schema", answer |-> <<>>, refused |-> FALSE]

-----------------------------------------------------------------------------
(* What makes a rule: validate_rule                                          *)

ValidName(n) == n \notin {"", "default", "malformed"}

\* _validate_transform: what it does not know it passes over.
ValidTransform(t) == "broken regex" \notin t

\* _validate_field_rule, of the field and of its fallbacks, of which a plain string may be
\* empty.
ValidSelector(s) == (s.css # "" \/ s.short) /\ s.extract \in {"text", "attr", "html"} /\ (s.extract = "attr" => s.attr = "named")
ValidField(f) ==
  /\ f.key \notin {"", "url", "depth", "timestamp"}
  /\ Len(f.selectors) <= FallbackDepth /\ ~f.selectors[1].short
  /\ \A i \in DOMAIN f.selectors : ValidSelector(f.selectors[i])
  /\ ValidTransform(f.transform) /\ (f.multiple => f.transform \cap {"regex", "replace"} = {})

\* The scope says what of domains and pattern there must be.
ScopeFits(r) ==
  CASE r.scope = "domain_pattern" -> r.domains # {} /\ r.pattern # ""
    [] r.scope = "domain_all" -> r.domains # {}
    [] r.scope = "global_pattern" -> r.domains = {} /\ r.pattern # ""
    [] r.scope = "any" -> r.domains = {}
    [] r.scope = "" -> TRUE
    [] OTHER -> FALSE

\* validate_rule
ValidRule(r) ==
  /\ r.schema \in 1 .. 2 /\ r.version >= 1 /\ ValidName(r.name)
  /\ "malformed" \notin r.domains /\ r.pattern # "broken" /\ ScopeFits(r)
  /\ \A i \in DOMAIN r.fields : ValidField(r.fields[i])

\* _validate_extraction: the rule is tried on the page it was made for.  The last selector
\* that is tried says what is there, unless one before it found something.
FindsAll(r) ==
  \A i \in DOMAIN r.fields :
    LET f == r.fields[i]
        values == {TrySelect(f.selectors[k], f.multiple) : k \in Tried(f)}
    IN \E v \in values : NonEmpty(v)

-----------------------------------------------------------------------------
(* The providers                                                             *)

\* _build_request_kwargs, _build_kwargs and _build_config: what a format becomes.
OpenaiRequest(format) == IF format = "schema" THEN "schema" ELSE "object"
AnthropicRequest(format) == IF format = "schema" THEN "tool" ELSE "words"
GoogleRequest(format) == IF format = "schema" THEN "schema" ELSE "object"
RequestFor(format) ==
  CASE provider = "openai" -> OpenaiRequest(format) [] provider = "anthropic" -> AnthropicRequest(format) [] OTHER -> GoogleRequest(format)

\* What comes to such a request: only who is asked in words may answer in prose, and only
\* who has a tool uses it.
AnswersTo(a, request) == CASE a.form = "tool" -> request = "tool" [] a.form = "prose" -> request \in {"words", "tool"} [] OTHER -> request # "tool"

\* _parse_response: OpenAI's looks at the text alone.
OpenaiReads(a) == [tool |-> FALSE, text |-> a.form = "text"]
AnthropicReads(a) == [tool |-> a.form = "tool", text |-> a.form = "text"]
GoogleReads(a) == [tool |-> a.form = "tool", text |-> a.form = "text"]
Reads(a) == CASE provider = "openai" -> OpenaiReads(a) [] provider = "anthropic" -> AnthropicReads(a) [] OTHER -> GoogleReads(a)

\* _map_error of each, of what the service's library raises.
OpenaiError(e) == CASE e = "filtered" -> "filtered" [] e = "refused" -> "invalid" [] OTHER -> e
AnthropicError(e) == CASE e \in {"refused", "filtered"} -> "invalid" [] e \in {"timeout", "connection"} -> "plain" [] OTHER -> e
GoogleError(e) == CASE e \in {"refused", "filtered"} -> "invalid" [] e \in {"timeout", "connection"} -> "plain" [] OTHER -> e
MapError(e) == CASE provider = "openai" -> OpenaiError(e) [] provider = "anthropic" -> AnthropicError(e) [] OTHER -> GoogleError(e)

ServiceTrouble == {"auth", "rate", "timeout", "connection", "server", "filtered"}

-----------------------------------------------------------------------------
(* The rule                                                                  *)

MakingInit ==
  /\ provider \in Provider /\ strict \in BOOLEAN
  /\ making = NoMaking /\ feedback = <<>> /\ cancel = FALSE /\ chatsAfter = 0 /\ chats = 0 /\ makings = 0

MakingAt(at) == making.at = at /\ UNCHANGED <<provider, strict, makings>>
MovesTo(at) == making' = [making EXCEPT !.at = at]

\* generate_sync: the messages are put together, or there is no page.
StartMaking ==
  /\ making.at = "idle" /\ makings < MaxMakings /\ makings' = makings + 1
  /\ making' \in {[NoMaking EXCEPT !.at = "attempt"], [NoMaking EXCEPT !.at = "failed"]}
  /\ feedback' = <<>> /\ cancel' = FALSE /\ chatsAfter' = 0 /\ chats' = 0 /\ UNCHANGED <<provider, strict>>

CancelMaking ==
  /\ making.at \in {"attempt", "probe", "chat", "judge"} /\ ~cancel /\ cancel' = TRUE
  /\ UNCHANGED <<provider, strict, making, feedback, chatsAfter, chats, makings>>

\* The user's wish is looked at before each attempt, and then the service is probed.
Attempt ==
  /\ MakingAt("attempt") /\ UNCHANGED <<feedback, cancel, chatsAfter, chats>>
  /\ IF cancel THEN MovesTo("cancelled") ELSE making' = [making EXCEPT !.at = "probe", !.tries = 1, !.refused = FALSE]

\* _probe_json_schema and _resolve_output_format: one who refuses gets no schema; what says
\* nothing is tried once more, and then taken for yes.
Resolved(format) == making' = [making EXCEPT !.at = "chat", !.format = format, !.refused = (format = "object")]
Probe ==
  /\ MakingAt("probe") /\ UNCHANGED <<feedback, cancel, chatsAfter, chats>>
  /\ \/ strict /\ Resolved("schema")
     \/ ~strict /\ Resolved(IF MapError("refused") = "invalid" THEN "object" ELSE "schema")
     \/ \E e \in ServiceTrouble :
          IF MapError(e) = "invalid" THEN Resolved("object")
          ELSE IF MapError(e) \in {"connection", "timeout", "server"} /\ making.tries = 1
               THEN making' = [making EXCEPT !.tries = 2] ELSE Resolved("schema")

\* chat: an answer, or an error of the client, which ends it all.
Chat ==
  /\ MakingAt("chat") /\ UNCHANGED <<feedback, cancel>>
  /\ chats' = chats + 1 /\ chatsAfter' = chatsAfter + (IF cancel THEN 1 ELSE 0)
  /\ \/ \E a \in ModelAnswer : /\ AnswersTo(a, RequestFor(making.format)) /\ (making.format = "schema" => strict)
                               /\ making' = [making EXCEPT !.at = "judge", !.answer = <<a>>]
     \/ MovesTo("failed")

\* _build_error_feedback
Complaint(a) == IF ~Reads(a).tool /\ ~Reads(a).text THEN "no JSON" ELSE IF ~ValidRule(a.rule) THEN "no rule" ELSE "finds nothing"

\* _parse_and_validate_response
Good(a) == (Reads(a).tool \/ Reads(a).text) /\ ValidRule(a.rule) /\ FindsAll(a.rule)
JudgeAnswer ==
  /\ MakingAt("judge") /\ UNCHANGED <<cancel, chatsAfter, chats>>
  /\ LET a == making.answer[1]
     IN IF Good(a) THEN MovesTo("made") /\ UNCHANGED feedback
        ELSE IF making.attempt = MaxAttempts - 1 THEN MovesTo("failed") /\ UNCHANGED feedback
        ELSE /\ making' = [making EXCEPT !.at = "attempt", !.attempt = @ + 1]
             /\ feedback' = Append(feedback, Complaint(a))

MakingEnds ==
  /\ MakingAt("made") \/ MakingAt("failed") \/ MakingAt("cancelled")
  /\ making' = NoMaking /\ feedback' = <<>> /\ cancel' = FALSE /\ chatsAfter' = 0 /\ chats' = 0

MakingNext == StartMaking \/ CancelMaking \/ Attempt \/ Probe \/ Chat \/ JudgeAnswer \/ MakingEnds
MakingSpec == MakingInit /\ [][MakingNext]_makingVars

MakingTypeOK ==
  /\ provider \in Provider /\ making.attempt \in 0 .. MaxAttempts - 1 /\ making.tries \in 0 .. 2
  /\ making.at \in {"idle", "attempt", "probe", "chat", "judge", "made", "failed", "cancelled"}
  /\ cancel \in BOOLEAN /\ chats \in 0 .. MaxAttempts

-----------------------------------------------------------------------------
\* A rule that is handed over is one, and every field of it has a selector that finds
\* something on the page, among those that will be tried.
MadeIsGood ==
  making.at = "made" =>
    LET r == making.answer[1].rule
    IN ValidRule(r) /\ \A i \in DOMAIN r.fields : Wanted(r.fields[i])

\* Every refused answer was told back before the next was asked for, and none was asked
\* for after an error of the service.
FeedbackComplete ==
  /\ making.at \in {"attempt", "probe", "chat", "judge", "made"} => Len(feedback) = making.attempt
  /\ making.at \in {"judge", "made"} => chats = Len(feedback) + 1
  /\ making.at = "cancelled" => cancel /\ chats = Len(feedback)

\* Who cancels pays for one answer more at most.
CancelHeeded == chatsAfter <= 1

\* A schema is not sent to who just refused one.
NoSchemaRefused == making.at \in {"chat", "judge"} /\ making.refused => making.format = "object"

\* A made rule is one that works, a model is told all that was wrong before it tries
\* again, a cancelled making ends, and a refused schema is not sent again.
MakingSound == MadeIsGood /\ FeedbackComplete /\ CancelHeeded /\ NoSchemaRefused

\* RulesAnswer, ExtractionSound and MakingSound: a page gets the rule that fits it best,
\* every field the first value its selectors find, and a rule that a model made is handed
\* over only if it does so on its page.
RulesSound == RulesAnswer /\ ExtractionSound /\ MakingSound
=============================================================================
