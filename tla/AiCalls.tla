------------------------------- MODULE AiCalls -------------------------------
(***************************************************************************)
(* Calls of the AI client: ai/_client.py and ai/_rate_limiter.py.  Threads *)
(* and tasks share one budget, a semaphore for how many go at once and a   *)
(* bucket of tokens for how many go in a minute.  A call that asks for a   *)
(* JSON schema is preceded by a probe, which takes a permit and a token of *)
(* its own.                                                                *)
(*                                                                         *)
(* The bucket is counted in parts of a token, one for each tick of the     *)
(* clock.                                                                  *)
(***************************************************************************)
EXTENDS Naturals, FiniteSets, FiniteSetsExt

CONSTANTS
  Thread, Task, \* callers of chat and chat_stream, and of achat, achat_stream and embed
  Capacity,     \* rpm: tokens the bucket holds
  TokenTicks,   \* ticks that fill one token
  AiConcurrency,
  MaxWait       \* ticks: max_wait

ASSUME CallsAssumption == {Capacity, TokenTicks, AiConcurrency, MaxWait} \subseteq Nat \ {0}

AiCaller == Thread \cup Task

\* The minute: what fills the bucket from empty
Minute == Capacity * TokenTicks

VARIABLES
  tokens,   \* parts of tokens in the bucket
  sem,      \* free permits of the semaphore
  call,     \* of each caller: where it is, for what, since when, how long it sleeps
  stray,    \* of each task: a thread waits for a permit that no one wants, and since when
  lostPermits,  \* permits such threads took
  sent      \* history: requests sent in each of the last ticks, by their age

aiCalls == <<tokens, sem, call, stray, lostPermits, sent>>

NoCall == [at |-> "free", stage |-> "ask", age |-> 0, left |-> 0]
NoStray == MaxWait + 1

CallGoes(c, at) == call' = [call EXCEPT ![c].at = at]

\* What follows a request that ended: after the probe the call itself begins, unless the
\* probe is tried once more.
After(c, again) ==
  call' = [call EXCEPT ![c] =
    IF @.stage = "ask" THEN NoCall
    ELSE [@ EXCEPT !.at = "permit", !.age = 0, !.stage = IF again /\ call[c].stage = "probe" THEN "reprobe" ELSE "ask"]]

\* chat, chat_stream, achat and achat_stream up to the semaphore
Call(c, schema) ==
  /\ call[c] = NoCall
  /\ call' = [call EXCEPT ![c] = [NoCall EXCEPT !.at = "permit", !.stage = IF schema THEN "probe" ELSE "ask"]]
  /\ UNCHANGED <<tokens, sem, stray, lostPermits, sent>>

Permit(c) ==
  /\ call[c].at = "permit" /\ sem > 0
  /\ sem' = sem - 1 /\ CallGoes(c, "token")
  /\ UNCHANGED <<tokens, stray, lostPermits, sent>>

\* Too long without a permit: AIRateLimitError, of which the probe makes nothing.
NoPermit(c) ==
  /\ call[c].at = "permit" /\ call[c].age >= MaxWait
  /\ After(c, FALSE)
  /\ UNCHANGED <<tokens, sem, stray, lostPermits, sent>>

Send(c) == CallGoes(c, "sent") /\ sent' = [sent EXCEPT ![0] = @ + 1]

\* Mutant: a token that is there is looked at and not taken.
MutToken(c) ==
  /\ call[c].at = "token"
  /\ IF tokens >= TokenTicks THEN Send(c) /\ UNCHANGED <<tokens, sem>>
     ELSE LET wait == TokenTicks - tokens IN
          /\ tokens' = 0 /\ UNCHANGED sent
          /\ IF call[c].age + wait > MaxWait THEN sem' = sem + 1 /\ After(c, FALSE)
             ELSE call' = [call EXCEPT ![c].at = "sleep", ![c].left = wait] /\ UNCHANGED sem
  /\ UNCHANGED <<stray, lostPermits>>

\* _wait_for_token: what is missing of a token is slept for, and the rest is thrown away;
\* the token that grows meanwhile is not kept for the sleeper.
Token(c) ==
  /\ call[c].at = "token"
  /\ IF tokens >= TokenTicks THEN tokens' = tokens - TokenTicks /\ Send(c) /\ UNCHANGED sem
     ELSE LET wait == TokenTicks - tokens IN
          /\ tokens' = 0 /\ UNCHANGED sent
          /\ IF call[c].age + wait > MaxWait THEN sem' = sem + 1 /\ After(c, FALSE)
             ELSE call' = [call EXCEPT ![c].at = "sleep", ![c].left = wait] /\ UNCHANGED sem
  /\ UNCHANGED <<stray, lostPermits>>

WakeUp(c) ==
  /\ call[c].at = "sleep" /\ call[c].left = 0 /\ Send(c)
  /\ UNCHANGED <<tokens, sem, stray, lostPermits>>

\* The answer, an error, or the end of a stream, read to its end or not: the permit is
\* given back.  A probe that failed in passing is tried again.
RequestEnds(c, again) ==
  /\ call[c].at = "sent" /\ sem' = sem + 1 /\ After(c, again)
  /\ UNCHANGED <<tokens, stray, lostPermits, sent>>

\* A task is cancelled while a thread of its own waits for the permit: the thread goes
\* on waiting.
CancelWait(c) ==
  /\ call[c].at = "permit" /\ c \in Task /\ call[c].stage = "ask" /\ stray[c] = NoStray
  /\ stray' = [stray EXCEPT ![c] = call[c].age] /\ call' = [call EXCEPT ![c] = NoCall]
  /\ UNCHANGED <<tokens, sem, lostPermits, sent>>

\* Anywhere else it gives the permit back.
Cancel(c) ==
  /\ call[c].at \in {"sleep", "sent"} /\ c \in Task /\ call[c].stage = "ask"
  /\ sem' = sem + 1 /\ call' = [call EXCEPT ![c] = NoCall]
  /\ UNCHANGED <<tokens, stray, lostPermits, sent>>

\* The thread gets a permit, for no one, or gives up.
StrayEnds(c) ==
  /\ stray[c] # NoStray /\ stray' = [stray EXCEPT ![c] = NoStray]
  /\ \/ sem > 0 /\ sem' = sem - 1 /\ lostPermits' = lostPermits + 1
     \/ stray[c] >= MaxWait /\ UNCHANGED <<sem, lostPermits>>
  /\ UNCHANGED <<tokens, call, sent>>

\* Sleepers may sleep longer than they meant to, but not a whole tick.
Tick ==
  /\ \A c \in AiCaller : call[c].at = "sleep" => call[c].left > 0
  /\ \A c \in AiCaller : call[c].at # "token"
  /\ tokens' = Min({tokens + 1, Minute})
  /\ call' = [c \in AiCaller |->
       [call[c] EXCEPT !.age = IF call[c].at \in {"free", "sent"} THEN 0 ELSE Min({@ + 1, MaxWait}),
                       !.left = IF @ = 0 THEN 0 ELSE @ - 1]]
  /\ stray' = [c \in AiCaller |-> IF stray[c] = NoStray THEN NoStray ELSE Min({stray[c] + 1, MaxWait})]
  /\ sent' = [a \in 0 .. Minute - 1 |-> IF a = 0 THEN 0 ELSE sent[a - 1]]
  /\ UNCHANGED <<sem, lostPermits>>

CallsInit ==
  /\ tokens = Minute /\ sem = AiConcurrency
  /\ call = [c \in AiCaller |-> NoCall] /\ stray = [c \in AiCaller |-> NoStray] /\ lostPermits = 0
  /\ sent = [a \in 0 .. Minute - 1 |-> 0]

CallsNext ==
  \/ Tick
  \/ \E c \in AiCaller :
       \/ Permit(c) \/ NoPermit(c) \/ Token(c) \/ WakeUp(c)
       \/ CancelWait(c) \/ Cancel(c) \/ StrayEnds(c)
       \/ \E b \in BOOLEAN : RequestEnds(c, b) \/ Call(c, b)

CallsSpec == CallsInit /\ [][CallsNext]_aiCalls

CallsTypeOK ==
  /\ tokens \in 0 .. Minute /\ sem \in 0 .. AiConcurrency /\ lostPermits \in 0 .. AiConcurrency
  /\ \A c \in AiCaller : call[c].age <= MaxWait /\ call[c].left <= TokenTicks

-----------------------------------------------------------------------------
PermitHolders == {c \in AiCaller : call[c].at \in {"token", "sleep", "sent"}}

\* Every permit is free, in the hands of one call, or was taken for a task that had been
\* cancelled by then.
PermitsBack == sem + Cardinality(PermitHolders) + lostPermits = AiConcurrency

\* The requests sent in the last a + 1 ticks
SentWithin[a \in 0 .. Minute - 1] == sent[a] + IF a = 0 THEN 0 ELSE SentWithin[a - 1]

\* The limit of a minute is kept only so far: beside what the bucket held and what grows
\* in it, each permit lets one go for each token its holders slept for.
RateNearlyKept == SentWithin[Minute - 1] < (AiConcurrency + 2) * Capacity

\* A permit taken is given back whatever becomes of the call, and the rate stays bounded
\* whoever shares the limiter.
CallsBounded == PermitsBack /\ RateNearlyKept
=============================================================================
