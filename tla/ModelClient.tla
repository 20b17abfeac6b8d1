----------------------------- MODULE ModelClient -----------------------------
(***************************************************************************)
(* One chat request to an inference server, by either client               *)
(* (src/src/ollama/client.ts, openai-client.ts): the request body, up to   *)
(* four attempts until headers come, then a stream of lines cut anywhere   *)
(* by the network; and the queue that paces embedding requests.            *)
(*                                                                         *)
(* Abstractions.  A line of the stream is a number, and each of its halves *)
(* is what the network can deliver apart; a budget of tokens is 0 for "no  *)
(* room" and 1 for "the answer's", plus 2 when there is room for thinking. *)
(* An embedding's own HTTP attempts are left out: only its turn is kept.   *)
(* One behaviour is a request of one client, or the embedding queue.       *)
(***************************************************************************)
EXTENDS Integers, Sequences, SequencesExt, FiniteSets

CONSTANTS
  Lines,          \* lines of a complete answer
  MaxAttempts,    \* attempts at a request (client.ts, openai-client.ts: 4)
  Embeds,         \* embedding requests
  Interval,       \* least time between two of them (650 ms)
  MaxTime,        \* bound: clock
  Transcripts,    \* the transcripts a request can carry
  None            \* "no time"

VARIABLES kind, ask, body, attempt, phase, sent, held, heard, shown,
          aborted, clock, waiting, lastAt, fired

clientVars == <<kind, ask, body, attempt, phase, sent, held, heard, shown,
                aborted, clock, waiting, lastAt, fired>>

requestVars == <<kind, ask, body, attempt, phase, sent, held, heard, shown>>
embedVars == <<clock, waiting, lastAt, fired>>

-----------------------------------------------------------------------------
(* The OpenAI body.                                                        *)

\* A transcript is a sequence of numbers: n > 0 is an assistant message with n
\* tool calls, 0 a tool result, -1 anything else.
\* The translation's state: what has been put out, the ids not yet answered.
\* Ids left over are given up when new calls come.
OpenAfterAll(state, ids) == state.open \o ids        \* a bug: they go first

OpenAfter(state, ids) == ids

Stitched(state, message) ==
  LET here == Len(state.out) IN
  CASE message > 0 ->
         LET ids == [i \in 1..message |-> <<here, i>>] IN
         [out |-> Append(state.out, [calls |-> ids, answers |-> None]),
          open |-> OpenAfter(state, ids)]
    [] message = 0 /\ state.open # <<>> ->
         [out |-> Append(state.out, [calls |-> <<>>, answers |-> Head(state.open)]),
          open |-> Tail(state.open)]
    [] message = 0 /\ state.open = <<>> ->
         [state EXCEPT !.out = Append(@, [calls |-> <<>>, answers |-> <<here, 1>>])]
    [] OTHER ->
         [state EXCEPT !.out = Append(@, [calls |-> <<>>, answers |-> None])]

ToOpenAIMessages(transcript) ==
  FoldLeft(Stitched, [out |-> <<>>, open |-> <<>>], transcript).out

\* max_tokens is computed from what the caller asked, before a leak-flagged
\* model has its thinking turned on again.
MaxTokens(a) == IF a.think = "off" THEN 1 ELSE 3

Coerced(a) == a.capable /\ a.leaks /\ a.think \in {"off", "unset"}

Think(a) ==
  CASE Coerced(a) -> "on"
    [] a.capable /\ ~Coerced(a) -> a.think
    [] OTHER -> "unset"                  \* not declared: omitted, the server decides

RequestBody(k, a) ==
  IF k = "openai"
    THEN [think |-> Think(a), tokens |-> MaxTokens(a),
          messages |-> ToOpenAIMessages(a.transcript)]
    ELSE [think |-> a.think, tokens |-> 1, messages |-> <<>>]

-----------------------------------------------------------------------------
(* Attempts.                                                               *)

Asks == [think : {"unset", "off", "on"}, leaks : BOOLEAN, capable : BOOLEAN,
         transcript : Transcripts \union {<<>>}]

Init ==
  /\ kind \in {"ollama", "openai", "embedding"}
  /\ ask \in Asks
  /\ kind # "openai" => ask = [think |-> "off", leaks |-> FALSE, capable |-> TRUE,
                               transcript |-> <<>>]
  /\ body = RequestBody(kind, ask)
  /\ attempt = 1 /\ phase = IF kind = "embedding" THEN "idle" ELSE "asking"
  /\ sent = 0 /\ held = 0
  /\ heard = <<>> /\ shown = <<>>
  /\ aborted = FALSE
  /\ clock = 0 /\ waiting = <<>> /\ lastAt = None /\ fired = <<>>

\* No headers within the limit: no second attempt.
TimesOut ==
  /\ phase = "asking"
  /\ phase' = "failed"
  /\ UNCHANGED <<kind, ask, body, attempt, sent, held, heard, shown, aborted, embedVars>>

\* The connection fails (always, once inference is aborted), or the server is
\* busy: the next attempt, or after the last the error.
AfterFailedAttempt == IF attempt < MaxAttempts THEN "asking" ELSE "failed"

AttemptFails ==
  /\ phase = "asking"
  /\ phase' = AfterFailedAttempt
  /\ attempt' = IF attempt < MaxAttempts THEN attempt + 1 ELSE attempt
  /\ UNCHANGED <<kind, ask, body, sent, held, heard, shown, aborted, embedVars>>

\* Any other error status.
Refused ==
  /\ phase = "asking" /\ ~aborted
  /\ phase' = "failed"
  /\ UNCHANGED <<kind, ask, body, attempt, sent, held, heard, shown, aborted, embedVars>>

HeadersCome ==
  /\ phase = "asking" /\ ~aborted
  /\ phase' = "streaming"
  /\ UNCHANGED <<kind, ask, body, attempt, sent, held, heard, shown, aborted, embedVars>>

-----------------------------------------------------------------------------
(* The stream: half h of the answer belongs to line (h + 1) \div 2.        *)

Halves == 2 * Lines
\* The lines whose first and second half lie in halves from+1 .. to.
WholeIn(from, to) ==
  LET before == (from + 1) \div 2
  IN [i \in 1..((to \div 2) - before) |-> before + i]

\* The OpenAI client keeps what follows the last newline for the next read; the
\* Ollama client parses each read by itself, and a cut line is two bad lines.
FirstUnparsed(k) == IF k = "openai" THEN sent - held ELSE sent

HeldAfter(k, to) == IF k = "openai" THEN to % 2 ELSE 0

Read ==
  /\ phase = "streaming" /\ ~aborted
  /\ \E to \in sent+1..Halves :
       LET new == WholeIn(FirstUnparsed(kind), to) IN
       /\ sent' = to
       /\ held' = HeldAfter(kind, to)
       /\ heard' = heard \o new
       /\ shown' = shown \o new
  /\ UNCHANGED <<kind, ask, body, attempt, phase, aborted, embedVars>>

\* The stream ends, whether or not the answer did: a response.
Ends ==
  /\ phase = "streaming" /\ ~aborted
  /\ phase' = "answered"
  /\ UNCHANGED <<kind, ask, body, attempt, sent, held, heard, shown, aborted, embedVars>>

\* A read rejects: the error goes to the caller, there is no second attempt.
AfterBrokenStream == "failed"

Breaks ==
  /\ phase = "streaming"
  /\ phase' = AfterBrokenStream
  /\ sent' = 0 /\ held' = 0
  /\ heard' = <<>>
  /\ UNCHANGED <<kind, ask, body, attempt, shown, aborted, embedVars>>

\* Shutdown: every request now in flight, and every later one, rejects.
AbortAllInference ==
  /\ ~aborted
  /\ aborted' = TRUE
  /\ UNCHANGED <<requestVars, embedVars>>

-----------------------------------------------------------------------------
(* Embeddings wait in a chain; the head knows when it is due.              *)

DueOf(last) == IF last = None THEN clock ELSE last + Interval

\* An entry behind others learns its time when its turn comes.
DueOnEntry == IF waiting = <<>> THEN DueOf(lastAt) ELSE None

EmbedThrottle(e) ==
  /\ kind = "embedding"
  /\ \A i \in DOMAIN waiting : waiting[i].call # e
  /\ \A i \in DOMAIN fired : fired[i].call # e
  /\ waiting' = Append(waiting, [call |-> e, due |-> DueOnEntry])
  /\ UNCHANGED <<requestVars, aborted, clock, lastAt, fired>>

EmbedGoes ==
  /\ waiting # <<>>
  /\ Head(waiting).due # None /\ clock >= Head(waiting).due
  /\ fired' = Append(fired, [call |-> Head(waiting).call, at |-> clock])
  /\ lastAt' = clock
  /\ LET rest == Tail(waiting) IN
     waiting' = IF rest # <<>> /\ rest[1].due = None
                  THEN [rest EXCEPT ![1].due = clock + Interval] ELSE rest
  /\ UNCHANGED <<requestVars, aborted, clock>>

Tick ==
  /\ kind = "embedding" /\ clock < MaxTime
  /\ clock' = clock + 1
  /\ UNCHANGED <<requestVars, aborted, waiting, lastAt, fired>>

-----------------------------------------------------------------------------

Request ==
  TimesOut \/ AttemptFails \/ Refused \/ HeadersCome \/ Read \/ Ends \/ Breaks

Next ==
  \/ Request
  \/ AbortAllInference
  \/ \E e \in Embeds : EmbedThrottle(e)
  \/ EmbedGoes
  \/ Tick

Spec == Init /\ [][Next]_clientVars

-----------------------------------------------------------------------------

TypeOK ==
  /\ kind \in {"ollama", "openai", "embedding"} /\ ask \in Asks
  /\ body.think \in {"unset", "off", "on"} /\ body.tokens \in 1..3
  /\ attempt \in 1..MaxAttempts
  /\ phase \in {"idle", "asking", "streaming", "answered", "failed"}
  /\ sent \in 0..Halves /\ held \in {0, 1}
  /\ heard \in Seq(1..Lines) /\ shown \in Seq(1..Lines)
  /\ aborted \in BOOLEAN
  /\ clock \in 0..MaxTime /\ lastAt \in (0..MaxTime) \union {None}
  /\ \A i \in DOMAIN fired : fired[i].call \in Embeds /\ fired[i].at \in 0..MaxTime
  /\ \A i \in DOMAIN waiting : waiting[i].call \in Embeds

\* However the network cuts the stream, what an OpenAI-style answer holds is
\* the lines that came, each once, in order (openai-client.ts, the read loop's
\* buffer).
StreamIsWholeOpenAI ==
  kind = "openai" /\ phase \in {"streaming", "answered"} =>
    heard = [i \in 1..(sent \div 2) |-> i]

\* What was shown while streaming is never shown again by another attempt:
\* attempts end when headers come (client.ts, openai-client.ts: "stream not yet
\* started, safe to redo").
ShownOnce ==
  \A i, j \in DOMAIN shown : i < j => shown[i] < shown[j]

\* A model that leaks its deliberation when thinking is off is never asked with
\* thinking off or left to its default, on a backend that can be told
\* (openai-client.ts, toRequestBody).
LeakersThink ==
  kind = "openai" /\ ask.leaks /\ ask.capable => body.think = "on"

\* In the body no call is answered twice, and the results that directly follow a
\* message with calls answer its calls, in order, as far as there are calls
\* (openai-client.ts, toOpenAIMessages).
ResultsAnswerTheirCalls ==
  kind = "openai" =>
    LET m == body.messages IN
    /\ \A i, j \in DOMAIN m : i # j /\ m[i].answers # None => m[i].answers # m[j].answers
    /\ \A i \in DOMAIN m : \A n \in 1..Len(m[i].calls) :
         i + n <= Len(m) /\ (\A k \in 1..n : ask.transcript[i + k] = 0)
           => m[i + n].answers = m[i].calls[n]

\* Two embedding requests start at least the interval apart, however many are
\* asked at once (client.ts, embedThrottle).
EmbedsArePaced ==
  \A i \in 1..Len(fired) - 1 : fired[i + 1].at >= fired[i].at + Interval

=============================================================================
