# A verification of Invarail

Invarail is a local agent harness: messages arrive from chat channels, the web console or a
schedule, a router picks a specialist, a tool loop runs it against a local model, and the
answer is delivered. This directory holds TLA+ models of the parts whose correctness depends
on order, on failure or on what survives a restart, the TLC runs that check them, and the
proofs, checked by TLAPS, of what matters most. Paths below are relative to `src/src/` of the
repository unless they begin with another directory.

`PROJECT.json` holds the same in a form for tools: every part of the system, every definition
with the lines it stands for, every run with its properties, the hazards of the code with the
property that covers each, the disagreements found, and the theorems.

## The system

One Node process. Handlers are asynchronous functions: between two `await`s a handler runs
alone; at an `await` anything else may run. State is in memory (maps keyed by session, timers,
pending promises) and in files under `data/` and the agents' workspaces, most of them rewritten
whole; a graph database and a vector store lie outside the process. A supervisor restarts the
process; memory is lost then, files stay.

| Part | Source | State | Operations | What is hard | What makes it correct |
|---|---|---|---|---|---|
| Confirmation gate | `security/` pending-actions, grants, confirm-handler, tool-policy | ledger and grants files | preview, confirm by id or bare, always, deny, revoke, expire | concurrent confirmations, failed writes, death while the tool runs, policy changed meanwhile | a stored action runs at most once, a spent id stays spent, a grant was asked for |
| Debouncers | `services/message-debouncer.ts`, `media-debouncer.ts` | open paste and album of a sender, timers | collect, release | what else arrives meanwhile, released batches pass the handler again | parts neither lost nor reordered |
| Message handler, steering | `orchestrator.ts`, `services/rate-limiter.ts` | steering queue, stop flags, rate limit | receive, confirm, steer, start, drain, finish, replay | awaits before the busy check, messages after the last boundary, flags by session | one registered run, every message handled once, a stop hits its run |
| Dispatch and router | `dispatch.ts`, `router/` | route, tools used, exchange to keep | classify, run, hand off, reroute | three ways into a second dispatch | handed on once, within the channel's policy |
| Tool loop | `tool-loop/engine.ts` | budget, dedup, drift streak, repairs used | model call, tool batch, repair, checkpoint, synthesis, stop | everything extends the loop; dedup across batches | bounded, ends, no third identical run |
| Research | `pipeline/definitions/research.ts`, `pipeline/verification.ts` | context of the run, report, files | stages, concurrent fetches, verification, stop | partial failure, doubts that vanish | the report rests on what was found, with its doubts |
| Plan, multi | `pipeline/definitions/plan.ts`, `dispatch.ts` | steps, artifacts, transcript | plan, sub-task, replan, summarise | a failing step replanned, shared artifacts | no step dropped in silence, bounded |
| Other pipelines | `pipeline/` cron, memory, task, message, exec, web-search, website, heartbeat, code-gen | context, effects | extract, act, confirm, report | failed extraction, stop after an effect, verdict before the fix | what is said was done |
| Session memory | `sessions/`, `context/compactor.ts`, `dispatch.ts` | transcript, summary, state, compaction cache | dispatch, prewarm, extraction, reset | detached work that ends after the session changed | the model is shown exactly the session |
| Fact capture, review gate | `services/memory-capture.ts`, `commands/builtin.ts` | marker file, pending list | capture, !reset, !save, !discard | three awaits per capture, one file for all sessions | nothing said is passed over unread |
| Fact store | `memory/fact-store.ts`, `fact-similarity.ts`, `consolidation.ts` | index, view, removals | write, forget, expire, promote, compact, consolidate | a gate in front of an await, pairs held during a model call | a fact held once, a forgotten one stays away |
| Graph memory | `memory/graph-store.ts` | nodes, SUPERSEDES edges | add, forget, promote, fade | checks and writes are separate queries | as for the store; a history can be walked |
| Learning | `learnings/`, `memory/experience-store.ts`, `coding/improvement-proposals.ts` | lessons, experiences, markers, history of proposals | harvest, synthesise, archive, propose | marker at the end of a cycle with awaits | evidence counted once |
| Heartbeat | `services/heartbeat-service.ts`, `email-steward.ts` | pending review file, mail state and digest | review, propose, answer, poll, report | the file is numbered and changes under the report; two polls | the owner is asked once and by true numbers |
| Task board | `tasks/store.ts` | board | add, edit, finish, tidy | two passes over one list | tidying loses no work |
| Briefings and prep | `services/briefing-service.ts`, `prep-proposals.ts`, `prep-context.ts` | questions, offers | brief, capture a reply, confirm | overlapping briefings and replies | asked sparingly, answers kept |
| Vault, web index | `knowledge/vault.ts`, `webindex/`, `memory/embeddings.ts` | rows and chunks, vectors | reindex, cycle, backfill | edited while read, failing fetch or embedder | what is passed over is current |
| Run journal | `services/run-journal.ts` | one file per running loop | open, close, sweep at boot | death anywhere, also in the sweep | only interrupted runs are announced, and all of them |
| Cron | `cron/` | job file, timers, running set | fire, retry, catch up, edit, remove | snapshots kept across waits, restart at fire time | no stacked runs, timers match jobs |
| Self-modification | `coding/`, `scripts/supervisor-lib.mjs` | worktree, verdicts, merge marker, main | propose, gate, merge, deploy, roll back | process exits in the middle, old confirmations | what is merged was judged and can be undone |
| Exec | `exec/`, `tools/code-session.ts`, `tools/exec.ts` | session pool, container | open, run, expire, start | late exit events, concurrent starts | interpreters stay reachable |
| MCP | `mcp/` | clients, pending requests, stored token | call, answer, time out, die, respawn, refresh | concurrent respawn, late answers, rotation | each answer to its request |
| Channels | `channels/` telegram, discord, gmail, web | polls, typing, waiting requests | update, poll, answer, time out | overlapping polls, timer against answer | mail handled before it is marked; texts whole |
| Console chat | `console/handlers/chat.ts`, `src/console/src/pages/Chat.tsx` | messages, voice mode, timers | send, New Chat, record | late answers of every kind | each message has its answer |
| Browser | `tools/browser.ts`, `browser/`, `src/chrome-extension/` | element numbers, queue of actions, panel | snapshot, act, poll, launch, close | the page changes, two panels | what is done was meant, and once |
| Model clients | `ollama/client.ts`, `openai-client.ts` | one request, embedding queue | attempt, stream, abort, pace | a stream cut anywhere | text whole, results to their calls |
| Not modelled | commands that call one service, agents, routes, identity, config, secret store, console and CLI front ends, the tool registry, metrics, voice, vision, attachments, setup, doctor | | | conversions, I/O, pure functions of the configuration | see "Not modelled" |

**How they interact.** A channel hands a message to the debouncers (`Debouncers`), they to
`handleMessage` (`Steering`): commands go to `runBuiltinCommand` (`FactCapture`, `Review`),
confirmations to `handleConfirmation` (`ConfirmLedger`), everything else to `dispatchMessage`,
which reads the session (`SessionMemory`), finds a specialist (`Dispatch`) and runs a tool loop
(`ToolLoop`) under a journal (`RunJournal`), or a pipeline (`Research`, `Orchestration`,
`Pipelines`). The loop drains the steering queue at its boundaries. It calls models
(`ModelClient`) and tools: browser, MCP, exec, vault, cron, tasks. A tool that needs
confirmation records a preview in the ledger; confirming it runs the tool and a continuation
dispatch. After delivery `handleMessage` replays what nobody drained and schedules a capture
(`FactCapture`), which writes facts to the store and the graph (`FactStore`, `GraphMemory`).
The heartbeat and the scheduler start work without a message: review, steward, lessons,
experiences, proposals, prep, indexing. A confirmed proposal becomes a self-modification
(`SelfMod`). Each module models its part with the others as nondeterministic environment: a
message comes, a model answers or fails, a send or a write fails, the process dies.

## Modules

A step of every module ends where the code awaits; what runs between two awaits is one action.
A definition called a mutant in its comment is a plausible bug of the definition after it and
takes part in no specification: it documents what a property would catch. Variables called
*history* record what happened for a property to speak of and guard no action.

**Confirmation**

* `ConfirmLedger` - `ledger` and `grants` are the two files; a confirmation is an element of
  `confirming` from its consumption to the end of its tool and continuation. Every ledger
  write has an outcome; reading may find the file unreadable and so empty. The policy verdict
  is a set of refused tools that a restart may change. `Preview` and `Propose` are
  `recordPendingAction`; `ConfirmById`, `BareConfirm` and `Deny` are `handleConfirmation` with
  `consume`, up to the await of the tool, and `ToolFailed`, `ToolSucceeded` and
  `ContinuationEnd` are what follows it; `Revoke` is the grants store's.
* `ConfirmContract` - the abstract promise: one-shot offers that are made, withdrawn or start.

**A message on its way**

* `Debouncers` - the open album and the open paste of one sender (`media`, `text`), their
  timers, and the second pass of a released batch through the handler.
* `Steering` - `handleMessage` for one session key (which contains the sender). `where` says at
  which await the handler of each message is; `open`, `queue`, `cancel` are the session's
  entries of `steeringQueues` and `cancelRequests`.
* `Dispatch` - the cascade of the classifier, the channel's policy, the specialist's outcome
  and the three ways into a second dispatch (`Downgrade`, `SilentReroute`, `Reroute`).
  `recorded` is what the transcript keeps of the exchange.

**Working on a request**

* `ToolLoop` - `runToolLoop` by iteration. A response is what the loop's tests tell apart: its
  calls, whether it has text, which repairs it would trigger. `row` and `sentBack` are history.
* `Research` - the pipeline stage by stage; facets are gathered by `Workers` workers, a claim
  carries its verdict and cross-check, and another run may write the same file name.
* `Orchestration` - the plan pipeline with replanning, and the multi run of `dispatch.ts`; a
  sub-task returns or throws, and another plan may clear the shared artifacts at any time.
* `Pipelines` - nine pipelines as data: the sequence of stages of each, its branches, the
  parallel tool stage, extraction with its repair; `effects` is what tools have changed.

**Memory**

* `SessionMemory` - the three files of one session, the compaction cache, overlapping
  dispatches, one prewarm and one extraction. Sizes are a choice (fits, trimmed, failed); an
  exchange carries the number of the session it belongs to.
* `FactCapture` - incremental capture and the review gate for one person with several sessions.
  An entry stands for one exchange (two turns) or an assistant note, so `EveryTurns` and
  `OverlapTurns` count entries; a fact is named by the entry it came from. The generation
  counter of the code, compared only for equality, is the flag `old` of the capture in flight.
* `FactStore` - `index` and `removals` are the files, `view` is `facts.json`; writers wait at
  the embedder, mergers hold a pair while a model judges it. A text is a fact in one of its
  wordings, so `sameFact` is equality of the fact.
* `GraphMemory` - nodes and SUPERSEDES edges; `addFact` in three awaits (embed, judge, link),
  each of which may find the database gone.

**In the background**

* `RunJournal` - a dispatch from its loop to its transcript, its journal, process death with a
  torn start record, the sweep file by file with deaths inside it.
* `Cron` - `jobs` is the file, `scheduled` the timers the service knows, `orphans` those it
  lost, `late` the staggered catch-up, `exec` the runs with their retries. Time is counted in
  a job's own fire times since its last run.
* `SelfMod` - commits are numbers and `main` their history; worktree, gate verdict, ledger
  entry, merge, marker, supervisor with deploy, health check and rollback, the boot's sweep.
* `ExecSessions` - interpreters take their input in order and print items; a run writes its
  code and a sentinel and polls. Exit events arrive late. `Sandbox` - the calls that each make
  sure that the container runs; Docker does what it says, fails, or fails in silence.
* `Mcp` - one stdio server: clients with their pending maps, the manager's respawns, answers
  in any order or never, death of the process, stop. `McpTokens` - requests that read, refresh
  and store a token of an issuer that may rotate; tokens are generations.

**Kept and learned**

* `TaskBoard` - the board as a sequence (of duplicates the earlier stays), its writers, and the
  two passes of the heartbeat. `Prep` - questions and offers of overlapping briefings,
  replies matched by a model. `Vault` - overlapping reindexes of a path while its document is
  edited; `WebIndex` - cycles over a feed and a page with failing fetches and embeddings.
* `Lessons`, `Experiences`, `Proposals` - each heartbeat reads what is after its marker, has a
  model judge it, and writes store, marker and history with awaits in between; the process may
  die there.
* `Review` - the pending file, the report that numbers it, and the commands that answer it
  (`screen` is what the owner looks at). `Steward` - a poll works on a copy of the state file
  and writes it at its end; two may overlap, and the heartbeat drains the digest.

**Words in and out**

* `Mailbox` - overlapping Gmail polls, each with its list; `Messengers` - an update and an
  answer of Telegram or Discord, cut to the limit with its buttons, and, as a specification of
  its own in the same module (`WebSpec`), who waits for the answer to a web request, its timer
  and its handler.
* `ConsoleChat` - the page: history, typed messages, New Chat, voice mode with microphone,
  recorder and timers, and the server's turns.
* `BrowserPage` - the numbers written on elements and what the page has become since;
  `BrowserTool` - the one local browser, and the queue that panels poll; and, as a
  specification of its own in the same module (`PanelSpec`), the side panel's messages from
  page context to answer, with the stored list.
* `ModelClient` - stitching results to calls, attempts with limits, a stream cut anywhere, the
  abort of everything, the pacing of embeddings.

**Compositions.** The parts above communicate through one call and its result, which each
models as its environment, or through a file only one of them writes; a product of them would
multiply states without adding an interleaving. Six modules therefore check parts *side by
side*: `side` names the part that moves, the others stay in their initial state, so one run
covers the sum of their behaviours. A property of such a module says of each part what it has
to keep: `AnswersAreTrue`, for example, is the conjunction, by `side`, of what the chat page,
the browser tool and the web adapter owe their callers.

| Module | Parts |
|---|---|
| `MCConfirmLedger` | `ConfirmLedger` with its refinement of `ConfirmContract` |
| `MCSpecialists` | `ToolLoop`, `Research`, `Orchestration`, `Pipelines` |
| `MCConversation` | `Debouncers`, `Steering`, `Dispatch` |
| `MCMemory` | `SessionMemory`, `FactCapture`, `FactStore`, `GraphMemory` |
| `MCBackground` | `RunJournal`, `Cron`, `SelfMod`, `ExecSessions`, `Sandbox`, `Mcp`, `McpTokens` |
| `MCKeeping` | `TaskBoard`, `Prep`, `Vault`, `WebIndex`, `Proposals`, `Review`, `Steward` (fast lane and judged), `Lessons`, `Experiences` |
| `MCChannels` | `Mailbox`, `Messengers` (updates; web requests), `ConsoleChat`, `BrowserPage`, `BrowserTool` (calls; side panel), `ModelClient` |

`ConfirmLedgerProofs`, `SpecialistsProofs`, `ConversationProofs`, `MemoryProofs`,
`BackgroundProofs`, `KeepingProofs` and `ChannelsProofs` hold proofs; `TaskBoard` holds its own.
Where this file names a property of one part (`HeldOnce`), its statement and the line of the
code that promises it stand at the end of that part's module, under "Properties".

## Runs

| Run | What it asks | Bounds and why they are enough |
|---|---|---|
| `confirm_ledger` | a stored action runs at most once (`AtMostOnce`), a spent id stays spent, a bare "go ahead" takes the newest fresh preview, grants rest on an unrevoked "always", and the gate implements `ConfirmContract` | two people, two channels (one without continuation), two previews, one grant, short and long lifetimes (1 and 2 of 2 ticks): two entries race, one expires, one survives a crash. Symmetric in the people |
| `specialists` | the loop keeps its bounds and runs nothing three times in a row; a report says what was done (`ReportsAreTrue`); every way of working ends (`WorkEnds`) | loop: two calls of one tool and an invalid one, batches of 2, budget 3, one checkpoint, so every repair can follow every other. Research: two facets gathered at once, two claims that may carry each other's number. Plan: two steps, each of which may fail and be replanned, four iterations. Pipelines: two things asked for, of which one can go missing |
| `conversation` | one queue owner, each message reaches a model once, a stop hits its run, parts are kept, handing on is sound, all messages end | three messages, a confirmation, a !stop and a limit of 3 (one is refused): a run, its queue, a replay and a continuation at once. Three parts, so a batch can have another before and behind it. Four categories and 24 policies, two messages (the second meets the transcript of the first) |
| `memory` | history and summary are exact, notes are current, facts are held once, nothing is undone | session: two dispatches, three exchanges with one kept verbatim, an extraction every second, one reset: a summary covers something and one more exchange follows it. Capture: two chats, four entries, a threshold of two with an overlap of one, one clear. Store and graph: two facts (two wordings), one writer, one merger, two concurrent additions, one forget |
| `background` | notes are true and complete, merges are sound, what was set going is in hand and nothing is left waiting | journal: three runs, three deaths, one in traffic and two in sweeps. Cron: three jobs (one of the heartbeat), two runs at once, one retry, two edits, one restart. Self-modification: five commits, two gates, one restart, so one verdict can meet another head. Exec: one id whose interpreter is replaced once, so an exit event is late; two runs, one past its time limit. MCP: two callers and the boot, one respawn, three calls. Tokens: two requests, three refreshes |
| `keeping` | the owner is not bothered twice, what is kept is found, what is learned was earned, tidying keeps work | two of everything that can be confused (titles, events, briefings, texts, reindexes, signatures, copies of one mail, lessons) and one crash, fault or repetition; three facts so that numbers shift when one is answered; one commit merged and rolled back. Symmetric in the signatures |
| `channels` | mail is kept, texts are whole, answers are to what was asked, acts are as meant, everything ends | three mails in two overlapping polls of pages of two, two failures; texts up to five signs in pieces of three; two web requests that may share an id; one message, one voice turn and one New Chat on the chat page; three elements and two changes of the page; three calls, two of them from the console, two panels and two browsers, so that a call finds the browser of another one shared, queued for or closed; three lines of a stream and four attempts |
| `confirm_deny_unsaved` (violation) | a denied action never runs (`CancelledNeverRuns`) | as `confirm_ledger` |
| `session_summary_reset` (violation) | no old summary in a cleared session (`NoStaleSummary`) | as `memory` |

Deadlock is checked in `confirm_ledger` and its violation. In the others the bounded inputs
run out and nothing is left to do: there a stop is the end of a finite scenario, and what must
not stay undone is stated as a property (`WorkEnds`, `MessagesEnd`, `NothingIsLeftWaiting`,
`EverythingEnds`).

The constraint `Undisturbed` of `memory` cuts behaviours of the session after a reset that
found work in flight: what follows such a reset is promised by nobody (`session_summary_reset`
shows why), and both properties of the session are stated for the behaviours before. The
symmetries are of identities only compared with each other, and a run with symmetry checks no
liveness.

**What the properties of the composed runs say of each part:**

| Property | Of |
|---|---|
| `ReportsAreTrue` | research: a report rests on what was read (`GroundedReport`), a doubt about a claim is published unless that claim was confirmed (`DoubtsPublished`), the end is honest; plan: no step dropped, replans bounded; pipelines: the verdict is of the last code, nothing missing in silence, no invented target, sources for an answer |
| `PartsAreKept` | debouncers: photos kept, texts in their order |
| `HandingOnIsSound` | dispatch: handed on once, within the policy, the note is not the user's words |
| `NotesAreCurrent` | session: state of the session that runs; capture: the marker covers what was read, misses nothing, is backed by the stores, is of the live session |
| `StoresAreSound`, `NothingIsUndone` | store and graph: held once, view is index, forgotten is gone, history walkable; forgotten stays gone, the owner's word is kept, a late extraction turns nothing back |
| `MergesAreSound` | only judged heads are merged, a deploy can be undone, a rollback is learned |
| `RunsAreInHand` | cron: no stacked runs, timers match jobs, one-shots once; exec: interpreters reachable, a run alone gets exactly its output; sandbox: ready means running; MCP: answers reach their calls, waiters are pending, processes held, respawns limited; tokens: the stored one is good |
| `NotBotheredTwice` | prep: asked sparingly; proposals: denied for good, asked once; review: an answered fact is gone; steward: told once |
| `KeptIsFound` | vault: what a reindex passes over is current; web index: found as stored, missing for a reason; prep: answers kept; review: numbers true, list short; steward: flagged mail kept |
| `LearnedIsEarned` | lessons: live means recurred, authority heard; experiences: evidence is signals, a commit once, recent first |
| `ArrivesWhole` | mail: what is marked as read was handled; messengers: the pieces are the text but for blanks at the cuts, within the limit, the buttons under all of it; model client: a stream is the lines that came, none shown twice |
| `ResultsAreTheCalls` | model client: no call is answered twice, and a result is given as that of its call, for transcripts with results that are missing, late or left over |
| `AnswersAreTrue` | chat: an idle page has an answer to each message; browser tool: what is said to be done was done, once, in the one browser that is shared; web requests: who waits has no answer yet and its timer |
| `AsMeant` | page: the local browser acts on what was shown under the number; panel: what is listed is stored, nothing goes missing; chat: New Chat leaves nothing of before, only voice mode records; messengers: typing means work; model client: leaking models are asked to think, embeddings are paced |

Every property has at least one mutant in `PROJECT.json`: a plausible bug of the code, such as
a dropped guard or a write from an old snapshot, under which TLC finds the property violated.

### Disagreements between the code and what it says

Two have a run:

* `confirm-handler.ts:71` ignores whether the removal of a denied entry was written and still
  replies that it "will not run"; the entry stays confirmable (`confirm_deny_unsaved`).
* `compactor.ts:151` saves a summary after two model calls without looking whether the session
  was reset meanwhile: an old summary lands in the cleared session (`session_summary_reset`).

The others were met while modelling. The models reach them; the properties are stated around
them, with a history variable or a guard naming the excuse, so that everything else is checked:

* `orchestrator.ts:1087`: the continuation after a confirmation neither looks at nor opens the
  steering queue, so two dispatches of one session can run, against the comment at 1136.
* `engine.ts:717`: the drift repair, unlike the others, does not remember the answer it
  rejects; two empty responses later the reply is empty (561: "a repair must never convert a
  usable answer into nothing"). `engine.ts:601` hears a stop only at iteration boundaries.
* `engine.ts:509`: a journal is deleted when the loop ends, while the exchange is appended only
  after scoring, handoff and review; a death in between leaves neither turn nor note.
* `dispatch.ts:897`: a research run that was itself a second dispatch and finds the request
  conversational answers with the internal sentinel. `dispatch.ts:1588`: sub-dispatches of a
  plan record their notes as turns of the user, against 167.
* `pipeline/executor.ts:223` says "Partial work was discarded" of a run stopped after a tool
  acted. `definitions/message.ts:70` excuses an implausible target for being the id of the
  source, whatever channel it is on. `verification.ts:633` lists claims as corrected that the
  correction pass left as they were.
* `builtin.ts:148`: !save confirms the list on disk, which may not have reached the person or
  may have replaced the one that did. A session cleared from the console keeps its marker.
* `fact-store.ts:148`: a !forget during the embedder's wait is overtaken by the write behind it,
  against 938. `graph-store.ts:479` finds superseded facts, against `docs/MEMORY-SYSTEM.md:465`.
  `graph-store.ts:1172` subtracts decay for the whole age from a confidence already lowered.
* `experience-synthesis.ts:89` counts explicit signals in the test that distrusts a model which
  kept everything, against 83. `lesson-synthesis.ts:189` moves its marker also when every call
  failed, against `lesson-harvester.ts:67`.
* `heartbeat-service.ts:160` merges proposals into the pending file before the report is sent
  and leaves them there when it is not, against 60.

## Fairness

Fairness is weak, and only of what the process itself does once something has been started:
timers fire, a model call, a tool or a request ends because it has a time limit, the supervisor
starts the process again. Nothing is assumed of users, of messages that arrive, of servers that
answer, or of expiry.

| Part | Fair | Why |
|---|---|---|
| `ToolLoop` `Loop`; `Research`, `Orchestration`, `Pipelines` `Work` | the loop or run goes on | model calls and tools have time limits, so each await ends; a stop is nobody's duty |
| `Steering` `Handle(m)` | each message's own handler | an await of transcription, dispatch or delivery resolves or rejects, then the event loop runs it |
| `Debouncers` `Timers`, `Dispatch` `Work` | timers; the dispatch | as above |
| `Cron` `Boot`, `Progress(s)`, `LateFires(j)` | boot, each run, staggered timers | the supervisor; dispatches end; `setTimeout` |
| `Mcp` `Timers` | time limits of requests | `setTimeout`; the server is assumed to do nothing |
| `Mailbox` `Step(p)` | each poll | the handler of a mail ends as every dispatch does |
| `Messengers` `Timeout(r)`, `BrowserTool` `Timeout`, `Launched`, `Act` | timers, launch and act | `setTimeout`; the browser library's own limits |

The other parts of `AllSpec` state safety only and assume none. `RunJournal`, `SelfMod`,
`ExecSessions`, `ConsoleChat` and `Steward` state the fairness of their own specification, of
which no checked property makes use.

## Proofs

The theorems hold for every value of the constants under the assumptions named where the
constants are declared; TLC evaluates each of them in a passing run. `PROJECT.json` lists the
theorems a reader should know of; the lemmas they rest on stand before them.

Each safety theorem has the same form: an inductive invariant that contains the property and
what it needs, `Init` implies it, one lemma for each action, and a last step of temporal logic.
What follows says what the property needs and why.

* `ConfirmLedgerProofs`. `AtMostOnce` needs that stored entries have not run (`StoredUnrun`),
  that an id names one entry (`OneEntryPerId`) and that ids not handed out have not run
  (`UnissuedUnrun`): the step that runs an id is the one that removes it, and only after the
  removal was written. `SpentStaysSpent` and `BareRunsNewest` are action properties of that
  invariant. `GrantsJustified` needs that a permission has one grant (`OneGrantPerKey`), or a
  revocation would leave a second one behind. `Refinement` maps every step to an offer, a
  start, a withdrawal or a stutter of `ConfirmContract`. Assumed: calls have tools and
  targets, lifetimes are positive, bounds are numbers.
* `SpecialistsProofs`, one part after another, then joined (`AllInv`), so that
  `ReportsAreTrue`, `IterationsBounded`, `NoThirdRun` and `AllTypeOK` hold whichever way a
  request takes:
  - tool loop: `IterationsBounded` from `Granted` (each repair is used once and each checkpoint
    grants at most `GrantMax`) and `InBudget`; `NoThirdRun` from `RowMatchesDedup` (the dedup
    counter sees every run of the row) and `BatchWaits`;
  - plan and multi run, for any number of steps and iterations: an adjusted step comes in after
    a failure and not again before a success, so two steps taken pay for each insertion
    (`InsertsPaid`) and the plan stays below twice its length (`PlanBounds`); what each stage
    relies on of the stages before it is `PlanStage`;
  - pipelines: `Placed` says which stage stands where in which pipeline, proved by going
    through the pipelines once (`StagesPlaced`); the rest follows from where a run is. No tool
    has acted before the stage that acts and one at most after it (`Untouched`, `Acted`); what
    was asked for is known behind the extraction (`Asked`), and the lines of a job list are the
    calls that did not throw (`JobsCounted`); a message has its target checked before it is
    sent (`MessageChecked`); a verdict is of the code as it is, until the stage that changes
    that and before the one that tests it again (`CodeTested`); what the user is told is what
    the results are (`ToldSoFar`);
  - research, for any facets, claims and cross-checks: only a stop leaves a facet behind
    (`ResFacets`), what was found is what is read and listed (`ResSources`), and a doubt stays
    with its claim through the stages that match results by a number: cross-check, correction
    and appendix (`ResDoubts`). This holds of claims whose number is their own (`Own`); a model
    may give one number to two claims, and then the code cannot tell their results apart.
  Assumed, in `MCSpecialists`: bounds are numbers, a message may ask for one job at least, and
  `None` is none of the outcomes.
* `ConversationProofs`. `QueueHasOwner`, `ReachesOnce` and `StopHitsItsRun` of the handler, for
  any number of messages, from `IdleIsClean` (no queue and no flag without a run), `ReadOnce`
  and `FlagIsAimed`. `PartsAreKept` of the debouncers, for any number of parts: what is handled,
  the open paste and the open album are, in this order, rows of parts in which each comes after
  the ones before it (`Tidy`); the texts of an album are captions nobody has to keep in order
  (`Caption`), and nothing written is missing from the three (`TextsThere`, `PhotosThere`).
  `HandingOnIsSound` of the dispatch, for any categories, tools and channel
  policies, and `AllTypeOK` of all three parts. `RouteAssumption` says what a configuration is
  taken to satisfy: the default is a category, chat has no tools, a channel that names its
  categories names one.
* `MemoryProofs`, one part after another, then joined (`MemInv`), so that `StoresAreSound`,
  `NothingIsUndone`, `NotesAreCurrent` and `AllTypeOK` hold of everything that is remembered:
  - session, for any number of overlapping dispatches: a compaction under way read a beginning
    of the transcript and covered less than it will (`JobOver`); what is on disk, in the cache
    or held by a dispatch is exact for the transcript it was made of. A subtle part is the
    cache (`CacheExact`): the reset of the console leaves an entry of the session before, which
    the next session never takes, since its count is not that of an empty transcript and the
    first dispatch replaces it;
  - fact store, for any facts, wordings, writers and merges: a writer that nothing overtook
    while it waits for the embedder would still pass the gate it has passed (`FreshIsAlone`);
    a consolidation asks its model about nothing the person had stated by then (`PairsAreOpen`);
    the view is the index, but while a batch is between its writes (`InStep`);
  - graph, for any calls and wordings: two calls that add one fact, or a call whose check was
    overtaken, are on record (`RacesAreNoted`); between the two halves of a forget nothing of
    the fact comes back unexcused (`ForgettingIsNoted`, `ForgottenIsRefused`); what a call will
    mark as replaced is older than its node (`OldsAreOlder`), so history has no cycle;
  - capture, for any sessions, entries and clears: the capture in flight will leave the marker
    in front of nothing unread and behind everything read (`LiveCapture`); in the gap of a
    !reset the marker is still that of the conversation that ends (`Gap`), and after it the
    capture in flight is void. This takes `EveryTurns > 1`, the hypothesis of
    `NotesStayCurrent`: in the gap a session has at most one new entry (`Append`), which then
    is below the threshold. `config/schema.ts:326` allows 2 turns, that is one exchange, as the
    smallest value (the default is 8): TLC shows that with `EveryTurns = 1` the exchange that
    slips into the gap is captured or consumed there, and the marker, deleted by the take,
    falls behind it. `CapturedIsStored` and the types need no such hypothesis.
* `BackgroundProofs`, one part after another, then joined (`AllInv`):
  - run journal: journals belong to runs that are, or died, in their loop; nothing runs until
    the sweep is over; the sweep's list is what is left in the directory;
  - self-modification: what can be confirmed was judged as that head (`GateInv`); the commit a
    merge goes back to lies in main in front of it (`DeployInv`), and nothing lies between the
    two, so that a rollback undoes one merge, of which the marker tells (`MemoryInv`);
  - cron: an id not handed out has no deliveries (`Unused`), and who waits for a retry has one
    left (`RetryIsLeft`);
  - exec: at every moment it is known how much of what a run wrote has been printed, is in the
    trimmed buffer or is input still (`Follows`); entries lead to live interpreters or to ones
    whose exit was seen;
  - sandbox: unless a command failed or somebody stopped the container, `running` is only set
    while it runs (`BoxInv`); tokens: what a request read is at most what is stored, which is
    what the issuer takes, unless one request holds a newer one (`TokenInv`);
  - MCP: calls, pending maps and requests in the server's hands fit together (`Settled`): who
    asks is pending at the client it asks, once, under an id that only grows, and a request in
    the server's hands that is pending is what its caller asked. A call in transition is taken
    out of this and put back (the set `K`). Respawns made and waited for are less than the
    limit and the callers together (`Managed`), which needs `ClientAssumption`: finitely many
    callers, none of them the boot.
* `KeepingProofs`, one part after another, then joined (`KeepInv`), so that `NotBotheredTwice`,
  `KeptIsFound` and `LearnedIsEarned` hold of everything that is kept:
  - proposals: an open one is the latest entry in the history of its failure, has not cooled
    and nobody drafts another (`OpenIsLatest`), and what the owner denied ends that history or
    has its row in the ledger, from which it is taken over (`DenialCounts`). Excused are
    signatures of which the ledger alone knows (`orphans`);
  - mail, while polls do not overlap: only the copy that is pinged first has told nothing yet,
    a flagged mail was told, is in a digest or in the hands of a poll (`MailOrder`);
  - review: the numbers on display are positions of the file the batch wrote, until a command
    touches it (`NumbersHold`); an answered fact still in the file will be taken out by a
    command under way, unless two of them crossed (`GoneOrTaken`);
  - prep: until an event begins, the store remembers every time it was asked about
    (`Remembered`), so what expires is no longer asked about;
  - vault, for any files, texts and reindexes: one reindex writes at a time (`OneWriter`), it
    holds the text of the file unless that has changed since (`RunFine`), and a row of the age of
    its file has the chunks of that file, but for what is being written (`Served`) and for
    paths whose writing a crash cut short for good (`disturbed`);
  - web index: the page being embedded has no vector and is out of the pending ones
    (`BeingEmbedded`); a published item that is missing is among those left over or still to
    be done by the run, if the feed is recorded as seen (`AccountedFor`);
  - lessons: each confirmation was at a marker of its own, but for cycles repeated because
    their marker was not written (`Recurred`); a lesson that has one at the marker of now,
    and not by this cycle, has room for such a repetition (`ReadAgain`);
  - experiences: the evidence of all judgements is at most the units of the signals behind
    the marker and of those a cycle in flight has judged (`EvidenceCounted` over `Counted`).
    Both sides are cardinalities of sets of units, as a sum has no induction here. A commit
    that was rolled back does not live on as a success (`NotRevived`).
  Assumed, in `MCKeeping`: finitely many facts and items, `None` is no document and no mail,
  commits are not named like tasks, a batch fits in its file, lifetimes are numbers.
* `ChannelsProofs`, one part after another, then joined (`AllInv`), so that `ArrivesWhole`,
  `AnswersAreTrue`, `AsMeant` and `AllTypeOK` hold of all that goes in and out:
  - mail and typing: the properties are inductive with their types; whom the indicator tells of
    has an update at work (`TypingInv`);
  - answers of a messenger: the pieces sent cover all letters of the text in front of where the
    next one starts, one behind the other and none beyond it (`Laid`); that the next piece
    fits and nothing but blanks is between it and the one after follows from the search for
    the cut (`SplitInLimit`, `TrimmedIsBlank`, `PieceFits`), for any limit;
  - web requests: a waiter's id is its own, and it has a timer and no response (`WebInv`);
  - model client: an embedding waiting first is due an interval after the last one
    (`Paced`), the others have no time yet; of a stream the OpenAI client has heard the whole
    lines of what was sent and holds the half line after them, and what was shown by either
    client lies before what comes next (`StreamInv`);
  - panel: without two sends at once, a send under way builds on all exchanges that are over
    (`Together`);
  - page: an element's number is its place in the reading order (`Place`); the elements in that
    order are a function of what is visible, so a fresh list is that order (`PageInv`);
  - chat: microphone, timer, recorder and turn under way exclude each other, and none of them
    is there without voice mode (`OneAtATime`); a message under way is the only one, the page
    waits for it, and every other one shown has its answer (`Asked`). What is on its way while
    voice mode is turned off and starts to record later is excused (`late`);
  - browser tool, for any calls, loops and browsers: the queue holds exactly the calls that are
    queued, each once (`QueueInv`); at most one loop runs or has run an action it did not
    report yet, and an action queued again was run by that one (`OneLoop`); a browser that is
    up or on its way is the shared one, and an acting call has one that is up (`OneShared`).
    Excused is a crowd: two loops or a lost result, two launches at once, or a browser that is
    closed while another one is shared.
  - types, once these hold (`AllTypes`): a page of mails and the list of a page are sequences
    because a place in an order is taken by exactly one of finitely many (`AllPlacesTaken`);
    the lines a client hears are lines that were sent (`WholeInLines`); a queued call is there.
  Assumed, in `MCChannels`: finitely many elements, numbered in reading order, bounds, clocks
  and intervals are numbers, a messenger takes at least one character and a client makes at
  least one attempt, `None` is none of the things it stands in for.
* `TaskBoard`: `WorkIsKept` for a
  board of any length; the two passes are functions on sequences, of which it is proved that a
  title keeps a task and what is begun or not yet due stays (`Tidies`, which composes).

### What stays with TLC

* Liveness (`WorkEnds`, `MessagesEnd`, `NothingIsLeftWaiting`, `EverythingEnds`) is out of the
  prover's reach, as it rests on fairness and so on ENABLED.
* `ResultsAreTheCalls` is about what a fold over the transcript computes: that needs induction
  over sequences, whose theorems the prover cannot instantiate.
* Not proved: `AllTypeOK` of `background` and `keeping` (their parts keep most of their types
  as part of the invariants above; the other variables are open).

## Assumptions

Ids (random suffixes) are fresh and the clock is monotone, except where a module says
otherwise (`Messengers`: two web requests may share a millisecond). Reading `grants.json` and
deleting journal files succeed. Session metadata is written with the transcript. A person uses
one sender id per channel. In `FactCapture` the await between clearing and taking the tail is
the import of a loaded module: at most the run in flight ends in it; a person has one !save in
progress, a session one !reset. In `SelfMod` all changes have one slug, the worst case for
verdicts and confirmations kept by slug. Docker, MCP servers, token issuers, the graph
database and inference servers lie outside the repository: they are modelled from how the code
uses them, may fail at each call, and their definitions are marked external in `PROJECT.json`.

## Not modelled

* What models say, prompts, wording, layout, scores and similarity: a choice among the outcomes
  the code tells apart.
* The remaining built-in commands call one service each; agents, routes, identity and
  configuration are pure functions of the configuration, and their results are parameters of
  the models; the secret store and the patterns of the exec policy are files and matching.
* The console's other handlers and the command line are front ends (their resets are actions of
  `SessionMemory` and `FactCapture`). Of some hundred tools those that keep state are modelled
  with it; the loop sees the others succeed, fail or be refused.
* Metrics and error records are append-only; speech, vision and attachments are conversions by
  external models, awaited in `Steering`; setup and doctor run before the system does.
* Within the modelled parts: the shadow router and the filters of the answer in `dispatch.ts`,
  the charts and the discovery sweep of research, entities, tags and temporal queries of the
  graph, the voice window of a session, WhatsApp, Teams and Slack, tabs and PDFs of the
  browser, the choice among model backends, robots rules of the web index. The note of each
  component in `PROJECT.json` says what is left out of it.

## Plan

The model covers the parts planned, and the safety of every run is proved, but for what stands
under "What stays with TLC". What remains open are the texts put together from pieces and the
types of the variables that no proof has needed.
