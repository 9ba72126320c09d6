# A formal model of the Debussy platform

Debussy is an embeddable agent platform. A page talks over a WebSocket to a server
(`src/runtimes/pi/packages/server`) that runs the turns of a conversation on an in-memory agent
session, writes what happened to an event stream in Postgres, and rebuilds the session from that
stream whenever it has to. Other clients attach to agent sessions directly, and have answers read
aloud. This project models that core in TLA+, checks it with TLC, and proves the results that matter
most with TLAPS. Paths below are relative to `src/runtimes/pi/packages/` unless they start with
`src/`.

## 1. Inventory

| Component | State it keeps | Operations | What is hard |
|---|---|---|---|
| Conversation turns (`server/src/embed/conversations/service.ts`) | `runningTurns`, the conversation row, its events | `executeTurn`, `cancelTurn`, `archiveConversation`, `createConversation` | awaits between every write, swallowed write errors, early returns, crashes |
| Context restore, compaction (`server/src/runtime/context-restore.ts`, `compaction-drive.ts`, `debussy-compaction.ts`) | none; folds over the stream; summaries in Postgres | `restoreContext`, `planCompaction`, `runDebussyCompaction` | events are paired by position; a summary cuts the stream |
| Runtime cache (`server/src/runtime/conversation-runtime-manager.ts`) | `active`, `opening`, `closed`, the drain promise | acquire, release, reset, sweepIdle, drain, close | an open in flight while a reset, sweep or drain runs |
| Runtime and executor (`conversation-runtime.ts`, `turn-executor.ts`) | `hydrated`, `closed`, the session transcript | prompt, abort, close | the transcript outlives a turn; abort and provider errors resolve |
| Realtime connection (`server/src/embed/realtime/connection.ts`) | running turn, `cancellationRequested`, `lastSequence`, pending messages | turn.start, turn.cancel, sync, close | a cancel racing an answer; a second turn on the same socket |
| Idempotency records (`persistence/postgres/repositories/idempotency.ts`) | claim, owner expiry, response | claim, complete, fail | a slow first attempt against a retry that took over its claim |
| Rollover (`service.ts`, `conversations.ts`) | status, previous id, limits | tryRolloverIfNeeded, createConversation(previous) | two rows change in separate transactions |
| Rate limits and slots (`server/src/embed/rate-limits/`) | counters, leases | take, release | a leaked slot |
| Embed authentication (`server/src/embed/auth/`) | launch keys, nonces, tokens | exchange, verify, revoke | replay of a nonce, a key revoked in use |
| Uploads and attachments (`server/src/embed/uploads/`, `uploads/pipeline.ts`) | attachment state machine, blobs | init, put, scan, parse | a crash between blob and row |
| Publishing control and debug plane (`server/src/publishing/`) | apps, versions, revisions, debug conversations | publish, roll back, debug turns | optimistic revisions |
| Session server (`server/src/server.ts`, `sessions.ts`) | sessions, event log, connections | open, prompt, subscribe, resume | snapshot and event order for a late subscriber |
| Live voice (`server/src/voice/live/`, `voice/speech-manager.ts`) | utterance queue, projector, PCM sink | append, flush, cancel | back pressure, generations, late audio |
| Voice services (`services/voice`, Python) | queues to the synthesiser | synthesise, stream | external process |
| Client SDK (`client/src/`) | connection, pending requests, replay cursor | request, subscribe, reconnect | requests in flight over a reconnect |
| Agent loop (`agent/src/`) | run state, its own copy of the transcript, steering and follow-up queues | prompt, continue, steer, follow up, abort | abort between tool calls, messages that arrive while the loop ends |
| Agent session (`coding-agent/src/core/`) | session file, retry counter, compaction, messages shown as queued | prompt, steer, bash, retry, auto-compaction, abort | recovery steps that follow one another, transcript and file kept apart |
| Protocol codec (`protocol/src/`) | framing buffers | encode, decode | partial frames |
| Web front end (`web/`), avatar (`src/packages/avatar`) | chat and playback controllers, character state | UI events | out-of-date async results |
| Model providers, command line, TUI, storage, evals | | | outside the service core |

How they interact. A realtime connection or an HTTP handler calls `executeTurn`. That takes the
conversation's slot in `runningTurns`, restores the context from the stream, writes `turn/start` and
`user/message`, compacts earlier turns if the budget asks for it, acquires a runtime from the cache
and prompts it. Tool progress comes back through a callback that starts event writes without waiting
for them. When the prompt resolves, the answer is read back from the session snapshot and persisted,
compaction runs again, the runtime is evicted from the cache, and the slot is freed in a `finally`
block. Archiving, other requests and the idle sweep run in between. Everything but Postgres is lost
when the process dies.

On the other side of the realtime connection the page keeps one cursor, `lastSeenSequence`: every
event with a higher sequence number moves it, and after a lost connection it asks for the rows
behind it. Session clients reach an agent session through the session server, which shares one
runtime among all who attach, numbers the progress events of the runtime and replays them to a client
that resumes. A prompt with speech makes a live job, which listens to the same progress events, has
sentence after sentence synthesised, and writes the audio to a response that the page fetches. Below
all of them an `AgentSession` drives the agent loop, retries and compacts.

### What makes each core part correct

* Turns: one writer per conversation; a slot that is always given back; a stream whose turns are
  contiguous and ordered, since readers go by position; every turn settled once.
* Restore: interrupted turns are converged exactly once, answered turns stay in the context.
* Runtime: it is prompted with exactly what the stream holds; no text is persisted as an answer that
  neither the turn nor the stream before it produced.
* Compaction: a summary cuts between turns and never moves back.
* Runtime cache: one live runtime per conversation, of the version of its turn, not closed under the
  turn that uses it; an open in flight is always forgotten.
* Realtime: an answer the page is owed is shown, in order, whatever connection carries it; a
  stopped turn stays silent; the page stops waiting.
* Sessions: one runtime at a time, held by exactly those connected; a client at rest has what the
  server has; nobody waits for ever, nothing runs for nobody.
* Live speech: a bounded backlog; audio whole and in order; silence after the end; no response and no
  playback left open.
* Agent session: the model is asked with the transcript; calls keep their results; file and
  transcript agree; what the user sent is delivered once; recovery ends.

## 2. Plan

Modules, most important behaviour first. All are in this directory.

1. `ContextRestore`: what a restore and a compaction read from the stream, by position.
   `ContextRestoreFold` holds the source's loops, which are shown to agree with it.
2. `ConversationTurns`: `executeTurn` and all it drives; crashes and lost writes.
3. `TurnLedger`: the abstract stream; `ConversationTurns` implements it.
4. `RuntimeManager`: the runtime cache with acquire, open, reset, sweep, drain, close.
5. `Realtime`: the page, its connections, and the service behind them as far as they can tell.
6. `Sessions`: one session of the session server, its event log and its clients.
7. `LiveSpeech`: jobs, utterance queue, deferred response and the page's playback controller.
8. `AgentSession`: the agent loop, the agent and the session that drives them.

Theorems: agreement of the loops with the positions; readability of the ledger; types, single writer,
refinement and append-only of the turns, and what a restore and a summary read from their stream;
uniqueness, versions and sweeps of the cache; types, order, silence after a cancel and completeness of the realtime page; types, uniqueness,
holders and quiet clients of sessions; order, wholeness, backlog and silence of live speech; phases, transcript,
calls, queues, failures and file of the agent session. What could come next: the rollover chain and
the idempotency records.

Runs are few and broad: one per question, with liveness checked beside safety where the state space
allows.

## 3. Modules

**ContextRestore** (no variables). An event is `[type, turn, from]`: its type, its `turnId`
column and, for an answer, the turn whose text it carries. `restoreContext` keeps one pending
turn and folds; here a user message at position `i` opens a segment that the next closing event
ends, and whether the turn is restored, dropped or reported as interrupted is read off the
positions (`CompletedPositions`, `Discarded`, `InterruptedPositions`). `TrimmedSuffixes` is
`trimTurnsToBudget` with every possible size. `PairedAnswers` and `SummaryBoundaries` are
`completedTurns` and `planCompaction` with every possible token count.

**ContextRestoreFold** runs the two loops as the source does, one event a step: `restored` holds the
locals of `restoreContext`, `paired` those of `completedTurns`, and `RestoredContext` is what the first
would return if the stream ended here. The loops begin behind the events a summary covers (`through`)
and the first skips those of an `excluded` turn. The events are arbitrary, so the streams checked include
those no writer produces.

**ConversationTurns**. Durable state: `log`, `status`, `summary`. Memory: `running` (is the
conversation in `runningTurns`), `pc` (where each request is in `executeTurn`), `history`,
`orphans`, `reply` (its locals), `tool` and `pending` (tool activity and writes not awaited),
`runtime` (the cached session: open, hydrated, the turns and the last answer in its transcript),
`archiving`. One action is one piece of `executeTurn` between two awaits:

| pc before | action | code |
|---|---|---|
| idle | `Submit` | the read of the row, service.ts:649 |
| checked | `Enter`, `AlreadyRunning` | the guard, 653 |
| entered | `RestoreHistory` | 526-574 |
| converging | `Converge`, `Converged` | the loop over `interruptedTurnIds`, 566 |
| restored, started | `WriteStart`, `WriteUser` | 705, 743 |
| asked, rebuilding | `PrePromptGuard`, `Rebuild` | 585-609 |
| ready | `Prompt`, `PromptThrows` | turn-executor.ts:75-97 |
| prompting | `ToolStarted`, `ToolFinished`, `Answer`, `Stop`, `PromptFails` | callbacks, and the prompt resolving or rejecting |
| answered, ending | `WriteAssistant`, `WriteEnd` | 815, 839 |
| compacting, resetting | `Compact`, `ResetRuntime` | 854, 866 |
| checking, recording | `RolloverCheck`, `RecordRollover` | the rollover check, 869-886 and 965-1014 |
| failing | `WriteFailed` | 903 |
| returning, aborting | `Leave` | finally, 909 |
| several | `FailsUncaught` | returns and exceptions with no handler |

`PersistTool`, `SweepIdle`, `Archive...` and `Crash` belong to nobody's turn. How often the things
that need not happen do happen is bounded by the constant `Budget`, one number per kind (crash, lost
append, uncaught failure, rejected prompt, stopped run, tool, summary, rollover, archive): a run names
the combination it asks about, and the proofs hold for every budget. `ListLimit` is the page that
`events.list` never exceeds (500), which the rollover check reads instead of the stream. The check may
insert a summary that covers nothing (`through_sequence` 0), after which `restoreHistory` converges
nothing any more; `NoSummary` is -1 to tell the two apart.

**TurnLedger** says what a reader of the stream relies on: `Begin` gives one turn the stream,
`Write` appends an event that may follow what that turn wrote (`Allowed`), `Note` appends an event
of no such kind, `Release` takes the stream away for good. `ConversationTurns` maps to it with
`writer <- Writer` (the turn in execution) and `begun <- Begun`.

**RuntimeManager** is `ConversationRuntimeManager` for one conversation (its maps are keyed by
conversation, so conversations do not meet, except for `closed` and drain, which only stop things).
`active` and `opening` are the two maps, `idle` says that the active entry is past its TTL, `state`
and `version` describe runtimes, `draining`, `awaited`, `closed` the shutdown. A caller is what
`managedTurnExecutor` and `resetRuntime` do in turn: acquire, prompt, release, and then reset or not.
`acquire` is five actions, one per branch (`Reuse`, `EvictOther` and after its await `Reopen`,
`JoinOpening`, `Open`); `Opened` and `OpenFails` are the opener settling, `Acquired` the caller going
on. A runtime's name is used again once nothing refers to it (`Forgotten`), so no bound on the number
of turns is needed. `late` and `beside` are history variables: the callers whose own turn has outlasted
the idle TTL, and whether a caller that went on after an eviction has opened beside a runtime or an open
that came up meanwhile. A turn may be as long as it likes.

`ConversationTurns` has its own, smaller view of the cache (one runtime that is open or not). The
two meet in the single-writer slot: `SingleWriter` there is what makes the callers here come one at
a time, the assumption `OneCaller` of the theorems in section 6.

**Realtime** is one embed page (`web/src/embed/chat-controller.ts`, `realtime-transport.ts`) and the
conversation it shows. On the server there is one handler per connection (`flag` is
`cancellationRequested`, `sync` the conversation.sync in progress) and the service behind it: `log`,
`running` and, for each turn, where it is (`turn[t].pc`: sent, checking the limits, opening the
runtime, prompting, persisting, ended). Here a turn is only the part of `ConversationTurns` that a
connection and a cancel can tell apart. The page has the state of its transport (`phase`, `attempt`,
`ws`), `cursor`, `sending`, and what is on the screen (`loaded`, `shown`); `due` and
`base` are history variables: the answers the page was owed, and where on the screen the last use of
the reconnect button was (`Reconnect`, which connects anew with cursor 0 and leaves the screen as it is;
`ScheduleReconnect` is the timer's, which keeps the cursor). `Start`, `Deny`, `Cancel...` and `Sync...` are the commands of
`connection.ts` between their awaits; `Lose` takes a connection away with all that is on its way.
`Races` names the reads an answer is allowed to overtake, `PageLimit` and `SyncLimit` the rows a
load and a sync list.

**Sessions** is one session of `server/src/sessions.ts` with its `event-log.ts`. `live` is its entry
(none, ready, terminal, disposing), `opening` and `waiting` are the requests that wait for an open
and for a disposal, `member` its connections, `holds` those that know they have it. A progress event
is its sequence number; `first .. last` is the log, `done` what the runtime's own transcript has and
`content` what the transient snapshot has, which an operation during a turn takes back. `replay` walks
the log's array by index while appends evict from its front. Every operation, refused ones included,
ends with a snapshot of the runtime to all who are attached (`Busy`, `Adjust`). `Terminate` marks the
entry and closes every connection; each member then leaves with a `Disconnect` of its own. A client (`client/src/client.ts`,
`state.ts`) has a connection, requests in flight, `cursor`, and `view`, the events in its snapshot or
heard since. `Strand` says whether the client that opened a session may be gone when others wait for
that open.

**LiveSpeech** has for each prompt with speech a job (`live-speech-manager.ts`), a queue
(`utterance-queue.ts`) with the stage of the one utterance it works on, and the browser's response as
`pending-pcm-sink.ts` sees it: none until the page claims the stream, waiting for the first chunk,
flowing, and its ends. `body` holds the chunks written, `emitted` those read from the source. `events`
are on their way to the page; `page` is `LivePlaybackController`, `bound` the job the page last
attached. An utterance is a number; what it says is left out. `Ends` is the one place where a job
becomes terminal: run, queue, response and owner in the same step.

**AgentSession** is `coding-agent/src/core/agent-session.ts` on top of `agent/src/agent.ts` and
`agent-loop.ts`. `transcript` is the agent's, `run.context` the loop's own copy of it, `entries` the
session file. `phase` says where `prompt` and `_runAgentPrompt` are, `run.pc` where the loop is:

| phase, pc | action | code |
|---|---|---|
| idle | `AskPrompt` | agent-session.ts:1234-1321 |
| asked, compacted | `CompactFirst`, `StartPrompt` | 1323-1411 |
| running: prompt, deliver | `BeginRun`, `Request` | agent-loop.ts:95-193 |
| running: asking | `Answer` | 281-375, 196-216 |
| running: tools | `PrepareCall`, `ExecuteCall`, `EndBatch` | 411-708 |
| running: turn, more | `EndTurn` | 224-271 |
| running: ending | `EndRun` (`Retries`, `Recovers`, `GoesOn`) | agent-session.ts:1195-1223, 2179-2310, 2921-2952 |
| backoff | `BackoffEnds`, `CancelRetry` | 2951-2978 |
| compacting | `Summarized`, `NotSummarized` | 2378-2453 |
| continuing | `Continue`, `ContinueFails` | agent.ts:361-388 |

`Steer`, `FollowUp`, `FilesRead`, `ClearQueue`, `RecordBash` and `Abort` come in at any time. How an
answer may end is the constant `Outcomes`; a message that carries files is one of `Files`.

**MC...** modules give the constants their values for TLC, **...Proofs** modules hold the theorems.

## 4. Runs

| Run | Bounds | Question |
|---|---|---|
| `restore_fold` | 2 turns, 5 events | do the positional definitions equal the loops? |
| `turns_faults` | 2 turns; crash, lost write, failure, rejected prompt, stop, tool once each; fair | is there one writer, is the slot given back, does it implement the ledger? |
| `turns_restart` | 3 turns; 2 crashes, failure, stop, rejected prompt, archive | are interrupted turns converged once, exactly the answered ones restored, and are answers from the turn or the stream? |
| `turns_summary` | 3 turns, a page of 6 events; 2 summaries, rollover check, tool, lost write, crash | is the prompt context the durable one, does a summary cut between turns? |
| `manager` | 2 callers, 2 versions, 3 runtimes; fair | is there one runtime until two opens pass each other, is a runtime swept only from a turn that is late itself, is an open in flight always forgotten? |
| `realtime` | 2 turns of the page and 1 of another, 1 Stop, 2 connections, 1 retry, the reconnect button; fair | is what the page is owed shown, in order, a stopped turn silent, and does the page stop waiting? |
| `sessions` | 2 clients, 2 connections, 4 requests, 3 events, a log of 2; fair | do clients agree with the server, is a session held and disposed as it should be? |
| `speech` | 2 jobs, of 3 utterances and of none, 1 chunk each, a backlog of 2; fair | is the audio whole and in order, does every job and playback end? |
| `agent_turns` | 2 messages (1 with files), 2 answers of up to 2 calls, a command, an abort; fair | do calls, results, transcript and file agree, does an abort return? |
| `agent_recovery` | 2 messages, 1 retry, 1 abort, answers that fail, overflow or are cut off; fair | are messages delivered once and none stranded, does recovery end? |
| `v_continue` | 1 message, 1 retry | does a recovered session always have something to continue from? (no) |
| `v_reconnect` | 1 turn, 2 connections, no retry | is an answer shown once after a reconnect? (no) |

Why the bounds are enough. What goes wrong between turns needs an earlier turn, the turn at fault
and a later one that reads the stream: three turns give every such triple. Summaries keep the newest
answer, so the first can be taken when the second turn is answered and the next one a turn later; a
page of six events ends inside the second turn. The ledger and the single writer concern the running
turn and the next, and are proved for any number. Five events hold two complete turns with a foreign
closing event between any two of their events, and the loops have a single pending turn of memory; the
summary covers none of them or the first, and the theorem has any number of either. Two
summaries are one built on another. Two callers are one that opens and one that joins it, or that
evicts, resets, fails or comes anew while the other goes on; the theorems have any number. Three runtimes
are one held by each caller and one still closing.

Two connections are the one that is lost and the one that syncs; two turns of the page and one of
another page are a turn, its successor, and a row that the page learns of only by a sync; the limits of
nine rows are never reached (section 5 has what happens when they are). Two clients on two
connections are one that holds the session and one that comes, or one that comes back; a log of two
out of three events evicts one, so a resume may be inside and outside of the window. Three utterances
are one more than may wait, and a second job without a word follows the first; the one chunk per
utterance can be parked, written or pushed back. Two calls in an answer are the least that can be
refused, executed and skipped differently; one retry, one compaction for an overflow and one for a
long context follow one another in every order. `CHECK_DEADLOCK FALSE` is set because a finite set of
requests ends, and because a closed manager refuses every acquire.

Properties that hold only when a fault is absent say so by the constants of the run that checks them
(and the theorems by their assumptions): with `throw = 0` and `fail = 0` `ContextFromLog` holds, with
`append = 0` and `tool = 0` `AnswersFromStream`, with `append = 0` `SettlesOnce` and `AnswersRestorable`,
without a summary as well `InterruptedConverged`, without a tool `RestoresAnsweredOnly`, with `Strand = FALSE` `HoldersAreMembers`, with
`Races = {}` and listings that are long enough `OwedIsShown`, with no answer overtaking a load
`ShownInOrder`. Section 5 has the case where each does not. Some exempt a case by their own wording:
`OneRuntime` what follows an open beside another (`beside`, which one caller or one version never
reaches: section 6), `SweptIsLate` the turn that has itself outlasted the TTL, `StoppedStaysSilent` turns that overlap on one
connection, `SendingEnds` a page whose connection is lost, `QuietAgrees` times when the transient
snapshot was taken back, `ShownInOrder` what was shown before the reconnect button.

What the proofs establish for every value of the constants is not repeated in a run unless another
property of the run needs it beside it: the type invariants of `ConversationTurns`, `RuntimeManager`,
`Realtime` and `Sessions`, and `Readable`, `AppendOnly`, `RightVersion`, `OneRuntime` of `Sessions` and
`Backlog`. `NeverRecycled`, `HeardOnce` and `QueueShown` also hold under the constants of
`turns_summary`, `sessions` and `agent_recovery`.

Fairness. In `ConversationTurns` weak fairness of each turn's own next step: every await of a live
turn settles. Repository calls answer or throw; that the model run resolves is an assumption about the
provider and the abort path, and nothing is assumed about requests, tools that never finish in
another order, archiving, sweeping or crashes. In `RuntimeManager` an opener and a close settle and
a caller whose await has settled goes on; nothing obliges a turn to end or a timer to fire. In
`Realtime` turns, cancels and syncs go on and what is on its way over an open connection arrives; the
user, the other page and losses are free, and so is reconnecting. In `Sessions` opens, disposals,
replays and turns end, requests are handled, and a lost connection is noticed. In `LiveSpeech` sources
and the response go on and the page reads; the agent, the user and the timers are free, so
`PlaybackEnds` does not lean on a timeout. In `AgentSession` the model answers, tools and timers come
back; the user is free.

## 5. Where the code departs from what it says

`v_continue`: after a retryable error was retried and the next answer overflows, the file holds two
failed answers in a row. Auto-compaction rebuilds the transcript from the file and takes the last of
them away (agent-session.ts:2421-2431), so it ends with the earlier one, and `agent.continue()` throws
"Cannot continue from message role: assistant" (agent.ts:384). `ContinuesAfterOne` is what remains:
with one failed answer at the end of the file the session can go on.

`v_reconnect`: the page's reconnect button (chat-controller.ts:274-280) calls `transport.connect`, which
starts with `lastSeenSequence` 0 (realtime-transport.ts:68-76). The sync replays every answer and
`handleEvent` appends each to the screen again; realtime-transport.ts:5-7 says that a reconnect syncs from
`lastSeenSequence` and that repeated events are dropped. `ShownInOrder` holds between two uses of the button.

Each of the following is a counterexample of one property of the models under the constants named;
they are not kept as runs.

| Property | Constants | What happens, and what the source says |
|---|---|---|
| `OwnAnswers` | 2 turns, `stop = 1` | `agent.prompt` resolves when a run is stopped or the provider fails, and the managed executor reads the answer with `lastAssistantResult` (turn-executor.ts:84, 118), the last complete assistant item of the whole transcript: an earlier turn's text, or none, is persisted as a complete answer. turn-executor.ts:130-133 says of an interrupted turn "never a fabricated complete assistant/message"; the function it says this of is used by the debug plane only. `AnswersFromStream` is what remains: the text is at least one that the stream holds |
| `AnswersRestorable` | 3 turns, `append = 1`, `crash = 2` | turn 1 is cut off by a crash and the `turn/interrupted` a restore writes for it is lost (service.ts:484); turn 2 is answered and the process dies before its `turn/end`; the next restore writes turn 1's `turn/interrupted` behind turn 2's answer, and the fold, which pairs by position, drops that persisted answer. service.ts:470-472: "a failed append here only loses a side-channel observation" |
| `RestoresAnsweredOnly` | 2 turns, `tool = 1`, `crash = 1` | a `tool/call` sets `hasCompletion` (context-restore.ts:177), so a turn that died in its first tool counts as completed and is never converged; service.ts:672 says only completed pairs are restored, context-restore.ts:10-11 that a turn without an end is converged |
| `NeverRecycled` | 2 turns, `throw = 1` | only a successful turn resets the cached runtime (service.ts:866); after a refused prompt the next turn reuses it; embed/start.ts:300-303: "after a Turn, reset the cached runtime unconditionally" |
| `SettlesOnce` | 3 turns, `append = 1` | a lost `assistant/message` followed by `turn/end` leaves a turn that every restore converges again; service.ts:672-673 says converging is idempotent |
| `InterruptedConverged` | 4 turns, `summary = 1`, `crash = 1` | with a summary `restoreHistory` returns before it converges anything (service.ts:558-564), though 525 says in-flight turns are converged |
| `OnlyIdleSwept` | 1 caller, 1 version | `lastActiveAt` is set when a runtime is acquired, opened and released, so the sweep closes it under a turn that outlasts the TTL (conversation-runtime-manager.ts:87); line 50 says that idle runtimes are reclaimed, lines 6-7 that a turn under way is not destroyed |
| `~beside` | 2 callers, 2 versions | `acquire` awaits a close and then opens without a second look at the maps (conversation-runtime-manager.ts:107-108), though lines 4-5 say that concurrent acquires open once; the single-writer slot of the service keeps its acquires apart |
| `PlayingIsShown` | `JobCount = 2`, `UtteranceCount <- SilentTwice`, `PlayedBefore = FALSE` | the one playback controller of the page is attached to a second job with its state still "ended", "stopped" or "error" until the first chunk plays (live-playback-controller.ts:137-146, 232); Stop and the next prompt take it for over and do not cancel the job, though 14-16 says that `stop()` "mutes local sources, aborts the reader and dispatches `cancel_live_speech`" |
| `StableTurnId` | 1 client, 1 connection, `AskCount = 3`, `EventCount = 2` | an operation that returns during a turn forgets the turn's id (sessions.ts:411), so later events of that turn carry a fresh one; client/README.md:38: "a stable `turnId` for the agent turn that produced them" |
| `HoldersAreMembers` | `Strand = TRUE` | the client that opened a session is gone when the runtime is open; its failed attach disposes the session although others hold it (sessions.ts:440-470, 564-571) |
| `ShownInOrder` | `Races = {"load"}` | the page reads the cursor from the conversation's row and the list of messages after it; an answer in between is shown by both the load and the sync (chat-controller.ts:213-232) |
| `OwedIsShown` | `Races = {"sync"}` | a live answer overtakes a sync (connection.ts:353) and leaves the answers behind that the page's cursor has then passed; connection.ts:344-346 says that the missed answers come first and the live stream after them |
| `OwedIsShown` | `SyncLimit = 2`, 2 turns of another page | the same for the rows a sync did not list (services.ts:57) once a later answer moves the cursor |
| `OwedIsShown` | `PageLimit = 2` | a page load lists 50 rows and puts the cursor at the end of the stream: older answers are not on the screen |
| `CancelledStaysCancelled` | `agent_recovery` | cancelling the wait for a retry while a follow-up is queued goes on at once, and the same request is made again; coding-agent/docs/rpc.md:441-443: "Abort an in-progress retry (cancel the delay and stop retrying)" |
| `OwnReference` | `Files # {}` | one slot (agent-session.ts:376, 1348, 1590) holds the file references of the next message to be written, which may be another message |

Noted while modelling, and reachable in the models, but without a property, for the most part because no
text of the repository says what is owed. Turns and cache: two unawaited tool event writes may land in the other order
(context-restore.ts:8-9 promises it does not); `reset` returns before it looks at the opens in flight if
nothing is active, and deletes only the map's entry if something is, so that open becomes active after the
reset, though lines 172-173 of conversation-runtime-manager.ts say "drop it too so it never lands in `active`
after reset"; two callers of different versions share an open of the wrong
version (conversation-runtime-manager.ts:115); a drain does not close an open in flight (146); the
rollover summary is built from the first page of the stream and from no earlier summary, although
service.ts:985 says "at the current tail". Realtime: a turn orphaned by a lost connection is skipped
once the user stops and sends again; a replayed answer ends the page's waiting while another turn is
still pending; a turn that is refused uses up the cancel of another; a cancel during the opening of a
runtime is answered by nothing. Sessions: an operation during a turn takes the transient snapshot back
until the next message; live events overtake a replay. Speech: the job is announced before its prompt
is accepted, so a refused prompt leaves an announced job behind; the prompt's result registers a new
handle in place of the one the controller listens to; a status goes back from streaming to
generating. Agent session: a steering message whose files take longer to read than the run is left
until the next prompt; the shown text of such a message is never removed; a parallel tool that was
prepared before an abort still starts.

## 6. Proofs

The theorems about turns hold for every set of turns and every budget; the only assumptions are the
named ones on the constants (`NoTurnAssumption`, `BudgetAssumption`). Those about the cache assume
`ManagerAssumption` and what their statement says. The others assume `RealtimeAssumption`,
`SessionsAssumption`, `LiveSpeechAssumption` or `AgentSessionAssumption`, which give the constants their
types, and what their statement says.

* `PositionsSayWhatFoldsCompute` (assumes only that `Cuts` holds numbers): the loops never look back, the
  positional definitions look at the whole stream, so the invariant says what a loop knows in the middle.
  `Stands`: the turns put out so far are, in order, those of the questions that a later event has closed,
  and the pending turn is the one question that none has (`Opens`); `PairsStand`: a question is pending
  exactly if no event the driver looks at has followed it. A closed question keeps its outcome whatever
  comes later (`ClosedKept`), and the next event decides what becomes of the open one (`OpenKept`).
* `TypeCorrect`: `TypeOK` is inductive. The lemmas state what each helper (restoring, appending,
  hydrating, summarising) returns.
* `SingleWriterCorrect`, `ImplementsLedger`: from the inductive invariant
  `IInv == TypeOK /\ SingleWriter /\ Stages`. The single writer alone is inductive, but the
  refinement is not: that the next append is allowed depends on what the turn has written by
  each phase, and `Stages` says exactly that. Every action is one of five moves, each a lemma:
  a quiet move of the running turn, a write of the running turn, a side event, a move outside
  execution, or the end of execution (`GivesUp`, which covers returning, throwing and crashing).
* `LedgerReadable` (abstract): contiguity is not inductive either; it needs that no turn writes
  before it was given the stream and that, once the writer has an event, every later core event is
  the writer's.
* `StreamReadable`: the two together, by the refinement.
* `StreamAppendOnly`: the stream only grows and the newest summary never moves back.
* The second half of `ConversationTurnsProofs` takes all of this as `Ground` (types, single writer, stages, and core
  events contiguous and in order, which only the refinement gives) and adds what each property needs.
  `StreamInv`: only a turn's start comes before its question, and only turns that have asked are still
  to be written about. `SummariesCutBetweenTurns` needs nothing more and no assumption on the budget:
  a cut is at a settled turn, and what is appended behind it does not move it. `AnswersComeFromStream`
  (`LastInv`: the last answer of a transcript, of a restored context and of the reply in hand is the
  running turn's or one the stream holds) assumes no lost append and no tool; `PromptedFromLog`
  (`ContextInv`: a runtime is open only while its turn is in execution) that no turn throws past its
  handlers; `OnlyAnsweredRestored` (`ToolsUnused`) that no tool runs. `TurnsSettleOnce`,
  `AnswersStayRestorable` and `InterruptedAreConverged` share `SettleInv`, which assumes that no
  append fails: a settled turn has its end after its answer, a turn about to be converged is the last
  undecided question, and once a turn has converged every earlier question is decided. Each of the
  assumptions is needed: section 5 has the counterexample without it.
* `ManagerTypeCorrect` holds for any callers, versions and runtimes.
* `CacheHasOneRuntime` (any callers, any versions): as long as no caller that evicted has opened beside
  something, `Registered` holds: both maps tell the truth and there is never an active runtime and an open
  in flight at once. `SharedOneRuntime` (any number of callers, one version) and `SoleOneRuntime` (one caller,
  any versions) add that this never comes to pass (`~beside`). With one version nobody evicts; with one
  caller nothing can have come up in between (`Sole`), from which `SoleRightVersion` follows too.
* `SweepTakesFromLate` (any callers, any versions) from `Touched`: the active runtime a caller awaits or uses
  is idle only if that very turn has outlasted the TTL since it acquired it (`late`). No bound on the
  length of a turn is assumed.
* `RealtimeTypeCorrect` and `AnswersInOrder`: any number of turns, cancels, connections and retries. The
  screen is in order from `base` on because whatever is there is at or below the cursor and the cursor only
  grows until the reconnect button sets both anew; what a load finds lies below it because no answer is written between its two reads (`"load" \notin
  Races`).
* `CancelledIsFinal` (no assumption): from `Silent`. A start on its way belongs to one turn and one
  connection (`Belongs`, `Commanded`); turns in flight together on a connection are marked as sharing
  its flag (`Sharing`); and a turn that was stopped has ended or finds the flag still set (`Flagged`),
  since only a turn of its own connection could reset it. `Allowed` says the same of the events on
  their way, which a step of any actor could otherwise invalidate.
* `NothingOwedIsSkipped`: no outcome overtakes the sync of its connection (`"sync" \notin Races`) and,
  for as long as the behaviour is looked at, the stream fits in one page and one listing (`Bounded`).
  Its invariant `Owed` follows an owed answer: the answer of the turn that persists is the last one of
  the stream (`LastAnswer`), a connection begins with a sync from the page's cursor and brings nothing
  with a number before it (`SyncFirst`), and after it every owed answer above the cursor is in the
  queue to the page, in order (`Delivery`).
* `SessionTypeCorrect`, `OpensAlone`, `HoldersCounted`: any clients, connections and log size. The
  holders are the members only together with `Held`: the two are equal, a session that is not
  live or is being disposed has neither, and one without members has a turn. The
  assumption `~Strand` is used in one step, the end of an open.
* `QuietClientsAgree`: from `Informed`, which holds before the queues are empty. For a connected client at
  no replay, every event of the server's snapshot is in its view with no snapshot on the way, or in
  the last snapshot on the way, or on its way behind that snapshot and above every number before
  it (`Reaches`). A client at a replay is promised nothing until the replay ends with a snapshot: a
  live event may have overtaken it by then. `OwnLink` says that nobody reads another's queue. Only the
  last step, from the connections that hold the session to those that are counted, needs `~Strand`.
* `BacklogBounded` and `EndedIsSilent`: any number of jobs, utterances and chunks. The inductive
  invariant ties the queue to the run (`Over`: a job that is over has a settled queue; `Within`: what
  waits and what is worked on stay within the limit), since a source may still be opening when its job ends.
  That the Voice Service is asked for nothing more is in the statement: the queue of a job that is over takes up no
  utterance and its stage goes nowhere but to idle (`StaysOver`).
* `ChunksInOrder`, `CompletedHasSpoken`, `SpeechTypeCorrect`: from `Told`, one `Spoken` for each job. What
  waits follows the utterance worked on without a gap (`InLine`), no later utterance has emitted
  anything, what was read is written or is the one parked chunk, and the job completes when the
  last of it is written. A step is a step of one job that leaves the others as they were.
  `EndedWasHeard` adds `Listening`: the end of the body reaches the page after all of it.
* `SessionPhases`, `AsksWithTranscript`, `StrandsNothing`: any messages, tools, failures, retries and
  compactions. That the loop's copy equals the transcript rests on `Phases`: every step that changes
  the transcript from outside the loop needs a session without a run, and says so only through its
  own flags. That nothing is stranded needs more than the queues: a session that stops working has
  looked at both of them in the same step.
* `SessionTypeCorrect` (of the agent session): `Typed`, which must say what the last message of
  transcript and file is while calls are pending, and that a compaction's cut is a message in the file.
* `ResultsFollowCalls`: `BothSound`, for transcript and file at once, because a compaction rebuilds one from
  the other. Every result lies at its distance behind its answer, and unless the user aborted only
  the answer at the end may lack results, while its calls run. A cut keeps an answer with its results.
* `MessagesInOnePlace`: `Placed`, six disjoint sets (both queues, the run's pending messages, the file,
  the prompt in preparation, the messages whose files are read), all below the next message.
* `FailuresEnd`: `Counted`. A failure in the file is paid for by a retry, by one of the quotas that an abort or
  the recovery from an overflow opens (`Quota(Pardons)`), and just before the count is compared by one
  quota more (`Weak`); `Strong` holds wherever the session is about to ask again.
* `GoesOnAfterOneFailure`: `Spoken`, what the ends of transcript and file look like in each phase: when the
  last answer failed and is taken away, what is left ends with something the model has not answered.
  It and the lemmas on compaction use `NoneIsNoCompaction`: the value for "none" is not a compaction.
* `FileReadsAsTranscript`: `Agreed`, the same messages last in the transcript and in what the file is read
  as. `Lasting` says so by rank, which makes what lasts of a concatenation a sum of its parts
  (`LastingConcat`); what is added to the file is read last (`RereadGrows`), and a summary makes the file
  read as what the session rebuilds from it (`RereadSummary`). An answer is taken from the transcript
  only if it failed: the recovery goes by `last`, so that `Said` must tie `last` to the transcript's end.

Only model-checked: all liveness (`SlotFreed`,
`PendingSettles`, `SendingEnds`, `Disposed`, `AttachAnswered`, `ClaimedEnds`, `PlaybackEnds`,
`AbortReturns`, `Settles`), which needs `ENABLED`. Every invariant and every action property that a passing
run checks is a theorem.

## 7. Not modelled

Turns: payload text, token estimates, log levels, metrics, citations and the `context/snapshot`,
`citation/updated` and `assistant/chunk` events, which every restore skips; that the counters are at
their limits is a choice of the rollover check. The paging of `events.list` inside a restore.
`createConversation(previous)`: it asks for an archived predecessor without a successor
(service.ts:227-231), while `sealForRollover` updates only a row that is still active
(conversations.ts:170-190), so the chain of a rollover is left unlinked; no text says what a reader of
the chain may rely on. `ConversationTurns` assumes that a turn ends within the idle TTL of its
runtime, which `RuntimeManager` does not. The other executor, which opens a runtime per turn and closes it
(turn-executor.ts:38-67).

Realtime: text deltas (events without a sequence number), tickets and rate limits other than as a
choice, several conversations on one page, a crash of the server while a page is connected. The reconnect
button is shown, and modelled, when the transport has given up (app.tsx:465-470). The other ways the page
closes its transport itself, logging out and archiving, end the conversation and are not modelled.

Sessions: the retention time of the log, the server's list of sessions, revisions, citations and
attachments in a snapshot. `done`, what the runtime's transcript has, grows at the end of a turn only: a
turn's answer is one message, while the runtime's own snapshot gains messages that are finished
within a turn of several. A create is an open with one request that waits. The refusal of a command
by `requireAttached` (sessions.ts:573-582): the SDK's lease sends one only while it is active
(client.ts:231-375), so no client of the model ever meets it (an explored refusal was never enabled).

LiveSpeech: the text projector and segmenter, audio formats, limits in characters and seconds,
dropping a finished job, manual speech, a page without an audio context (live-playback-controller.ts:266-267,
which the unlock before a prompt rules out), pausing by buffer level, and a page that disconnects from the
session server while it plays.

AgentSession: manual compaction, tree navigation, changes of the model, custom messages, extension
commands, overlapping prompts (callers await the preflight), partial messages while an answer streams,
`agent-harness.ts`, results of a sequential batch one at a time (agent-loop.ts:472-481; they are appended
together at the end of the batch, as nothing else writes to transcript or file meanwhile), and failures of the loop itself (`handleRunFailure`).

Components that are not modelled, with the reason, are in `PROJECT.json`: for the most part guarded
updates of a single row (publishing, uploads, idempotency), atomic scripts of an external store
(limits, tickets, nonces), codecs, rendering, and separate processes around external engines. The debug
plane has its own copy of the turn loop without restarts. The models cover a small part of the
repository's lines: most of the rest is provider adapters, user interface, tooling and generated
tables, in which no state is shared between actors.
