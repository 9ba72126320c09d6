-------------------------- MODULE ConversationTurns --------------------------
(***************************************************************************)
(* Turns of one conversation: ConversationService.executeTurn with the     *)
(* runtime it prompts, the durable event stream it writes, Debussy         *)
(* compaction, archiving, and a process that may crash and restart.        *)
(*                                                                         *)
(* A member of Turns is one request to run a turn.  The actions of a turn  *)
(* are the pieces of executeTurn between two awaits; requests, tool event  *)
(* writes and archiving interleave between them.  Durable state is `log`,  *)
(* `status` and `summary`; everything else is memory and a crash loses it. *)
(***************************************************************************)
EXTENDS ContextRestore

CONSTANTS
    Budget,    \* how often each kind of fault or optional event may occur
    ListLimit  \* the most events one events.list returns (500)

ASSUME ListLimitAssumption == ListLimit \in Nat \ {0}

(***************************************************************************)
(* crash: the process dies.  append: safeAppend swallows a failed write.   *)
(* fail: a call that executeTurn does not catch throws, or an early return *)
(* is taken.  throw: runtime.prompt rejects.  stop: the prompt resolves     *)
(* without a complete answer (Stop pressed, provider error).  tool: a tool *)
(* is run.  summary: the context is over budget and gets summarised.       *)
(* rollover: the row is at its hard limits when a turn ends.               *)
(* archive: a request to archive the conversation.                         *)
(***************************************************************************)
BudgetKinds == {"crash", "append", "fail", "throw", "stop", "tool", "summary",
                "rollover", "archive"}

ASSUME BudgetAssumption == Budget \in [BudgetKinds -> Nat]

VARIABLES
    log,       \* conversation_events, in sequence order
    status,    \* conversations.status
    summary,   \* largest through_sequence in conversation_summaries, or NoSummary
    running,   \* is the conversation in runningTurns?
    pc,        \* where each turn is in executeTurn
    history,   \* the restored context each turn holds
    orphans,   \* interrupted turns each turn still has to converge
    reply,     \* the turn whose text each turn got from the runtime
    tool,      \* tool activity of each turn
    pending,   \* tool events whose write was started and not awaited
    runtime,   \* the runtime cached for the conversation
    archiving, \* progress of the request that archives the conversation
    used       \* how much of Budget is used up

durable  == <<log, status, summary>>
locals   == <<history, orphans, reply>>
vars     == <<log, status, summary, running, pc, history, orphans, reply,
              tool, pending, runtime, archiving, used>>

-----------------------------------------------------------------------------
\* pc values of a turn that holds the single-writer slot.
Executing == {"entered", "converging", "restored", "started", "asked", "rebuilding",
              "ready", "prompting", "answered", "ending", "compacting", "resetting",
              "checking", "recording", "failing", "returning", "aborting"}

Phases == {"idle", "checked", "done", "failed", "rejected", "lost"} \cup Executing

InExecution(t) == pc[t] \in Executing

(***************************************************************************)
(* RestoredContext as far as the properties tell: the turns it holds       *)
(* verbatim, the turn of its last assistant item, and the sequence its     *)
(* summary head stands for.                                                *)
(***************************************************************************)
TurnIds == Turns \cup {NoTurn}

\* A summary may cover nothing (through_sequence 0) and still be one.
NoSummary == -1
Throughs == Nat \cup {NoSummary}

Contexts == [turns : SUBSET TurnIds, last : TurnIds, through : Throughs]
NoContext == [turns |-> {}, last |-> NoTurn, through |-> NoSummary]

\* The transcript inside a cached runtime: the same facts, and whether the
\* restored history was injected already.
Runtimes == [open : BOOLEAN, hydrated : BOOLEAN, turns : SUBSET TurnIds,
             last : TurnIds, through : Throughs]
NoRuntime == [open |-> FALSE, hydrated |-> FALSE, turns |-> {}, last |-> NoTurn, through |-> NoSummary]

ToolEvents == [type : {"call", "result"}, turn : Turns]

Init ==
    /\ log = <<>> /\ status = "active" /\ summary = NoSummary
    /\ running = FALSE
    /\ pc = [t \in Turns |-> "idle"]
    /\ history = [t \in Turns |-> NoContext]
    /\ orphans = [t \in Turns |-> {}]
    /\ reply = [t \in Turns |-> NoTurn]
    /\ tool = [t \in Turns |-> "none"]
    /\ pending = {}
    /\ runtime = NoRuntime
    /\ archiving = "no"
    /\ used = [k \in BudgetKinds |-> 0]

Goto(t, from, to) == pc[t] = from /\ pc' = [pc EXCEPT ![t] = to]

Spend(kind) == used[kind] < Budget[kind] /\ used' = [used EXCEPT ![kind] = @ + 1]

(***************************************************************************)
(* ConversationEventRepository.append: the sequence is advanced and the    *)
(* event inserted in one transaction.  It does not look at the status.     *)
(***************************************************************************)
Append_(type, t, from) == log' = Append(log, Event(type, t, from))

\* safeAppend: the event is written, or the failure is swallowed.
SafeAppend(type, t, from) ==
    \/ Append_(type, t, from) /\ UNCHANGED used
    \/ Spend("append") /\ UNCHANGED log

(***************************************************************************)
(* The context restored from the events behind the newest summary, without *)
(* the events of the excluded turn; `kept` is what the budget lets in.     *)
(***************************************************************************)
Restored(kept, P) ==
    [turns |-> {log[i].turn : i \in kept}, last |-> LastAnswered(log, P, kept), through |-> summary]

-----------------------------------------------------------------------------
\* executeTurn reads the conversation row; an inactive one is not found.
Submit(t) ==
    /\ \/ status = "active" /\ Goto(t, "idle", "checked")
       \/ status # "active" /\ Goto(t, "idle", "rejected")
    /\ UNCHANGED <<log, status, summary, running, history, orphans, reply,
                   tool, pending, runtime, archiving, used>>

(***************************************************************************)
(* The single-writer guard: the test and the insertion into runningTurns   *)
(* have no await between them.                                             *)
(***************************************************************************)
EnterUnguarded(t) ==
    /\ running' = TRUE
    /\ Goto(t, "checked", "entered")
    /\ UNCHANGED <<durable, locals, tool, pending, runtime, archiving, used>>

Enter(t) ==
    /\ ~running /\ running' = TRUE
    /\ Goto(t, "checked", "entered")
    /\ UNCHANGED <<durable, locals, tool, pending, runtime, archiving, used>>

AlreadyRunning(t) ==
    /\ running
    /\ Goto(t, "checked", "rejected")
    /\ UNCHANGED <<durable, locals, running, tool, pending, runtime, archiving, used>>

(***************************************************************************)
(* restoreHistory.  With a summary it returns before it converges the      *)
(* interrupted turns; without one it writes turn/interrupted for each.     *)
(***************************************************************************)
RestoreHistory(t) ==
    LET P == Replayed(log, summary, NoTurn)
        interrupted == {log[i].turn : i \in InterruptedPositions(log, P)} \ {NoTurn}
    IN  /\ Goto(t, "entered", "converging")
        /\ \E kept \in TrimmedSuffixes(CompletedPositions(log, P)) :
              history' = [history EXCEPT ![t] = Restored(kept, P)]
        /\ orphans' = [orphans EXCEPT ![t] = IF summary = NoSummary THEN interrupted ELSE {}]
        /\ UNCHANGED <<durable, running, reply, tool, pending, runtime, archiving, used>>

\* One turn/interrupted of the loop, oldest interrupted turn first.
Converge(t) ==
    /\ pc[t] = "converging"
    /\ \E u \in orphans[t] :
          /\ \A i, j \in UserPositions(log, DOMAIN log) :
                (log[i].turn = u /\ log[j].turn \in orphans[t]) => i <= j
          /\ SafeAppend("interrupted", u, NoTurn)
          /\ orphans' = [orphans EXCEPT ![t] = @ \ {u}]
    /\ UNCHANGED <<status, summary, running, pc, history, reply, tool, pending, runtime, archiving>>

ConvergedAtOnce(t) ==
    /\ Goto(t, "converging", "restored")
    /\ UNCHANGED <<durable, locals, running, tool, pending, runtime, archiving, used>>

Converged(t) ==
    /\ orphans[t] = {}
    /\ Goto(t, "converging", "restored")
    /\ UNCHANGED <<durable, locals, running, tool, pending, runtime, archiving, used>>

\* turn/start; the turn is given up when it cannot be written.
WriteStart(t) ==
    /\ \/ Append_("start", t, NoTurn) /\ Goto(t, "restored", "started") /\ UNCHANGED used
       \/ Spend("append") /\ Goto(t, "restored", "aborting") /\ UNCHANGED log
    /\ UNCHANGED <<status, summary, locals, running, tool, pending, runtime, archiving>>

\* user/message, written by events.append itself: a failed write throws.
WriteUser(t) ==
    /\ \/ Append_("user", t, t) /\ Goto(t, "started", "asked") /\ UNCHANGED used
       \/ Spend("append") /\ Goto(t, "started", "aborting") /\ UNCHANGED log
    /\ UNCHANGED <<status, summary, locals, running, tool, pending, runtime, archiving>>

-----------------------------------------------------------------------------
(***************************************************************************)
(* runDebussyCompaction: when the budget is exceeded a summary is inserted *)
(* that ends at a paired answer.  advanceLatest, which follows the insert, *)
(* moves a pointer no restore reads.                                       *)
(***************************************************************************)
InsertSummary ==
    /\ Spend("summary")
    /\ \E boundary \in SummaryBoundaries(log, summary) : summary' = boundary

\* runPrePromptGuard: keep the context, or summarise prior turns first.
PrePromptGuard(t) ==
    /\ \/ Goto(t, "asked", "ready") /\ UNCHANGED <<summary, used>>
       \/ Goto(t, "asked", "rebuilding") /\ InsertSummary
    /\ UNCHANGED <<log, status, locals, running, tool, pending, runtime, archiving>>

\* ... and then restore again, without the events of this turn.
Rebuild(t) ==
    LET P == Replayed(log, summary, t) IN
    /\ Goto(t, "rebuilding", "ready")
    /\ \E kept \in TrimmedSuffixes(CompletedPositions(log, P)) :
          history' = [history EXCEPT ![t] = Restored(kept, P)]
    /\ UNCHANGED <<durable, orphans, reply, running, tool, pending, runtime, archiving, used>>

(***************************************************************************)
(* managedTurnExecutor acquires the cached runtime or opens one, and       *)
(* prompts it.  A runtime is hydrated with the restored history by its     *)
(* first prompt only; later prompts ignore the history they are given.     *)
(***************************************************************************)
Hydrate(t) ==
    IF runtime.hydrated THEN runtime
    ELSE [open |-> TRUE, hydrated |-> TRUE, turns |-> history[t].turns,
          last |-> history[t].last, through |-> history[t].through]

Prompt(t) ==
    /\ Goto(t, "ready", "prompting")
    /\ runtime' = [Hydrate(t) EXCEPT !.turns = @ \cup {t}]
    /\ UNCHANGED <<durable, locals, running, tool, pending, archiving, used>>

\* ... or rejects when the run is under way; no tool is running then.
PromptFails(t) ==
    /\ tool[t] # "called"
    /\ Spend("throw")
    /\ Goto(t, "prompting", "failing")
    /\ UNCHANGED <<durable, locals, running, tool, pending, runtime, archiving>>

\* The prompt is refused before the user message reaches the transcript (no
\* model, no credentials); the executor turns the exception into a failure.
PromptThrows(t) ==
    /\ Spend("throw")
    /\ Goto(t, "ready", "failing")
    /\ runtime' = Hydrate(t)
    /\ UNCHANGED <<durable, locals, running, tool, pending, archiving>>

(***************************************************************************)
(* The runtime starts and finishes a tool.  onProgress starts the write of *)
(* tool/call and tool/result and does not wait for it.  The message that   *)
(* holds the tool call is a complete assistant item of this turn.          *)
(***************************************************************************)
ToolStarted(t) ==
    /\ pc[t] = "prompting" /\ tool[t] = "none"
    /\ Spend("tool")
    /\ tool' = [tool EXCEPT ![t] = "called"]
    /\ pending' = pending \cup {[type |-> "call", turn |-> t]}
    /\ runtime' = [runtime EXCEPT !.last = t]
    /\ UNCHANGED <<durable, locals, running, pc, archiving>>

ToolFinished(t) ==
    /\ pc[t] = "prompting" /\ tool[t] = "called"
    /\ tool' = [tool EXCEPT ![t] = "finished"]
    /\ pending' = pending \cup {[type |-> "result", turn |-> t]}
    /\ UNCHANGED <<durable, locals, running, pc, runtime, archiving, used>>

\* A started tool event write lands, in any order, or fails silently.
PersistTool(e) ==
    /\ e \in pending
    /\ pending' = pending \ {e}
    /\ SafeAppend(e.type, e.turn, NoTurn)
    /\ UNCHANGED <<status, summary, locals, running, pc, tool, runtime, archiving>>

(***************************************************************************)
(* The prompt resolves.  The output is the text of the last complete       *)
(* assistant item of the snapshot (lastAssistantResult): this turn's       *)
(* answer, or, when the run was stopped or the provider failed, whatever   *)
(* complete assistant item comes last in the transcript.                   *)
(***************************************************************************)
Answer(t) ==
    /\ Goto(t, "prompting", "answered")
    /\ tool[t] # "called"
    /\ runtime' = [runtime EXCEPT !.last = t]
    /\ reply' = [reply EXCEPT ![t] = t]
    /\ UNCHANGED <<durable, history, orphans, running, tool, pending, archiving, used>>

Stop(t) ==
    /\ Spend("stop")
    /\ Goto(t, "prompting", "answered")
    /\ reply' = [reply EXCEPT ![t] = runtime.last]
    /\ UNCHANGED <<durable, history, orphans, running, tool, pending, runtime, archiving>>

-----------------------------------------------------------------------------
WriteAssistantThrowing(t) ==
    /\ \/ Append_("assistant", t, reply[t]) /\ Goto(t, "answered", "ending") /\ UNCHANGED used
       \/ Spend("fail") /\ Goto(t, "answered", "aborting") /\ UNCHANGED log
    /\ UNCHANGED <<status, summary, locals, running, tool, pending, runtime, archiving>>

WriteAssistant(t) ==
    /\ Goto(t, "answered", "ending")
    /\ SafeAppend("assistant", t, reply[t])
    /\ UNCHANGED <<status, summary, locals, running, tool, pending, runtime, archiving>>

WriteEnd(t) ==
    /\ Goto(t, "ending", "compacting")
    /\ SafeAppend("end", t, NoTurn)
    /\ UNCHANGED <<status, summary, locals, running, tool, pending, runtime, archiving>>

Compact(t) ==
    /\ Goto(t, "compacting", "resetting")
    /\ UNCHANGED <<summary, used>> \/ InsertSummary
    /\ UNCHANGED <<log, status, locals, running, tool, pending, runtime, archiving>>

\* onCompacted: the cached runtime is evicted after every completed turn.
ResetSkipped(t) ==
    /\ Goto(t, "resetting", "checking")
    /\ UNCHANGED <<durable, locals, running, tool, pending, runtime, archiving, used>>

ResetRuntime(t) ==
    /\ Goto(t, "resetting", "checking")
    /\ runtime' = NoRuntime
    /\ UNCHANGED <<durable, locals, running, tool, pending, archiving, used>>

\* getLatest: the summary with the largest throughSequence.
Newest(S, n) == n \in S /\ \A j \in S : j <= n

(***************************************************************************)
(* tryRolloverIfNeeded: a row at its hard limits gets a summary built from *)
(* one page of events from the start of the stream, up to the last answer  *)
(* on that page, or covering nothing.  Restores read the largest           *)
(* throughSequence, so a summary behind the newest one changes nothing.    *)
(***************************************************************************)
RolloverCheck(t) ==
    LET covered == {summary, 0} \cup {j \in PairedAnswers(log, 0) : j <= ListLimit} IN
    /\ \/ Goto(t, "checking", "returning") /\ UNCHANGED <<summary, used>>
       \/ /\ Spend("rollover")
          /\ Goto(t, "checking", "recording")
          /\ \E n \in covered : Newest(covered, n) /\ summary' = n
    /\ UNCHANGED <<log, status, locals, running, tool, pending, runtime, archiving>>

\* ... and conversation/rollover is appended.
RecordRollover(t) ==
    /\ Goto(t, "recording", "returning")
    /\ SafeAppend("other", NoTurn, NoTurn)
    /\ UNCHANGED <<status, summary, locals, running, tool, pending, runtime, archiving>>

WriteFailed(t) ==
    /\ Goto(t, "failing", "aborting")
    /\ SafeAppend("failed", t, NoTurn)
    /\ UNCHANGED <<status, summary, locals, running, tool, pending, runtime, archiving>>

(***************************************************************************)
(* Calls that executeTurn leaves uncaught, and its early returns: the      *)
(* version or its spec is unusable, retrieval fails or the context         *)
(* snapshot is not written, the pre-prompt compaction or opening the       *)
(* runtime throws; the compaction, the eviction or the rollover check      *)
(* after the turn throws.                                                  *)
(***************************************************************************)
Fallible == {"entered", "started", "asked", "rebuilding", "ready",
             "compacting", "resetting", "checking", "recording"}

FailsAsTurnFailed(t) ==
    /\ Spend("fail")
    /\ pc[t] \in Fallible
    /\ pc' = [pc EXCEPT ![t] = "failing"]
    /\ UNCHANGED <<durable, locals, running, tool, pending, runtime, archiving>>

FailsUncaught(t) ==
    /\ Spend("fail")
    /\ pc[t] \in Fallible
    /\ pc' = [pc EXCEPT ![t] = "aborting"]
    /\ UNCHANGED <<durable, locals, running, tool, pending, runtime, archiving>>

\* The finally block releases the slot; the call's locals are gone.
LeaveOnSuccessOnly(t) ==
    /\ \/ Goto(t, "returning", "done") /\ running' = FALSE
       \/ Goto(t, "aborting", "failed") /\ UNCHANGED running
    /\ history' = [history EXCEPT ![t] = NoContext]
    /\ orphans' = [orphans EXCEPT ![t] = {}]
    /\ reply' = [reply EXCEPT ![t] = NoTurn]
    /\ UNCHANGED <<durable, tool, pending, runtime, archiving, used>>

Leave(t) ==
    /\ \/ Goto(t, "returning", "done")
       \/ Goto(t, "aborting", "failed")
    /\ running' = FALSE
    /\ history' = [history EXCEPT ![t] = NoContext]
    /\ orphans' = [orphans EXCEPT ![t] = {}]
    /\ reply' = [reply EXCEPT ![t] = NoTurn]
    /\ UNCHANGED <<durable, tool, pending, runtime, archiving, used>>

-----------------------------------------------------------------------------
\* The idle sweep closes a runtime no turn uses; a turn longer than the idle
\* TTL is the business of RuntimeManager.
SweepIdle ==
    /\ runtime.open /\ \A t \in Turns : ~InExecution(t)
    /\ runtime' = NoRuntime
    /\ UNCHANGED <<durable, locals, running, pc, tool, pending, archiving, used>>

(***************************************************************************)
(* archiveConversation: read the row, and if it is active set the status   *)
(* and then append conversation/archived.  Running turns are not looked at.*)
(***************************************************************************)
ArchiveRequested ==
    /\ archiving = "no" /\ status = "active"
    /\ Spend("archive")
    /\ archiving' = "read"
    /\ UNCHANGED <<durable, locals, running, pc, tool, pending, runtime>>

ArchiveUpdated ==
    /\ archiving = "read"
    /\ status' = "archived" /\ archiving' = "updated"
    /\ UNCHANGED <<log, summary, locals, running, pc, tool, pending, runtime, used>>

ArchiveRecorded ==
    /\ archiving = "updated" /\ archiving' = "no"
    /\ SafeAppend("other", NoTurn, NoTurn)
    /\ UNCHANGED <<status, summary, locals, running, pc, tool, pending, runtime>>

(***************************************************************************)
(* The process dies and restarts: the durable state stays, every request   *)
(* in progress and everything in memory is gone.                           *)
(***************************************************************************)
Crash ==
    /\ Spend("crash")
    /\ pc' = [t \in Turns |-> IF InExecution(t) THEN "lost"
                             ELSE IF pc[t] = "checked" THEN "rejected" ELSE pc[t]]
    /\ running' = FALSE /\ runtime' = NoRuntime /\ pending' = {} /\ archiving' = "no"
    /\ history' = [t \in Turns |-> NoContext]
    /\ orphans' = [t \in Turns |-> {}]
    /\ reply' = [t \in Turns |-> NoTurn]
    /\ UNCHANGED <<durable, tool>>

-----------------------------------------------------------------------------
TurnStep(t) ==
    \/ Enter(t) \/ AlreadyRunning(t) \/ RestoreHistory(t) \/ Converge(t) \/ Converged(t)
    \/ WriteStart(t) \/ WriteUser(t) \/ PrePromptGuard(t) \/ Rebuild(t)
    \/ Prompt(t) \/ PromptThrows(t) \/ PromptFails(t) \/ ToolStarted(t) \/ ToolFinished(t) \/ Answer(t) \/ Stop(t)
    \/ WriteAssistant(t) \/ WriteEnd(t) \/ Compact(t) \/ ResetRuntime(t)
    \/ RolloverCheck(t) \/ RecordRollover(t) \/ WriteFailed(t) \/ FailsUncaught(t) \/ Leave(t)

Environment ==
    \/ \E t \in Turns : Submit(t)
    \/ \E e \in ToolEvents : PersistTool(e)
    \/ SweepIdle
    \/ ArchiveRequested \/ ArchiveUpdated \/ ArchiveRecorded
    \/ Crash

Next == (\E t \in Turns : TurnStep(t)) \/ Environment

Spec == Init /\ [][Next]_vars

(***************************************************************************)
(* Every await of a turn that is still running settles: the repositories   *)
(* answer or throw, and the model run resolves.                            *)
(***************************************************************************)
FairSpec == Spec /\ \A t \in Turns : WF_vars(TurnStep(t))

-----------------------------------------------------------------------------
TypeOK ==
    /\ log \in Seq(Events) /\ status \in {"active", "archived"} /\ summary \in Throughs
    /\ running \in BOOLEAN
    /\ pc \in [Turns -> Phases]
    /\ history \in [Turns -> Contexts]
    /\ orphans \in [Turns -> SUBSET Turns]
    /\ reply \in [Turns -> TurnIds]
    /\ tool \in [Turns -> {"none", "called", "finished"}]
    /\ pending \subseteq ToolEvents
    /\ runtime \in Runtimes
    /\ archiving \in {"no", "read", "updated"}
    /\ used \in [BudgetKinds -> Nat]

(***************************************************************************)
(* At most one turn of the conversation executes, and runningTurns holds   *)
(* the conversation exactly while one does (PD-13, service.ts:643-654 and  *)
(* the finally block).                                                     *)
(***************************************************************************)
SingleWriter ==
    /\ \A t, u \in Turns : InExecution(t) /\ InExecution(u) => t = u
    /\ running <=> \E t \in Turns : InExecution(t)

(***************************************************************************)
(* The stream and its single writer implement the TurnLedger: the writer   *)
(* is the turn in execution, and the turns begun are those that entered.   *)
(***************************************************************************)
WriterOf(p) ==
    IF \E t \in Turns : p[t] \in Executing THEN CHOOSE t \in Turns : p[t] \in Executing ELSE NoTurn

Writer == WriterOf(pc)

Begun == {t \in Turns : pc[t] \notin {"idle", "checked", "rejected"}}

Ledger == INSTANCE TurnLedger WITH writer <- Writer, begun <- Begun

LedgerSpec == Ledger!Spec

(***************************************************************************)
(* The stream is readable by position: the events the running turn writes  *)
(* are contiguous and in the persistence order (service.ts:634-646).       *)
(***************************************************************************)
Readable == Ledger!Contiguous /\ Ledger!Grammatical

(***************************************************************************)
(* The runtime is prompted with the context the durable stream gives: the  *)
(* transcript holds, besides this turn, exactly the turns restored for it, *)
(* behind the same summary (conversation-runtime.ts:104-114 hydrates once, *)
(* service.ts:859-868 evicts the runtime after every turn).                *)
(***************************************************************************)
ContextFromLog ==
    \A t \in Turns : pc[t] = "prompting" =>
        /\ runtime.turns \ {t} = history[t].turns
        /\ runtime.through = history[t].through

\* No turn finds a runtime some earlier turn left behind (start.ts:300-303).
NeverRecycled == \A t \in Turns : pc[t] = "ready" => ~runtime.open

(***************************************************************************)
(* The text persisted as the answer of a turn is an answer of that turn    *)
(* (turn-executor.ts:127-133: never a fabricated complete                  *)
(* assistant/message).                                                     *)
(***************************************************************************)
OwnAnswers == \A i \in DOMAIN log : log[i].type = "assistant" => log[i].from \in {log[i].turn, NoTurn}

(***************************************************************************)
(* What is persisted as the answer of a turn that got none of its own is   *)
(* nothing, or an answer the stream held already: a runtime that outlives  *)
(* its turn never brings in one that was given up (service.ts:866;         *)
(* turn-executor.ts:118 reads the whole transcript).                       *)
(***************************************************************************)
AnswersFromStream ==
    \A i \in DOMAIN log :
        log[i].type = "assistant" /\ log[i].from \notin {log[i].turn, NoTurn} =>
            \E j \in 1 .. i - 1 : log[j].type = "assistant" /\ log[j].turn = log[i].from

(***************************************************************************)
(* A turn settles once: the stream never holds two of turn/end,            *)
(* turn/failed and turn/interrupted of one turn (service.ts:672-673:       *)
(* converging is idempotent).                                              *)
(***************************************************************************)
SettlesOnce ==
    \A i, j \in DOMAIN log :
        (/\ log[i].type \in {"end", "failed", "interrupted"}
         /\ log[j].type \in {"end", "failed", "interrupted"}
         /\ log[i].turn = log[j].turn) => i = j

(***************************************************************************)
(* A persisted answer stays restorable: the turn of every                  *)
(* assistant/message in the stream is one a restore of the whole stream    *)
(* gives back (safeAppend, service.ts:469-475: a failed append only loses  *)
(* a side observation).                                                    *)
(***************************************************************************)
AnswersRestorable ==
    \A j \in DOMAIN log : log[j].type = "assistant" =>
        \E i \in CompletedPositions(log, Replayed(log, 0, NoTurn)) : log[i].turn = log[j].turn

(***************************************************************************)
(* By the time a turn writes, every earlier turn that began and did not    *)
(* complete is converged: a restore of the stream without this turn's      *)
(* events reports no interrupted turn (service.ts:525).                    *)
(***************************************************************************)
InterruptedConverged ==
    \A t \in Turns : pc[t] \in Executing \ {"entered", "converging", "aborting"} =>
        InterruptedPositions(log, Replayed(log, 0, t)) = {}

(***************************************************************************)
(* Only turns that got their answer persisted are restored (service.ts:672:*)
(* only completed pairs), and a turn never finds itself in its own         *)
(* context (service.ts:544-546).                                           *)
(***************************************************************************)
RestoresAnsweredOnly ==
    \A t \in Turns : \A u \in history[t].turns :
        u # t /\ \E i \in DOMAIN log : log[i].type = "assistant" /\ log[i].turn = u

(***************************************************************************)
(* A summary ends behind complete turns: no event that belongs to the      *)
(* transcript of a turn lies on both sides of it, and a turn still to be   *)
(* answered lies wholly behind it (compaction-drive.ts:186-188).           *)
(***************************************************************************)
SummaryCutsBetweenTurns ==
    /\ \A i, j \in DOMAIN log :
          (/\ log[i].type \in {"user", "assistant"} /\ log[j].type \in {"user", "assistant"}
           /\ log[i].turn = log[j].turn) => (i <= summary <=> j <= summary)
    /\ \A i \in 1 .. summary :
          log[i].type = "user" => ~(InExecution(log[i].turn) /\ pc[log[i].turn] \in
              {"asked", "rebuilding", "ready", "prompting", "answered"})

\* The stream only grows at its end, and the newest summary only advances.
AppendOnly ==
    [][/\ \E n \in 0 .. 1 : Len(log') = Len(log) + n
       /\ \A i \in DOMAIN log : log'[i] = log[i]
       /\ summary' >= summary]_vars

(***************************************************************************)
(* The single-writer slot is given back: a conversation that is running a  *)
(* turn can take another one later, whichever way the turn ends            *)
(* (the finally block of executeTurn, service.ts:909-911).                 *)
(***************************************************************************)
SlotFreed == running ~> ~running
=============================================================================
