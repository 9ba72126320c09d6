---------------------------- MODULE AgentSession ----------------------------
(***************************************************************************)
(* One agent session: the loop that asks the model and runs its tools, the *)
(* Agent with its transcript and its two queues, and the AgentSession that *)
(* keeps the session file, retries, compacts and goes on with what waits.  *)
(*                                                                         *)
(* An action is the code between two awaits at which the user, the model,  *)
(* a tool or a timer can come in; awaits of a settled promise are within   *)
(* an action.  Callers await the preflight of a prompt before the next one.*)
(***************************************************************************)
EXTENDS Naturals, Sequences, FiniteSets

CONSTANTS
    MessageCount, \* bound: messages of the user, numbered as they are sent
    Files,        \* the messages that carry files
    TurnCount,    \* bound: answers of the model that call tools
    CallCount,    \* bound: tool calls of an answer
    MaxRetries,   \* settings.retry.maxRetries
    AbortCount,   \* bound: aborts
    BashCount,    \* bound: commands the user runs
    Outcomes,     \* how the model's answers may end
    AllAtOnce,    \* queue mode: "all", otherwise "one-at-a-time"
    None

Messages == 1 .. MessageCount

ASSUME AgentSessionAssumption ==
    /\ MessageCount \in Nat /\ Files \subseteq Messages
    /\ TurnCount \in Nat /\ CallCount \in Nat \ {0} /\ MaxRetries \in Nat
    /\ AbortCount \in Nat /\ BashCount \in Nat
    /\ Outcomes \subseteq {"stop", "toolUse", "length", "error", "fatal", "overflow"} /\ "stop" \in Outcomes
    /\ AllAtOnce \in BOOLEAN /\ None \notin Nat

ASSUME NoneIsNoCompaction == None \notin [why : {"prompt", "reprompt", "retry", "after"}, cut : Nat]

VARIABLES
    transcript, \* agent.state.messages
    entries,    \* the session file
    run,        \* the run of the loop
    steering,   \* agent.steeringQueue
    followUps,  \* agent.followUpQueue
    building,   \* messages whose files are being read, with their queue
    shown,      \* _steeringMessages and _followUpMessages
    reference,  \* _pendingUserReferenceText
    phase,      \* where prompt and _runAgentPrompt are
    active,     \* _isAgentRunActive
    prompting,  \* the message in preflight
    last,       \* _lastAssistantMessage: its stop reason
    retry,      \* _retryAttempt
    overflowed, \* _overflowRecoveryAttempted
    compaction, \* the compaction that runs: why, and its first kept entry
    bashes,     \* _pendingBashMessages
    settling,   \* agent_settled is being emitted
    waiting,    \* a caller of abort waits for idle
    asked, bashed, aborts

queues == <<steering, followUps, building, shown>>
session == <<reference, active, prompting, bashes, settling, waiting>>
recovery == <<last, retry, overflowed, compaction>>
counters == <<asked, bashed, aborts>>
vars == <<transcript, entries, run, queues, phase, session, recovery, counters>>

\* A message of the user and, instead of its content, a message whose reference
\* it is; an answer, its number of calls and stop reason; the result of a call;
\* a command; a summary and its first kept entry.
Item(role, of, n, note) == [role |-> role, of |-> of, n |-> n, note |-> note]

\* pc; the messages drawn from a queue; the calls of the last answer; whether
\* they run one by one; whether the run is aborted, and was when it last asked;
\* whether the first poll for steering is skipped; currentContext.messages.
NoRun == [pc |-> "none", pending |-> <<>>, calls |-> <<>>, serial |-> FALSE,
          aborted |-> FALSE, dead |-> FALSE, skip |-> FALSE, context |-> <<>>]

Init ==
    /\ transcript = <<>> /\ entries = <<>> /\ run = NoRun
    /\ steering = <<>> /\ followUps = <<>> /\ building = {}
    /\ shown = [steering |-> <<>>, followUps |-> <<>>] /\ reference = None
    /\ phase = "idle" /\ active = FALSE /\ prompting = None
    /\ last = None /\ retry = 0 /\ overflowed = FALSE /\ compaction = None
    /\ bashes = <<>> /\ settling = FALSE /\ waiting = FALSE
    /\ asked = 0 /\ bashed = 0 /\ aborts = 0

Failures == {"error", "fatal", "overflow"}

IsLast(role) == transcript # <<>> /\ transcript[Len(transcript)].role = role

\* slice(0, -1) if the transcript ends with an assistant message.
WithoutAnswer(messages) ==
    IF messages # <<>> /\ messages[Len(messages)].role = "assistant"
    THEN SubSeq(messages, 1, Len(messages) - 1) ELSE messages

Queued == steering # <<>> \/ followUps # <<>>

\* drain
Drained(queue) == IF AllAtOnce \/ queue = <<>> THEN queue ELSE <<Head(queue)>>
LeftWhole(queue) == IF AllAtOnce THEN <<>> ELSE queue
Left(queue) == IF AllAtOnce \/ queue = <<>> THEN <<>> ELSE Tail(queue)

-----------------------------------------------------------------------------
(***************************************************************************)
(* The user.  Session clients steer a session that works on a prompt.      *)
(***************************************************************************)
Working == active \/ prompting # None

\* Between the decision to continue and agent.continue nothing is awaited but
\* settled promises.
Free == phase # "continuing"

Sends(m) == /\ Free /\ asked < MessageCount /\ m = asked + 1 /\ asked' = m

\* A queued message is shown at once and queued when its files have been read.
Queues(m, lane) ==
    /\ shown' = [shown EXCEPT ![lane] = Append(@, m)]
    /\ IF m \in Files
       THEN building' = building \cup {<<m, lane>>} /\ UNCHANGED <<steering, followUps>>
       ELSE /\ steering' = IF lane = "steering" THEN Append(steering, m) ELSE steering
            /\ followUps' = IF lane = "followUps" THEN Append(followUps, m) ELSE followUps
            /\ UNCHANGED building

Steer(m) ==
    /\ Working /\ Sends(m) /\ Queues(m, "steering")
    /\ UNCHANGED <<transcript, entries, run, phase, session, recovery, bashed, aborts>>

FollowUp(m) ==
    /\ Working /\ Sends(m) /\ Queues(m, "followUps")
    /\ UNCHANGED <<transcript, entries, run, phase, session, recovery, bashed, aborts>>

\* The content is built, the reference noted, and the message queued.
FilesRead(m) ==
    /\ Free
    /\ \E lane \in {"steering", "followUps"} :
          /\ <<m, lane>> \in building
          /\ building' = building \ {<<m, lane>>}
          /\ steering' = IF lane = "steering" THEN Append(steering, m) ELSE steering
          /\ followUps' = IF lane = "followUps" THEN Append(followUps, m) ELSE followUps
    /\ reference' = m
    /\ UNCHANGED <<transcript, entries, run, shown, phase, active, prompting, bashes, settling, waiting, recovery, counters>>

ClearQueue ==
    /\ Free /\ Queued
    /\ steering' = <<>> /\ followUps' = <<>>
    /\ shown' = [steering |-> <<>>, followUps |-> <<>>]
    /\ UNCHANGED <<transcript, entries, run, building, phase, session, recovery, counters>>

\* flushPendingBashMessages
Flush ==
    /\ transcript' = transcript \o bashes
    /\ entries' = entries \o bashes
    /\ bashes' = <<>>

\* recordBashResult
RecordBashAtOnce ==
    /\ Free /\ bashed < BashCount /\ bashed' = bashed + 1
    /\ transcript' = Append(transcript, Item("bash", bashed + 1, 0, "none"))
    /\ entries' = Append(entries, Item("bash", bashed + 1, 0, "none"))
    /\ UNCHANGED <<run, queues, phase, session, recovery, asked, aborts>>

RecordBash ==
    /\ Free /\ bashed < BashCount /\ bashed' = bashed + 1
    /\ LET bash == Item("bash", bashed + 1, 0, "none") IN
       IF active THEN bashes' = Append(bashes, bash) /\ UNCHANGED <<transcript, entries>>
       ELSE /\ transcript' = Append(transcript, bash)
            /\ entries' = Append(entries, bash)
            /\ UNCHANGED bashes
    /\ UNCHANGED <<run, queues, phase, reference, active, prompting, settling, waiting, recovery, asked, aborts>>

-----------------------------------------------------------------------------
(***************************************************************************)
(* Compaction.  It keeps the entries from a cut point on; what the entries *)
(* before it said is in the summary.                                       *)
(***************************************************************************)
Boundaries == {i \in DOMAIN entries : entries[i].role = "compaction"}
Boundary == IF Boundaries = {} THEN 0 ELSE CHOOSE i \in Boundaries : \A k \in Boundaries : k <= i
KeptFrom == IF Boundary = 0 THEN 1 ELSE entries[Boundary].of

\* findCutPoint and prepareCompaction: not at a tool result, and something
\* before it to summarize.
Cuts ==
    {i \in KeptFrom .. Len(entries) :
        /\ Boundary # Len(entries)
        /\ entries[i].role \in {"user", "assistant", "bash"}
        /\ \E k \in KeptFrom .. i - 1 : entries[k].role # "compaction"}

Compacts(why) ==
    /\ phase' = "compacting"
    /\ \E cut \in Cuts : compaction' = [why |-> why, cut |-> cut]

\* buildSessionContext, with the boundary at the end of the entries.
Rebuilt(cut) == <<Item("compaction", cut, 0, "none")>> \o SubSeq(entries, cut, Len(entries))

-----------------------------------------------------------------------------
(***************************************************************************)
(* The prompt.                                                             *)
(***************************************************************************)
AskPrompt(m) ==
    /\ ~Working /\ Sends(m)
    /\ prompting' = m /\ phase' = "asked" /\ Flush
    /\ UNCHANGED <<run, queues, reference, active, settling, waiting, recovery, bashed, aborts>>

Answers(messages) == {i \in DOMAIN messages : messages[i].role = "assistant"}

LastAnswer == transcript[CHOOSE i \in Answers(transcript) : \A k \in Answers(transcript) : k <= i]

\* checkCompaction before the prompt, if the last answer is newer than the last
\* compaction.  An answer that did not fit also leaves the transcript, once.
CompactFirst ==
    /\ phase = "asked" /\ Answers(transcript) # {}
    /\ \A i \in Answers(entries) : entries[i].of = LastAnswer.of => i > Boundary
    /\ \/ LastAnswer.note # "overflow" /\ Compacts("prompt") /\ UNCHANGED <<transcript, overflowed>>
       \/ /\ LastAnswer.note \in {"overflow", "length"} /\ ~overflowed /\ Compacts("reprompt")
          /\ overflowed' = TRUE /\ transcript' = WithoutAnswer(transcript)
    /\ UNCHANGED <<entries, run, queues, session, last, retry, counters>>

\* The messages are built, and _runAgentPrompt starts a run.
StartPrompt ==
    /\ phase \in {"asked", "compacted"}
    /\ reference' = IF prompting \in Files THEN prompting ELSE reference
    /\ active' = TRUE /\ phase' = "running" /\ prompting' = None
    /\ run' = [NoRun EXCEPT !.pc = "prompt", !.pending = <<prompting>>, !.context = transcript]
    /\ UNCHANGED <<transcript, entries, queues, bashes, settling, waiting, recovery, counters>>

-----------------------------------------------------------------------------
(***************************************************************************)
(* The loop.                                                               *)
(***************************************************************************)
Running(pc) == phase = "running" /\ run.pc = pc

\* message_start and message_end of the pending messages: a shown message is
\* found by its text; in the file a noted reference replaces the first content.
Delivered == [i \in DOMAIN run.pending |-> Item("user", run.pending[i], 0, "none")]

Filed == [i \in DOMAIN run.pending |-> [Delivered[i] EXCEPT !.n = IF i = 1 /\ reference # None THEN reference ELSE 0]]

Without(list) == SelectSeq(list, LAMBDA m : m \in Files \/ \A i \in DOMAIN run.pending : run.pending[i] # m)

Deliver ==
    /\ transcript' = transcript \o Delivered
    /\ entries' = entries \o Filed
    /\ shown' = [steering |-> Without(shown.steering), followUps |-> Without(shown.followUps)]
    /\ reference' = IF run.pending = <<>> THEN reference ELSE None
    /\ overflowed' = (overflowed /\ run.pending = <<>>)

\* runAgentLoop and the start of runLoop: the prompts, and the first poll.
BeginRun ==
    /\ Running("prompt") /\ Deliver
    /\ run' = [run EXCEPT !.pc = "deliver", !.context = @ \o Delivered,
                          !.pending = IF run.skip THEN <<>> ELSE Drained(steering)]
    /\ steering' = IF run.skip THEN steering ELSE Left(steering)
    /\ UNCHANGED <<followUps, building, phase, active, prompting, bashes, settling, waiting,
                   last, retry, compaction, counters>>

\* The pending messages, and the request to the model.
Request ==
    /\ Running("deliver") /\ Deliver
    /\ run' = [run EXCEPT !.pc = "asking", !.context = @ \o Delivered, !.pending = <<>>, !.dead = run.aborted]
    /\ UNCHANGED <<steering, followUps, building, phase, active, prompting, bashes, settling, waiting,
                   last, retry, compaction, counters>>

Numbered == Cardinality(Answers(entries))
Turns == Cardinality({i \in Answers(entries) : entries[i].n > 0})

\* A stream whose signal was aborted from the start ends as aborted.
Stops(calls) ==
    IF run.dead THEN {"aborted"}
    ELSE (Outcomes \cap (IF calls > 0 THEN {"toolUse", "length"} ELSE {"stop", "length"} \cup Failures))
             \cup (IF run.aborted /\ calls = 0 THEN {"aborted"} ELSE {})

\* The run with the answer: the calls of an answer that was cut off all fail.
AnsweredWith(answer, serial) ==
    [run EXCEPT
        !.pc = IF answer.note \in Failures \cup {"aborted"} THEN "ending"
               ELSE IF answer.n > 0 THEN "tools" ELSE "turn",
        !.context = Append(@, answer),
        !.serial = serial,
        !.calls = [k \in 1 .. answer.n |-> IF answer.note = "length" THEN "refused" ELSE "called"]]

Answered(answer, serial) ==
    /\ serial => answer.n > 1 /\ answer.note = "toolUse"
    /\ run' = AnsweredWith(answer, serial)
    /\ transcript' = Append(transcript, answer)
    /\ entries' = Append(entries, answer)
    /\ last' = answer.note
    /\ overflowed' = (overflowed /\ answer.note \in Failures \cup {"length"})
    /\ retry' = IF answer.note \in Failures THEN retry ELSE 0

\* The answer is in the transcript and in the file.
Answer ==
    /\ Running("asking")
    /\ \E calls \in 0 .. (IF Turns < TurnCount /\ ~run.dead THEN CallCount ELSE 0) :
       \E stop \in Stops(calls), serial \in BOOLEAN :
          Answered(Item("assistant", Numbered + 1, calls, stop), serial)
    /\ UNCHANGED <<queues, phase, session, compaction, counters>>

Calls(status) == {k \in DOMAIN run.calls : run.calls[k] = status}

\* prepareToolCall of the next call: it is refused, or ready to execute.  After
\* an abort it is refused and the rest is left.
PrepareCall ==
    /\ Running("tools") /\ Calls("called") # {} /\ (run.serial => Calls("ready") = {})
    /\ LET next == CHOOSE k \in Calls("called") : \A other \in Calls("called") : k <= other IN
       \E status \in (IF run.aborted THEN {"refused"} ELSE {"refused", "ready"}) :
          run' = [run EXCEPT !.calls = [k \in DOMAIN @ |->
                      CASE k = next -> status [] k > next /\ run.aborted -> "skipped" [] OTHER -> @[k]]]
    /\ UNCHANGED <<transcript, entries, queues, phase, session, recovery, counters>>

\* executePreparedToolCall: in a parallel batch once all are prepared.
ExecuteCall(k) ==
    /\ Running("tools") /\ k \in Calls("ready") /\ (run.serial \/ Calls("called") = {})
    /\ run' = [run EXCEPT !.calls = [i \in DOMAIN @ |->
                   CASE i = k -> "executed" [] i > k /\ run.serial /\ run.aborted -> "skipped" [] OTHER -> @[i]]]
    /\ UNCHANGED <<transcript, entries, queues, phase, session, recovery, counters>>

\* The results in the order of the calls; those that were skipped are the last.
\* The model is asked again unless every call was executed and says that it was
\* the last.
ResultsAsDone == [k \in 1 .. Len(run.calls) |-> Item("result", k, 0, run.calls[k])]

Results == [k \in DOMAIN run.calls \ Calls("skipped") |-> Item("result", k, 0, run.calls[k])]

EndBatch ==
    /\ Running("tools") /\ Calls("called") = {} /\ Calls("ready") = {}
    /\ transcript' = transcript \o Results
    /\ entries' = entries \o Results
    /\ \E more \in BOOLEAN :
          /\ more \/ Calls("refused") = {}
          /\ run' = [run EXCEPT !.pc = IF more THEN "more" ELSE "turn", !.context = @ \o Results, !.calls = <<>>, !.serial = FALSE]
    /\ UNCHANGED <<queues, phase, session, recovery, counters>>

\* turn_end, and the polls: steering, and follow-ups if the agent would stop.
EndTurn ==
    /\ phase = "running" /\ run.pc \in {"turn", "more"}
    /\ LET stops == run.pc = "turn" /\ steering = <<>> IN
       /\ steering' = Left(steering)
       /\ followUps' = IF stops THEN Left(followUps) ELSE followUps
       /\ run' = [run EXCEPT
              !.pending = IF stops THEN Drained(followUps) ELSE Drained(steering),
              !.pc = IF stops /\ followUps = <<>> THEN "ending" ELSE "deliver"]
    /\ UNCHANGED <<transcript, entries, building, shown, phase, session, recovery, counters>>

-----------------------------------------------------------------------------
(***************************************************************************)
(* After the run.                                                          *)
(***************************************************************************)
\* The session is idle, with what the user ran meanwhile in its transcript and
\* in its file.
SettleUnsaved(messages, file) ==
    /\ active' = FALSE /\ phase' = "idle" /\ settling' = TRUE
    /\ transcript' = messages \o bashes
    /\ entries' = file
    /\ bashes' = <<>>

Settle(messages, file) ==
    /\ active' = FALSE /\ phase' = "idle" /\ settling' = TRUE
    /\ transcript' = messages \o bashes
    /\ entries' = file \o bashes
    /\ bashes' = <<>>

\* What waits is delivered by another run.
ContinueWith(messages, file) ==
    /\ phase' = "continuing" /\ transcript' = messages /\ entries' = file
    /\ UNCHANGED <<active, settling, bashes>>

ResumeBlindly(messages, file) == Settle(messages, file)

Resume(messages, file) == IF Queued THEN ContinueWith(messages, file) ELSE Settle(messages, file)

\* runAutoCompaction, if there is something to summarize.
CompactOrResume(why, messages) ==
    \/ /\ Compacts(why) /\ transcript' = messages
       /\ UNCHANGED <<entries, active, settling, bashes>>
    \/ (why = "after" \/ Cuts = {}) /\ Resume(messages, entries) /\ UNCHANGED compaction

\* prepareRetry: the failed answer leaves the transcript, the file keeps it.
RetriesForever ==
    /\ last = "error" /\ MaxRetries > 0
    /\ retry' = retry /\ phase' = "backoff"
    /\ transcript' = WithoutAnswer(transcript)
    /\ UNCHANGED <<entries, active, settling, bashes, overflowed, compaction>>

Retries ==
    /\ last = "error" /\ retry < MaxRetries
    /\ retry' = retry + 1 /\ phase' = "backoff"
    /\ transcript' = WithoutAnswer(transcript)
    /\ UNCHANGED <<entries, active, settling, bashes, overflowed, compaction>>

\* The one compact-and-retry of an answer that did not fit.
Recovers ==
    /\ last \in {"overflow", "length"} /\ ~overflowed
    /\ overflowed' = TRUE
    /\ retry' = IF last \in Failures THEN 0 ELSE retry
    /\ CompactOrResume("retry", WithoutAnswer(transcript))

\* The answer stays; the context may have grown too large.
GoesOn ==
    /\ ~(last = "error" /\ retry < MaxRetries) /\ (last = "overflow" => overflowed)
    /\ retry' = IF last \in Failures THEN 0 ELSE retry
    /\ IF last \in {"overflow", "aborted"} THEN Resume(transcript, entries) /\ UNCHANGED compaction
       ELSE CompactOrResume("after", transcript)
    /\ UNCHANGED overflowed

\* agent_end has been heard, the run is over, and handlePostAgentRun decides.
EndRun ==
    /\ Running("ending")
    /\ run' = NoRun /\ last' = None
    /\ Retries \/ Recovers \/ GoesOn
    /\ UNCHANGED <<queues, reference, prompting, waiting, counters>>

BackoffEnds ==
    /\ phase = "backoff" /\ phase' = "continuing"
    /\ UNCHANGED <<transcript, entries, run, queues, session, recovery, counters>>

\* agent.continue: if the model had the last word, what waits is the prompt.
Continue ==
    /\ phase = "continuing" /\ phase' = "running"
    /\ transcript # <<>> /\ (IsLast("assistant") => Queued)
    /\ LET steered == IsLast("assistant") /\ steering # <<>>
           followed == IsLast("assistant") /\ steering = <<>> IN
       /\ steering' = IF steered THEN Left(steering) ELSE steering
       /\ followUps' = IF followed THEN Left(followUps) ELSE followUps
       /\ run' = [NoRun EXCEPT !.pc = "prompt", !.context = transcript, !.skip = steered,
                      !.pending = IF steered THEN Drained(steering) ELSE IF followed THEN Drained(followUps) ELSE <<>>]
    /\ UNCHANGED <<transcript, entries, building, shown, session, recovery, counters>>

\* It throws, and the prompt fails, when there is nothing to say to the model.
ContinueFailsAtWork ==
    /\ phase = "continuing" /\ ~Queued /\ (transcript = <<>> \/ IsLast("assistant"))
    /\ phase' = "idle"
    /\ UNCHANGED <<transcript, entries, run, queues, session, recovery, counters>>

ContinueFails ==
    /\ phase = "continuing" /\ ~Queued /\ (transcript = <<>> \/ IsLast("assistant"))
    /\ Settle(transcript, entries)
    /\ UNCHANGED <<run, queues, reference, prompting, waiting, recovery, counters>>

\* appendCompaction.  The failed answer that was removed, which the file still
\* has, is removed again.
KeptAsRebuilt(why, messages) == messages

Kept(why, messages) ==
    IF why \in {"retry", "reprompt"} /\ messages[Len(messages)].note \in Failures \cup {"length"} THEN WithoutAnswer(messages) ELSE messages

Summarized ==
    /\ phase = "compacting" /\ compaction' = None
    /\ LET file == Append(entries, Item("compaction", compaction.cut, 0, "none"))
           rebuilt == Kept(compaction.why, Rebuilt(compaction.cut)) IN
       CASE compaction.why = "after" -> Resume(rebuilt, file)
         [] compaction.why = "retry" -> ContinueWith(rebuilt, file)
         [] OTHER -> /\ phase' = "compacted" /\ transcript' = rebuilt /\ entries' = file
                     /\ UNCHANGED <<active, settling, bashes>>
    /\ UNCHANGED <<run, queues, reference, prompting, waiting, last, retry, overflowed, counters>>

\* The summary fails or the user cancels it.
NotSummarized ==
    /\ phase = "compacting" /\ compaction' = None
    /\ IF compaction.why \in {"prompt", "reprompt"}
       THEN phase' = "compacted" /\ UNCHANGED <<transcript, entries, active, settling, bashes>>
       ELSE Resume(transcript, entries)
    /\ UNCHANGED <<run, queues, reference, prompting, waiting, last, retry, overflowed, counters>>

\* agent_settled has been heard.
Settled ==
    /\ settling /\ settling' = FALSE
    /\ waiting' = (waiting /\ active)
    /\ UNCHANGED <<transcript, entries, run, queues, phase, reference, active, prompting, bashes, recovery, counters>>

-----------------------------------------------------------------------------
(***************************************************************************)
(* Abort, whose caller then waits for idle.                                *)
(***************************************************************************)
Aborts == aborts < AbortCount /\ aborts' = aborts + 1

AbortAlways ==
    /\ Free /\ phase # "backoff" /\ Aborts
    /\ waiting' = TRUE
    /\ run' = IF run.pc = "none" THEN run ELSE [run EXCEPT !.aborted = TRUE]
    /\ UNCHANGED <<transcript, entries, queues, phase, reference, active, prompting, bashes, settling, recovery, asked, bashed>>

Abort ==
    /\ Free /\ active /\ phase # "backoff" /\ Aborts
    /\ waiting' = TRUE
    /\ run' = IF run.pc = "none" THEN run ELSE [run EXCEPT !.aborted = TRUE]
    /\ UNCHANGED <<transcript, entries, queues, phase, reference, active, prompting, bashes, settling, recovery, asked, bashed>>

\* abortRetry: the wait for the retry is cut short, the session goes on as after
\* any other failure.
CancelRetry ==
    /\ phase = "backoff" /\ Aborts
    /\ waiting' = TRUE /\ retry' = 0
    /\ CompactOrResume("after", transcript)
    /\ UNCHANGED <<run, queues, reference, prompting, last, overflowed, asked, bashed>>

-----------------------------------------------------------------------------
UserStep ==
    \/ \E m \in Messages : AskPrompt(m) \/ Steer(m) \/ FollowUp(m)
    \/ ClearQueue \/ RecordBash \/ Abort \/ CancelRetry

SessionStep ==
    \/ CompactFirst \/ StartPrompt
    \/ BeginRun \/ Request \/ Answer \/ PrepareCall \/ (\E k \in 1 .. CallCount : ExecuteCall(k)) \/ EndBatch \/ EndTurn
    \/ EndRun \/ BackoffEnds \/ Continue \/ ContinueFails \/ Summarized \/ NotSummarized

Next ==
    \/ UserStep \/ SessionStep \/ Settled
    \/ \E m \in Messages : FilesRead(m)

Spec == Init /\ [][Next]_vars

\* The model, the tools, the timers and the listeners come back; the user is free.
FairSpec == Spec /\ WF_vars(SessionStep) /\ WF_vars(Settled) /\ \A m \in Messages : WF_vars(FilesRead(m))

-----------------------------------------------------------------------------
Stopping == {"stop", "length", "toolUse", "aborted"} \cup Failures

Items ==
    [role : {"user"}, of : Messages, n : {0} \cup Files, note : {"none"}]
        \cup [role : {"assistant"}, of : Nat, n : 0 .. CallCount, note : Stopping]
        \cup [role : {"result"}, of : 1 .. CallCount, n : {0}, note : {"refused", "executed"}]
        \cup [role : {"bash"}, of : 1 .. BashCount, n : {0}, note : {"none"}]
        \cup [role : {"compaction"}, of : Nat \ {0}, n : {0}, note : {"none"}]

TypeOK ==
    /\ transcript \in Seq(Items) /\ entries \in Seq(Items) /\ bashes \in Seq(Items)
    /\ steering \in Seq(Messages) /\ followUps \in Seq(Messages)
    /\ building \subseteq Files \X {"steering", "followUps"}
    /\ reference \in Files \cup {None} /\ prompting \in Messages \cup {None}
    /\ active \in BOOLEAN /\ settling \in BOOLEAN /\ waiting \in BOOLEAN /\ overflowed \in BOOLEAN
    /\ retry \in 0 .. MaxRetries
    \* the parts of the session agree on who works
    /\ active <=> phase \in {"running", "backoff", "continuing"} \/ (phase = "compacting" /\ compaction.why \notin {"prompt", "reprompt"})
    /\ prompting # None <=> phase \in {"asked", "compacted"} \/ (phase = "compacting" /\ compaction.why \in {"prompt", "reprompt"})
    /\ run.pc # "none" <=> phase = "running"
    /\ compaction # None <=> phase = "compacting"
    /\ bashes # <<>> => active

Failed(i) == entries[i].role = "assistant" /\ entries[i].n = 0 /\ entries[i].note \in Failures \cup {"length"}

FailedRow ==
    {i \in DOMAIN entries : Failed(i) /\ \A k \in i .. Len(entries) : Failed(k) \/ entries[k].role \in {"compaction", "bash"}}

InARow == Cardinality(FailedRow)

(***************************************************************************)
(* agent.continue does not fail: when the session decides to go on there is*)
(* something to say to a model that had the last word.                     *)
(***************************************************************************)
Continues == transcript # <<>> /\ (IsLast("assistant") => Queued)

ContinueSound == phase = "continuing" => Continues

(***************************************************************************)
(* It does not when only the last answer of the file has failed.           *)
(***************************************************************************)
ContinuesAfterOne == phase = "continuing" /\ InARow <= 1 => Continues

(***************************************************************************)
(* The results of an answer's tool calls follow it at once, in the order of*)
(* its calls, with nothing in between.  All calls have one unless the run  *)
(* is at work on them or the user has aborted.                             *)
(***************************************************************************)
HasResults(i) == {k \in 1 .. transcript[i].n : i + k <= Len(transcript) /\ transcript[i + k].role = "result" /\ transcript[i + k].of = k}

CallsAnswered ==
    \A i \in DOMAIN transcript :
        /\ transcript[i].role = "result" => \E a \in Answers(transcript) : a + transcript[i].of = i
        /\ transcript[i].role = "assistant" =>
              /\ \A k \in HasResults(i) : 1 .. k \subseteq HasResults(i)
              /\ HasResults(i) = 1 .. transcript[i].n \/ aborts > 0 \/ (run.calls # <<>> /\ i = Len(transcript))

(***************************************************************************)
(* The model is asked with the transcript: the loop's own context, which it*)
(* extends message by message, never differs from the agent's.             *)
(***************************************************************************)
AskedWithAll == run.pc # "none" => run.context = transcript

(***************************************************************************)
(* The transcript is what the file would be read as, but for answers that  *)
(* failed or were cut off.                                                 *)
(***************************************************************************)
Lasts(message) == message.role # "assistant" \/ message.note \notin Failures \cup {"length"}

\* The messages that last, each with its rank among them.
Rank(messages, i) == Cardinality({k \in 1 .. i : Lasts(messages[k])})

Lasting(messages) ==
    {<<Rank(messages, i), messages[i].role, messages[i].of, messages[i].note>> :
        i \in {k \in DOMAIN messages : Lasts(messages[k])}}

Reread == IF Boundary = 0 THEN entries
          ELSE <<entries[Boundary]>> \o SubSeq(entries, KeptFrom, Boundary - 1) \o SubSeq(entries, Boundary + 1, Len(entries))

FileAgrees == Lasting(transcript) = Lasting(Reread)

(***************************************************************************)
(* A message of the user is in one place at most: being built, queued,     *)
(* pending in the run or in the file.  No message is delivered twice,      *)
(* however often the loop stops, is retried or goes on.                    *)
(***************************************************************************)
At(place, queue, m) == {<<place, i>> : i \in {k \in DOMAIN queue : queue[k] = m}}

Written(m) == {i \in DOMAIN entries : entries[i].role = "user" /\ entries[i].of = m}

Places(m) ==
    At("steering", steering, m) \cup At("followUps", followUps, m) \cup At("pending", run.pending, m)
        \cup {<<"entries", i>> : i \in Written(m)}
        \cup {<<"prompting", 0>> : b \in {prompting} \cap {m}}
        \cup {<<b[2], 0>> : b \in {file \in building : file[1] = m}}

InOnePlace == \A m \in Messages : Cardinality(Places(m)) <= (IF m <= asked THEN 1 ELSE 0)

(***************************************************************************)
(* What the user sees as waiting waits: it is queued or about to be        *)
(* delivered, and all that is queued is seen.  (A message with files is    *)
(* looked for by a text it does not have, and stays.)                      *)
(***************************************************************************)
Plain(list) == SelectSeq(list, LAMBDA m : m \notin Files)

Shows(seen, queue) ==
    \E n \in 0 .. Len(Plain(run.pending)) :
        /\ Len(Plain(seen)) = n + Len(Plain(queue))
        /\ SubSeq(Plain(seen), n + 1, Len(Plain(seen))) = Plain(queue)
        /\ SubSeq(Plain(seen), 1, n) = SubSeq(Plain(run.pending), 1, n)

QueueShown == Shows(shown.steering, steering) /\ Shows(shown.followUps, followUps)

(***************************************************************************)
(* A message without files that is sent to a session at work is delivered  *)
(* before the session settles, however the run ended.                      *)
(***************************************************************************)
OnlyFiles(queue) == \A i \in DOMAIN queue : queue[i] \in Files

NothingStranded == ~Working => OnlyFiles(steering) /\ OnlyFiles(followUps)

(***************************************************************************)
(* The model is asked about the same thing only so often: MaxRetries times *)
(* more after a failure, once more after a compaction, and as often again  *)
(* for each retry the user has cancelled.                                  *)
(***************************************************************************)
FailuresBounded == InARow <= (MaxRetries + 1) * (2 + aborts)

(***************************************************************************)
(* The session settles: failures, retries, compactions and what waits do   *)
(* not keep it at work forever.                                            *)
(***************************************************************************)
Settles == active ~> ~active

(***************************************************************************)
(* Who aborts is told that the session is idle.                            *)
(***************************************************************************)
AbortReturns == waiting ~> ~waiting

(***************************************************************************)
(* A retry that the user cancels is not made all the same: the session goes*)
(* on only with something new to say.                                      *)
(***************************************************************************)
CancelledStaysCancelled ==
    [][phase = "backoff" /\ retry' = 0 /\ phase' = "continuing" => steering' # <<>>]_vars

(***************************************************************************)
(* What a message's files say is kept out of the file: its entry is the    *)
(* reference to them, and that of another message its own content.         *)
(***************************************************************************)
OwnReference ==
    \A i \in DOMAIN entries : entries[i].role = "user" =>
        entries[i].n = IF entries[i].of \in Files THEN entries[i].of ELSE 0
=============================================================================
