-------------------------- MODULE AgentSessionProofs --------------------------
(***************************************************************************)
(* Theorems about one agent session, for any number of messages, answers,  *)
(* tool calls, failures and retries.  Two facts carry them: the session's  *)
(* phase says who works and whether the loop has a run, and nothing but the*)
(* run changes the transcript while there is one.  On these rest the types *)
(* (Typed), the order of calls and results (BothSound), the one place of   *)
(* each message (Placed), the quota of failures (Counted), what there is to*)
(* go on from (Spoken) and what the file reads as (Agreed).                *)
(***************************************************************************)
EXTENDS AgentSession, FiniteSetTheorems, TLAPS

USE AgentSessionAssumption

-----------------------------------------------------------------------------
(***************************************************************************)
(* The phases.                                                             *)
(***************************************************************************)
\* _isAgentRunActive is set from the start of a prompt's first run until the
\* session settles.
AtWork ==
    /\ active \in BOOLEAN
    /\ active <=> phase \in {"running", "backoff", "continuing"} \/ (phase = "compacting" /\ compaction.why \notin {"prompt", "reprompt"})

\* A prompt is in preflight before its first run, and only then.
InPreflight ==
    prompting # None <=> phase \in {"asked", "compacted"} \/ (phase = "compacting" /\ compaction.why \in {"prompt", "reprompt"})

Reasons == phase = "compacting" => compaction.why \in {"prompt", "reprompt", "retry", "after"}

\* The loop has a run only while the session waits for it.
RunShape ==
    run = [pc |-> run.pc, pending |-> run.pending, calls |-> run.calls, serial |-> run.serial,
           aborted |-> run.aborted, dead |-> run.dead, skip |-> run.skip, context |-> run.context]

OneRun == RunShape /\ (run.pc # "none" <=> phase = "running")

Phases == AtWork /\ InPreflight /\ Reasons /\ OneRun

LEMMA PhasesInit == Init => Phases
  <1> SUFFICES ASSUME Init PROVE Phases
    OBVIOUS
  <1>1. AtWork /\ InPreflight /\ Reasons
    BY DEF Init, AtWork, InPreflight, Reasons
  <1>2. OneRun
    BY DEF Init, OneRun, RunShape, NoRun
  <1>3. QED
    BY <1>1, <1>2 DEF Phases

LEMMA NoneIsNoMessage == None \notin Messages
  BY DEF Messages

\* Where the steps after a run lead.
LEMMA AfterRun ==
    ASSUME NEW messages, NEW file, Resume(messages, file)
    PROVE  \/ phase' = "idle" /\ active' = FALSE /\ ~Queued
           \/ phase' = "continuing" /\ UNCHANGED active
  BY DEF Resume, Settle, ContinueWith

LEMMA AfterCompactOrResume ==
    ASSUME NEW messages, NEW why, CompactOrResume(why, messages)
    PROVE  \/ phase' = "idle" /\ active' = FALSE /\ ~Queued
           \/ phase' = "continuing" /\ UNCHANGED active
           \/ phase' = "compacting" /\ UNCHANGED active /\ compaction'.why = why
  <1>1. CASE Compacts(why) /\ UNCHANGED active
    <2>1. PICK cut \in Cuts : compaction' = [why |-> why, cut |-> cut]
      BY <1>1 DEF Compacts
    <2>2. QED
      BY <1>1, <2>1 DEF Compacts
  <1>2. CASE Resume(messages, entries)
    BY <1>2, AfterRun
  <1>3. QED
    BY <1>1, <1>2 DEF CompactOrResume

\* A run that has ended.
LEMMA AfterEndRun ==
    ASSUME EndRun
    PROVE  \/ phase' = "idle" /\ active' = FALSE /\ ~Queued
           \/ phase' \in {"backoff", "continuing"} /\ UNCHANGED active
           \/ phase' = "compacting" /\ UNCHANGED active /\ compaction'.why \in {"retry", "after"}
  <1>1. CASE Retries
    BY <1>1 DEF Retries
  <1>2. CASE Recovers
    BY <1>2, AfterCompactOrResume DEF Recovers
  <1>3. CASE GoesOn
    <2>1. CASE last \in {"overflow", "aborted"}
      BY <1>3, <2>1, AfterRun DEF GoesOn
    <2>2. CASE last \notin {"overflow", "aborted"}
      BY <1>3, <2>2, AfterCompactOrResume DEF GoesOn
    <2>3. QED
      BY <2>1, <2>2
  <1>4. QED
    BY <1>1, <1>2, <1>3 DEF EndRun

\* The run goes from step to step within its phase, and what it adds to the
\* transcript it adds to its context.
RunStep ==
    \/ BeginRun \/ Request \/ Answer \/ PrepareCall \/ EndBatch \/ EndTurn
    \/ \E k \in 1 .. CallCount : ExecuteCall(k)

StaysRunning ==
    /\ phase = "running" /\ UNCHANGED <<phase, active, prompting, compaction>>
    /\ RunShape' /\ run'.pc # "none"
    /\ run.context = transcript => run'.context = transcript'

LEMMA RunStepStays ==
    ASSUME Phases, RunStep
    PROVE  StaysRunning
  <1> USE DEF StaysRunning, Phases, OneRun, RunShape, Running, queues, session, counters
  <1>1. CASE BeginRun
    BY <1>1 DEF BeginRun, Deliver
  <1>2. CASE Request
    BY <1>2 DEF Request, Deliver
  <1>3. CASE Answer
    <2>1. phase = "running" /\ UNCHANGED <<phase, active, prompting, compaction>>
      BY <1>3 DEF Answer
    <2>2. PICK answer, serial : Answered(answer, serial)
      BY <1>3 DEF Answer
    <2>3. QED
      BY <2>1, <2>2 DEF Answered, AnsweredWith
  <1>4. CASE PrepareCall
    BY <1>4 DEF PrepareCall, recovery
  <1>5. CASE EndBatch
    BY <1>5 DEF EndBatch, recovery
  <1>6. CASE EndTurn
    BY <1>6 DEF EndTurn, recovery
  <1>7. ASSUME NEW k \in 1 .. CallCount, ExecuteCall(k) PROVE StaysRunning
    BY <1>7 DEF ExecuteCall, recovery
  <1> HIDE DEF StaysRunning
  <1>8. QED
    BY <1>1, <1>2, <1>3, <1>4, <1>5, <1>6, <1>7 DEF RunStep

\* The steps that begin a run do it with the transcript.
BeginsRun == phase' = "running" /\ RunShape' /\ run'.pc # "none" /\ run'.context = transcript'

LEMMA StartPromptBegins == StartPrompt => BeginsRun /\ active' /\ prompting' = None
  BY DEF StartPrompt, BeginsRun, RunShape, NoRun

LEMMA ContinueBegins == Continue => BeginsRun /\ UNCHANGED <<active, prompting, compaction>> /\ phase = "continuing"
  BY DEF Continue, BeginsRun, RunShape, NoRun, session, recovery

\* Every other step leaves the run as it is, or there is none after it.
OtherStep ==
    \/ UserStep \/ CompactFirst \/ EndRun \/ BackoffEnds \/ ContinueFails \/ Summarized \/ NotSummarized
    \/ Settled \/ (\E m \in Messages : FilesRead(m)) \/ UNCHANGED vars

LEMMA NextSteps == [Next]_vars => RunStep \/ StartPrompt \/ Continue \/ OtherStep
  BY DEF Next, SessionStep, RunStep, OtherStep

LEMMA PhasesStep == Phases /\ [Next]_vars => Phases'
  <1> SUFFICES ASSUME Phases, [Next]_vars PROVE Phases'
    OBVIOUS
  <1> USE DEF Phases, AtWork, InPreflight, Reasons, OneRun, Working
  <1>1. CASE RunStep
    BY <1>1, RunStepStays DEF StaysRunning
  <1>2. CASE StartPrompt
    BY <1>2, StartPromptBegins DEF BeginsRun
  <1>3. CASE Continue
    BY <1>3, ContinueBegins DEF BeginsRun
  <1>4. CASE OtherStep
    <2> USE DEF RunShape, session, recovery, counters, queues
    <2>1. ASSUME NEW m \in Messages, AskPrompt(m) PROVE Phases'
      <3>1. /\ phase' = "asked" /\ prompting' \in Messages
            /\ UNCHANGED <<active, run, compaction>> /\ active = FALSE
        BY <2>1 DEF AskPrompt
      <3>2. AtWork' /\ Reasons' /\ OneRun'
        BY <3>1
      <3>3. InPreflight'
        BY <3>1, NoneIsNoMessage
      <3>4. QED
        BY <3>2, <3>3
    <2>2. ASSUME NEW m \in Messages, Steer(m) \/ FollowUp(m) \/ FilesRead(m) PROVE Phases'
      BY <2>2 DEF Steer, FollowUp, FilesRead
    <2>3. CASE ClearQueue \/ RecordBash
      BY <2>3 DEF ClearQueue, RecordBash
    <2>4. CASE Abort
      BY <2>4 DEF Abort
    <2>5. CASE CancelRetry
      <3>1. phase = "backoff" /\ UNCHANGED <<run, prompting>> /\ CompactOrResume("after", transcript)
        BY <2>5 DEF CancelRetry
      <3>2. \/ phase' = "idle" /\ active' = FALSE
            \/ phase' = "continuing" /\ UNCHANGED active
            \/ phase' = "compacting" /\ UNCHANGED active /\ compaction'.why = "after"
        BY <3>1, AfterCompactOrResume
      <3>3. QED
        BY <3>1, <3>2
    <2>6. CASE CompactFirst
      <3>1. PICK why \in {"prompt", "reprompt"}, cut \in Cuts : compaction' = [why |-> why, cut |-> cut]
        BY <2>6 DEF CompactFirst, Compacts
      <3>2. QED
        BY <2>6, <3>1 DEF CompactFirst, Compacts
    <2>7. CASE EndRun
      <3>1. run' = NoRun /\ UNCHANGED prompting /\ phase = "running"
        BY <2>7 DEF EndRun, Running
      <3>2. QED
        BY <2>7, <3>1, AfterEndRun DEF NoRun
    <2>8. CASE BackoffEnds
      BY <2>8 DEF BackoffEnds
    <2>9. CASE ContinueFails
      BY <2>9 DEF ContinueFails, Settle
    <2>10. CASE Summarized
      <3>1. phase = "compacting" /\ UNCHANGED <<run, prompting>>
        BY <2>10 DEF Summarized
      <3>2. PICK rebuilt, file :
               \/ compaction.why = "after" /\ Resume(rebuilt, file)
               \/ compaction.why = "retry" /\ ContinueWith(rebuilt, file)
               \/ compaction.why \notin {"after", "retry"} /\ phase' = "compacted" /\ UNCHANGED active
        BY <2>10 DEF Summarized
      <3>3. \/ compaction.why \notin {"prompt", "reprompt"} /\ phase' = "idle" /\ active' = FALSE
            \/ compaction.why \notin {"prompt", "reprompt"} /\ phase' = "continuing" /\ UNCHANGED active
            \/ compaction.why \in {"prompt", "reprompt"} /\ phase' = "compacted" /\ UNCHANGED active
        BY <3>1, <3>2, AfterRun DEF ContinueWith
      <3>4. AtWork' /\ Reasons'
        <4>1. active = (compaction.why \notin {"prompt", "reprompt"})
          BY <3>1
        <4>2. CASE phase' = "idle" /\ active' = FALSE
          BY <4>2
        <4>3. CASE active' = TRUE /\ phase' = "continuing"
          BY <4>3
        <4>4. CASE active' = FALSE /\ phase' = "compacted"
          BY <4>4
        <4>5. QED
          BY <3>3, <4>1, <4>2, <4>3, <4>4
      <3>4a. OneRun'
        BY <3>1, <3>3
      <3>5. InPreflight'
        BY <3>1, <3>3
      <3>6. QED
        BY <3>4, <3>5, <3>4a
    <2>11. CASE NotSummarized
      BY <2>11, AfterRun DEF NotSummarized
    <2>12. CASE Settled \/ UNCHANGED vars
      BY <2>12 DEF Settled, vars
    <2>13. QED
      BY <1>4, <2>1, <2>2, <2>3, <2>4, <2>5, <2>6, <2>7, <2>8, <2>9, <2>10, <2>11, <2>12
         DEF OtherStep, UserStep
  <1>5. QED
    BY <1>1, <1>2, <1>3, <1>4, NextSteps

\* Where the session is: every state of the session agrees with the run it drives,
\* so that a session at work has a run, and one that waits, compacts or rests has
\* none (AgentSession.isIdle and _runAgentPrompt against Agent.runWithLifecycle).
THEOREM SessionPhases == Spec => []Phases
  BY PhasesInit, PhasesStep, PTL DEF Spec

-----------------------------------------------------------------------------
(***************************************************************************)
(* The model is asked with the transcript.                                 *)
(***************************************************************************)
\* Without a run nothing is asked; while there is one, nothing else touches the
\* transcript, because every other step that does needs a session not at work
\* or a run that is over.
LEMMA OtherStepKeeps ==
    ASSUME Phases, OtherStep, run'.pc # "none"
    PROVE  UNCHANGED transcript /\ run'.context = run.context /\ run.pc # "none"
  <1> USE DEF Phases, AtWork, OneRun, RunShape, Working, queues, session, recovery, counters
  <1>1. CASE UserStep
    <2>1. ASSUME NEW m \in Messages, AskPrompt(m) PROVE FALSE
      BY <2>1 DEF AskPrompt
    <2>2. ASSUME NEW m \in Messages, Steer(m) \/ FollowUp(m)
          PROVE  UNCHANGED <<transcript, run>>
      BY <2>2 DEF Steer, FollowUp
    <2>3. CASE ClearQueue \/ RecordBash
      BY <2>3 DEF ClearQueue, RecordBash
    <2>4. CASE Abort
      BY <2>4 DEF Abort
    <2>5. ASSUME CancelRetry PROVE FALSE
      BY <2>5 DEF CancelRetry
    <2>6. QED
      BY <1>1, <2>1, <2>2, <2>3, <2>4, <2>5 DEF UserStep
  <1>2. ASSUME CompactFirst \/ ContinueFails \/ Summarized \/ NotSummarized PROVE FALSE
    BY <1>2 DEF CompactFirst, ContinueFails, Summarized, NotSummarized
  <1>3. ASSUME EndRun PROVE FALSE
    BY <1>3 DEF EndRun, NoRun
  <1>4. CASE BackoffEnds \/ Settled \/ UNCHANGED vars
    BY <1>4 DEF BackoffEnds, Settled, vars
  <1>5. ASSUME NEW m \in Messages, FilesRead(m) PROVE UNCHANGED <<transcript, run>>
    BY <1>5 DEF FilesRead
  <1>6. QED
    BY <1>1, <1>2, <1>3, <1>4, <1>5 DEF OtherStep

LEMMA AskedWithAllStep == Phases /\ AskedWithAll /\ [Next]_vars => AskedWithAll'
  <1> SUFFICES ASSUME Phases, AskedWithAll, [Next]_vars, run'.pc # "none" PROVE run'.context = transcript'
    BY DEF AskedWithAll
  <1>1. CASE RunStep
    BY <1>1, RunStepStays DEF StaysRunning, AskedWithAll, Phases, OneRun
  <1>2. CASE StartPrompt \/ Continue
    BY <1>2, StartPromptBegins, ContinueBegins DEF BeginsRun
  <1>3. CASE OtherStep
    BY <1>3, OtherStepKeeps DEF AskedWithAll
  <1>4. QED
    BY <1>1, <1>2, <1>3, NextSteps

(***************************************************************************)
(* However prompts, tools, aborts, retries, compactions and commands of the*)
(* user interleave, the loop asks the model with the transcript that the   *)
(* agent has (agent.ts, processEvents; agent-session.ts, recordBashResult).*)
(***************************************************************************)
THEOREM AsksWithTranscript == Spec => []AskedWithAll
  <1>1. Init => AskedWithAll
    BY DEF Init, AskedWithAll, NoRun
  <1>2. QED
    BY <1>1, PhasesInit, PhasesStep, AskedWithAllStep, PTL DEF Spec

-----------------------------------------------------------------------------
(***************************************************************************)
(* Nothing is stranded.                                                    *)
(***************************************************************************)
QueueTypes ==
    /\ steering \in Seq(Messages) /\ followUps \in Seq(Messages)
    /\ building \subseteq Files \X {"steering", "followUps"}

LEMMA DrainedTyped ==
    ASSUME NEW queue \in Seq(Messages)
    PROVE  Left(queue) \in Seq(Messages)
  BY DEF Left

LEMMA OnlyFilesAppended ==
    ASSUME NEW queue \in Seq(Messages), OnlyFiles(queue), NEW m \in Files
    PROVE  OnlyFiles(Append(queue, m))
  <1> SUFFICES ASSUME NEW i \in 1 .. Len(queue) + 1 PROVE Append(queue, m)[i] \in Files
    BY DEF OnlyFiles
  <1>1. CASE i = Len(queue) + 1
    BY <1>1
  <1>2. CASE i \in 1 .. Len(queue)
    BY <1>2 DEF OnlyFiles
  <1>3. QED
    BY <1>1, <1>2

LEMMA QueueTypesStep == QueueTypes /\ [Next]_vars => QueueTypes'
  <1> SUFFICES ASSUME QueueTypes, [Next]_vars PROVE QueueTypes'
    OBVIOUS
  <1> USE DEF QueueTypes, queues
  <1>1. CASE UNCHANGED <<steering, followUps, building>>
    BY <1>1
  <1>2. CASE /\ steering' \in {steering, Left(steering)} /\ followUps' \in {followUps, Left(followUps)}
             /\ UNCHANGED building
    BY <1>2, DrainedTyped
  <1>3. ASSUME NEW m \in Messages, Steer(m) \/ FollowUp(m) PROVE QueueTypes'
    <2>1. Queues(m, "steering") \/ Queues(m, "followUps")
      BY <1>3 DEF Steer, FollowUp
    <2>2. /\ steering' \in {steering, Append(steering, m)}
          /\ followUps' \in {followUps, Append(followUps, m)}
      BY <2>1 DEF Queues
    <2>3. building' = building
            \/ (m \in Files /\ \E lane \in {"steering", "followUps"} : building' = building \cup {<<m, lane>>})
      BY <2>1 DEF Queues
    <2>3a. Append(steering, m) \in Seq(Messages) /\ Append(followUps, m) \in Seq(Messages)
      OBVIOUS
    <2>4. steering' \in Seq(Messages) /\ followUps' \in Seq(Messages)
      BY <2>2, <2>3a
    <2>5. building' \subseteq Files \X {"steering", "followUps"}
      BY <2>3
    <2>6. QED
      BY <2>4, <2>5
  <1>4. ASSUME NEW m \in Messages, FilesRead(m) PROVE QueueTypes'
    BY <1>4 DEF FilesRead
  <1>5. CASE ClearQueue
    BY <1>5 DEF ClearQueue
  <1>6. CASE BeginRun \/ EndTurn \/ Continue
    BY <1>6, <1>2 DEF BeginRun, EndTurn, Continue
  <1>7. CASE Request \/ Answer \/ PrepareCall \/ EndBatch \/ StartPrompt
    BY <1>7, <1>1 DEF Request, Answer, PrepareCall, EndBatch, StartPrompt
  <1>8. ASSUME NEW k \in 1 .. CallCount, ExecuteCall(k) PROVE QueueTypes'
    BY <1>8, <1>1 DEF ExecuteCall
  <1>9. ASSUME NEW m \in Messages, AskPrompt(m) PROVE QueueTypes'
    BY <1>9, <1>1 DEF AskPrompt
  <1>10. CASE RecordBash \/ Abort \/ CancelRetry \/ CompactFirst \/ EndRun \/ BackoffEnds
    BY <1>10, <1>1 DEF RecordBash, Abort, CancelRetry, CompactFirst, EndRun, BackoffEnds
  <1>11. CASE ContinueFails \/ Summarized \/ NotSummarized \/ Settled \/ UNCHANGED vars
    BY <1>11, <1>1 DEF ContinueFails, Summarized, NotSummarized, Settled, vars
  <1>12. QED
    BY <1>3, <1>4, <1>5, <1>6, <1>7, <1>8, <1>9, <1>10, <1>11 DEF Next, UserStep, SessionStep

\* The session stops working only when both queues are empty.
LEMMA StopsEmpty ==
    ASSUME Phases, EndRun \/ CancelRetry \/ ContinueFails \/ Summarized \/ NotSummarized, ~Working'
    PROVE  ~Queued /\ UNCHANGED <<steering, followUps>>
  <1> USE DEF Phases, AtWork, InPreflight, Reasons, OneRun, Working, queues
  <1>1. CASE EndRun
    <2>1. phase = "running" /\ UNCHANGED <<prompting, steering, followUps>>
      BY <1>1 DEF EndRun, Running
    <2>2. active = TRUE
      BY <2>1
    <2>3. QED
      BY <1>1, <2>1, <2>2, AfterEndRun
  <1>2. CASE CancelRetry
    <2>1. /\ phase = "backoff" /\ UNCHANGED <<prompting, steering, followUps>>
          /\ CompactOrResume("after", transcript)
      BY <1>2 DEF CancelRetry
    <2>2. active = TRUE
      BY <2>1
    <2>3. QED
      BY <2>1, <2>2, AfterCompactOrResume
  <1>3. CASE ContinueFails
    BY <1>3 DEF ContinueFails
  <1>4. CASE Summarized \/ NotSummarized
    <2>1. phase = "compacting" /\ UNCHANGED <<prompting, steering, followUps>>
      BY <1>4 DEF Summarized, NotSummarized
    <2>2. compaction.why \notin {"prompt", "reprompt"} /\ active = TRUE
      BY <2>1
    <2>3. PICK messages, file : Resume(messages, file) \/ ContinueWith(messages, file)
      BY <1>4, <2>2 DEF Summarized, NotSummarized
    <2>4. QED
      BY <2>1, <2>2, <2>3, AfterRun DEF ContinueWith
  <1>5. QED
    BY <1>1, <1>2, <1>3, <1>4

LEMMA NothingStrandedStep ==
    ASSUME Phases, QueueTypes, NothingStranded, [Next]_vars
    PROVE  NothingStranded'
  <1> SUFFICES ASSUME ~Working' PROVE OnlyFiles(steering)' /\ OnlyFiles(followUps)'
    BY DEF NothingStranded
  <1> USE DEF Working
  <1>1. CASE RunStep
    BY <1>1, RunStepStays DEF StaysRunning, Phases, AtWork
  <1>2. CASE StartPrompt
    BY <1>2, StartPromptBegins
  <1>3. CASE Continue
    BY <1>3, ContinueBegins DEF Phases, AtWork
  <1>4. CASE UNCHANGED <<active, prompting, steering, followUps>>
    BY <1>4 DEF NothingStranded, OnlyFiles
  <1>5. CASE EndRun \/ CancelRetry \/ ContinueFails \/ Summarized \/ NotSummarized
    BY <1>5, StopsEmpty DEF Queued, OnlyFiles
  <1>6. ASSUME NEW m \in Messages, AskPrompt(m) PROVE FALSE
    BY <1>6, NoneIsNoMessage DEF AskPrompt
  <1>7. ASSUME NEW m \in Messages, Steer(m) \/ FollowUp(m) PROVE FALSE
    BY <1>7 DEF Steer, FollowUp, session
  <1>8. ASSUME NEW m \in Messages, FilesRead(m) PROVE OnlyFiles(steering)' /\ OnlyFiles(followUps)'
    <2>1. ~Working /\ m \in Files
      BY <1>8 DEF FilesRead, QueueTypes
    <2>2. steering' \in {steering, Append(steering, m)} /\ followUps' \in {followUps, Append(followUps, m)}
      BY <1>8 DEF FilesRead
    <2>3. QED
      BY <2>1, <2>2, OnlyFilesAppended DEF NothingStranded, QueueTypes
  <1>9. CASE ClearQueue
    BY <1>9 DEF ClearQueue, OnlyFiles
  <1>10. CASE RecordBash \/ Settled \/ UNCHANGED vars
    BY <1>4, <1>10 DEF RecordBash, Settled, vars, queues, session
  <1>11. ASSUME Abort PROVE FALSE
    BY <1>11 DEF Abort
  <1>12. ASSUME CompactFirst \/ BackoffEnds PROVE FALSE
    BY <1>12 DEF CompactFirst, BackoffEnds, Phases, AtWork, InPreflight, session
  <1>13. QED
    BY <1>1, <1>2, <1>3, <1>5, <1>6, <1>7, <1>8, <1>9, <1>10, <1>11, <1>12, NextSteps
       DEF OtherStep, UserStep

(***************************************************************************)
(* A plain message sent to a session at work is never left in a queue when *)
(* the session settles, however the run ended (agent-session.ts,           *)
(* handlePostAgentRun: hasQueuedMessages).                                 *)
(***************************************************************************)
THEOREM StrandsNothing == Spec => []NothingStranded
  <1>1. Init => QueueTypes /\ NothingStranded
    BY DEF Init, QueueTypes, NothingStranded, OnlyFiles
  <1>2. QED
    BY <1>1, PhasesInit, PhasesStep, QueueTypesStep, NothingStrandedStep, PTL DEF Spec

-----------------------------------------------------------------------------
(***************************************************************************)
(* The types, and what the run says of the answer it works on: its calls   *)
(* are those of the last message of the transcript and of the file, and    *)
(* those that were skipped come last, after an abort.                      *)
(***************************************************************************)
Bashes == [role : {"bash"}, of : 1 .. BashCount, n : {0}, note : {"none"}]

CallStates == {"called", "ready", "refused", "executed", "skipped"}

RunTypes ==
    /\ run.pc \in {"none", "prompt", "deliver", "asking", "tools", "more", "turn", "ending"}
    /\ run.pending \in Seq(Messages) /\ run.calls \in Seq(CallStates)
    /\ run.serial \in BOOLEAN /\ run.aborted \in BOOLEAN /\ run.dead \in BOOLEAN /\ run.skip \in BOOLEAN
    /\ run.pending # <<>> => run.pc \in {"prompt", "deliver"}
    /\ run.calls # <<>> <=> run.pc = "tools"
    /\ run.aborted => aborts > 0

SkippedLast ==
    /\ run.calls # <<>> => run.calls[1] # "skipped"
    /\ \A k \in 1 .. Len(run.calls) : run.calls[k] = "skipped" =>
          aborts > 0 /\ \A i \in k .. Len(run.calls) : run.calls[i] = "skipped"

\* An assistant has the last word.
Word(messages) == messages # <<>> /\ messages[Len(messages)].role = "assistant"

CalledLast(messages) == Word(messages) /\ messages[Len(messages)].n = Len(run.calls)

TextTypes ==
    /\ transcript \in Seq(Items) /\ entries \in Seq(Items) /\ bashes \in Seq(Bashes)
    /\ bashed \in 0 .. BashCount
    /\ bashes # <<>> => active

FlagTypes ==
    /\ reference \in Files \cup {None} /\ prompting \in Messages \cup {None}
    /\ settling \in BOOLEAN /\ waiting \in BOOLEAN /\ overflowed \in BOOLEAN
    /\ retry \in 0 .. MaxRetries /\ last \in Stopping \cup {None}
    /\ asked \in 0 .. MessageCount /\ aborts \in Nat

CutTypes ==
    /\ compaction # None <=> phase = "compacting"
    /\ phase = "compacting" =>
          /\ compaction = [why |-> compaction.why, cut |-> compaction.cut]
          /\ compaction.cut \in 1 .. Len(entries)
          /\ entries[compaction.cut].role \in {"user", "assistant", "bash"}

CallTypes == SkippedLast /\ (run.calls # <<>> => CalledLast(transcript) /\ CalledLast(entries))

Typed == QueueTypes /\ TextTypes /\ FlagTypes /\ CutTypes /\ RunTypes /\ CallTypes

(***************************************************************************)
(* The answers and their results, in the transcript and in the file.       *)
(***************************************************************************)
Block(messages, a, n) ==
    \A k \in 1 .. n : a + k \in DOMAIN messages /\ messages[a + k].role = "result" /\ messages[a + k].of = k

Blocks(messages) ==
    \A i \in DOMAIN messages : messages[i].role = "result" =>
        \E a \in Answers(messages) : a + messages[i].of = i /\ Block(messages, a, messages[i].of)

\* All calls have their results, but those of the last answer if there is work on them.
Full(messages, busy) ==
    \A a \in Answers(messages) : Block(messages, a, messages[a].n) \/ (busy /\ a = Len(messages))

Busy == run.calls # <<>>

Sound(messages) == Blocks(messages) /\ (aborts = 0 => Full(messages, Busy))

BothSound == Sound(transcript) /\ Sound(entries)

(***************************************************************************)
(* Where the messages of the user are.                                     *)
(***************************************************************************)
In(queue) == {queue[i] : i \in DOMAIN queue}

Once(queue) == \A i, k \in DOMAIN queue : queue[i] = queue[k] => i = k

Users(messages) == {i \in DOMAIN messages : messages[i].role = "user"}

OfUsers(messages) == {messages[i].of : i \in Users(messages)}

OnceWritten(messages) == \A i, k \in Users(messages) : messages[i].of = messages[k].of => i = k

Read(files) == {b[1] : b \in files}

\* No two of the places share a message, and all are among the first n.
Apart(S, F, P, E, R, B, n) ==
    /\ S \cap (F \cup P \cup E \cup R \cup B) = {}
    /\ F \cap (P \cup E \cup R \cup B) = {}
    /\ P \cap (E \cup R \cup B) = {}
    /\ E \cap (R \cup B) = {}
    /\ R \cap B = {}
    /\ S \cup F \cup P \cup E \cup R \cup B \subseteq 1 .. n

Placed ==
    /\ Once(steering) /\ Once(followUps) /\ Once(run.pending) /\ OnceWritten(entries)
    /\ \A b, c \in building : b[1] = c[1] => b = c
    /\ Apart(In(steering), In(followUps), In(run.pending), OfUsers(entries), {prompting} \cap Messages, Read(building), asked)

(***************************************************************************)
(* The failures in a row.                                                  *)
(***************************************************************************)
Quota(n) == (MaxRetries + 1) * n

Pardons == aborts + (IF overflowed THEN 1 ELSE 0)

Strong == InARow <= Quota(Pardons) + retry

Weak == InARow <= Quota(Pardons + 1)

LastWord == Word(transcript) /\ Word(entries)

Counted ==
    /\ Weak
    /\ run.pc \in {"prompt", "deliver", "asking"} /\ run.pending = <<>> => Strong
    /\ run.pc \in {"tools", "more"} => InARow = 0
    /\ run.pc \in {"turn", "ending"} =>
          InARow = 0 \/ (LastWord /\ (last \in Failures => InARow <= Quota(Pardons) + retry + 1))
    /\ phase = "backoff" => Strong
    /\ phase = "continuing" => Strong \/ Word(transcript)
    /\ phase = "compacting" /\ compaction.why = "retry" => Strong
    /\ phase = "compacting" /\ compaction.why = "after" => Strong \/ LastWord

(***************************************************************************)
(* Something to say.                                                       *)
(***************************************************************************)
Asks(messages) == messages # <<>> /\ ~Word(messages)

Cut == Failures \cup {"length"}

GoingOn == phase \in {"backoff", "continuing"} \/ (phase = "compacting" /\ compaction.why \notin {"prompt", "reprompt"})

Spoken ==
    /\ run.pc \in {"prompt", "deliver", "asking"} /\ run.pending = <<>> =>
          transcript # <<>> /\ (Word(transcript) \/ Word(entries) => InARow > 0)
    /\ run.pc = "more" => Asks(transcript) /\ Asks(entries)
    /\ run.pc \in {"turn", "ending"} =>
          /\ transcript # <<>>
          /\ Word(transcript) <=> Word(entries)
          /\ Word(entries) => entries[Len(entries)].note = last
          /\ last \in Cut /\ Word(entries) => InARow > 0
          /\ last \in Cut /\ InARow <= 1 => Asks(WithoutAnswer(transcript)) /\ ~Word(WithoutAnswer(entries))
    /\ GoingOn => (Word(entries) /\ ~Word(transcript) => InARow > 0)
    /\ phase = "backoff" /\ InARow <= 1 => Asks(transcript)
    /\ phase = "compacting" /\ InARow <= 1 /\ compaction.why \notin {"prompt", "reprompt"} => transcript # <<>>
    /\ phase = "compacting" /\ compaction.why = "retry" =>
          /\ Word(entries) => entries[Len(entries)].note \in Cut
          /\ InARow <= 1 => ~Word(WithoutAnswer(entries))
    /\ phase = "continuing" /\ InARow <= 1 => Continues

-----------------------------------------------------------------------------
(***************************************************************************)
(* Sets of numbers.                                                        *)
(***************************************************************************)
\* What holds up to each of its elements is an initial segment.
LEMMA Segment ==
    ASSUME NEW L \in Nat, NEW D \in SUBSET (1 .. L), \A k \in D : 1 .. k \subseteq D
    PROVE  \E n \in 0 .. L : D = 1 .. n
  <1>1. IsFiniteSet(1 .. L) /\ Cardinality(1 .. L) = L
    BY FS_Interval
  <1>2. IsFiniteSet(D) /\ Cardinality(D) =< L
    <2>1. IsFiniteSet(D) /\ Cardinality(D) =< Cardinality(1 .. L)
      BY <1>1, FS_Subset
    <2>2. QED
      BY <1>1, <2>1
  <1>3. Cardinality(D) \in Nat
    BY <1>2, FS_CardinalityType
  <1> DEFINE n == Cardinality(D)
  <1>4. ASSUME NEW k \in D PROVE k \in 1 .. n
    <2>1. k \in Nat /\ k >= 1 /\ 1 .. k \in SUBSET D
      BY <1>4
    <2>2. Cardinality(1 .. k) = k
      BY <2>1, FS_Interval
    <2>3. Cardinality(1 .. k) =< Cardinality(D)
      BY <1>2, <2>1, FS_Subset
    <2>4. QED
      BY <1>3, <2>1, <2>2, <2>3
  <1>5. IsFiniteSet(1 .. n) /\ Cardinality(1 .. n) = n
    BY <1>3, FS_Interval
  <1>6. D \in SUBSET (1 .. n)
    BY <1>4
  <1>7. D = 1 .. n
    BY <1>5, <1>6, FS_Subset
  <1>8. n \in 0 .. L
    BY <1>2, <1>3
  <1>9. QED
    BY <1>7, <1>8

LEMMA Largest ==
    ASSUME NEW L \in Nat, NEW T \in SUBSET (1 .. L), T # {}
    PROVE  \E m \in T : \A k \in T : k <= m
  <1> DEFINE D == {k \in 1 .. L : \E t \in T : k =< t}
  <1>1. \A k \in D : 1 .. k \subseteq D
    OBVIOUS
  <1>2. PICK n \in 0 .. L : D = 1 .. n
    <2>1. D \in SUBSET (1 .. L)
      OBVIOUS
    <2> HIDE DEF D
    <2>2. QED
      BY <1>1, <2>1, Segment
  <1>3. \A t \in T : t \in D
    OBVIOUS
  <1>4. PICK t0 \in T : t0 \in D
    BY <1>3
  <1>5. t0 \in 1 .. n
    BY <1>2, <1>4
  <1>6. n \in D
    BY <1>2, <1>5
  <1>7. PICK t \in T : n =< t
    BY <1>6
  <1>8. ASSUME NEW k \in T PROVE k <= t
    <2>1. k \in 1 .. n
      BY <1>2, <1>3
    <2>2. t \in Nat
      OBVIOUS
    <2>3. QED
      BY <1>7, <2>1, <2>2
  <1>9. QED
    BY <1>8

LEMMA Least ==
    ASSUME NEW L \in Nat, NEW T \in SUBSET (1 .. L), T # {}
    PROVE  \E m \in T : \A k \in T : m <= k
  <1> DEFINE D == {k \in 1 .. L : \A t \in T : k =< t}
  <1>1. \A k \in D : 1 .. k \subseteq D
    OBVIOUS
  <1>2. PICK n \in 0 .. L : D = 1 .. n
    <2>1. D \in SUBSET (1 .. L)
      OBVIOUS
    <2> HIDE DEF D
    <2>2. QED
      BY <1>1, <2>1, Segment
  <1>3. PICK t0 \in T : t0 \in 1 .. L
    OBVIOUS
  <1>3a. 1 \in D
    <2>1. 1 \in 1 .. L
      BY <1>3
    <2>2. \A t \in T : 1 =< t
      OBVIOUS
    <2>3. QED
      BY <2>1, <2>2
  <1>4. n \in D /\ n + 1 \notin D
    <2> HIDE DEF D
    <2>1. n >= 1
      BY <1>2, <1>3a
    <2>2. QED
      BY <1>2, <2>1
  <1>5. n \in T
    <2> SUFFICES ASSUME n \notin T PROVE n + 1 \in D
      BY <1>4
    <2>1. \A t \in T : n + 1 =< t
      <3> SUFFICES ASSUME NEW t \in T PROVE n + 1 =< t
        OBVIOUS
      <3>1. n =< t /\ t # n /\ t \in Nat
        BY <1>4
      <3>2. QED
        BY <3>1
    <2>2. n + 1 \in 1 .. L
      BY <1>3, <2>1
    <2>3. QED
      BY <2>1, <2>2
  <1>6. QED
    BY <1>4, <1>5

-----------------------------------------------------------------------------
(***************************************************************************)
(* The messages.                                                           *)
(***************************************************************************)
LEMMA ItemsTyped ==
    /\ \A m \in Messages, n \in {0} \cup Files : Item("user", m, n, "none") \in Items
    /\ \A i \in Nat, n \in 0 .. CallCount, note \in Stopping : Item("assistant", i, n, note) \in Items
    /\ \A k \in 1 .. CallCount, note \in {"refused", "executed"} : Item("result", k, 0, note) \in Items
    /\ \A b \in 1 .. BashCount : Item("bash", b, 0, "none") \in Bashes
    /\ \A cut \in Nat \ {0} : Item("compaction", cut, 0, "none") \in Items
  BY DEF Item, Items, Bashes

LEMMA BashesTyped == Bashes \subseteq Items
  BY DEF Bashes, Items

LEMMA BashIs == \A b \in Bashes : b.role = "bash"
  BY DEF Bashes

LEMMA CompactionIs == \A e \in Items : e.role = "compaction" => e.of \in Nat \ {0}
  BY DEF Items

LEMMA AnswerIs == \A e \in Items : e.role = "assistant" => e.n \in 0 .. CallCount
  BY DEF Items

LEMMA BashAdded == ASSUME NEW s \in Seq(Items), bashes \in Seq(Bashes) PROVE s \o bashes \in Seq(Items)
  <1>1. bashes \in Seq(Items)
    BY BashesTyped
  <1>2. QED
    BY <1>1

LEMMA PrefixIs ==
    ASSUME NEW s \in Seq(Items), NEW n \in 0 .. Len(s)
    PROVE  /\ SubSeq(s, 1, n) \in Seq(Items) /\ Len(SubSeq(s, 1, n)) = n
           /\ \A i \in 1 .. n : SubSeq(s, 1, n)[i] = s[i]
  OBVIOUS

LEMMA TrimmedTyped ==
    ASSUME NEW s \in Seq(Items)
    PROVE  /\ WithoutAnswer(s) \in Seq(Items)
           /\ ~Word(s) => WithoutAnswer(s) = s
           /\ Word(s) => /\ Len(s) \in Nat \ {0} /\ Len(WithoutAnswer(s)) = Len(s) - 1
                         /\ \A i \in 1 .. Len(s) - 1 : WithoutAnswer(s)[i] = s[i]
  <1>1. CASE ~Word(s)
    <2>1. WithoutAnswer(s) = s
      BY <1>1 DEF WithoutAnswer, Word
    <2>2. QED
      BY <1>1, <2>1
  <1>2. CASE Word(s)
    <2>1. WithoutAnswer(s) = SubSeq(s, 1, Len(s) - 1) /\ Len(s) \in Nat \ {0}
      BY <1>2 DEF WithoutAnswer, Word
    <2>2. /\ SubSeq(s, 1, Len(s) - 1) \in Seq(Items) /\ Len(SubSeq(s, 1, Len(s) - 1)) = Len(s) - 1
          /\ \A i \in 1 .. Len(s) - 1 : SubSeq(s, 1, Len(s) - 1)[i] = s[i]
      <3> DEFINE n == Len(s) - 1
      <3>1. n \in 0 .. Len(s)
        BY <2>1
      <3> HIDE DEF n
      <3>2. /\ SubSeq(s, 1, n) \in Seq(Items) /\ Len(SubSeq(s, 1, n)) = n
            /\ \A i \in 1 .. n : SubSeq(s, 1, n)[i] = s[i]
        BY <3>1, PrefixIs
      <3>3. QED
        BY <3>2 DEF n
    <2>3. QED
      BY <1>2, <2>1, <2>2
  <1>3. QED
    BY <1>1, <1>2

LEMMA CutTyped ==
    ASSUME entries \in Seq(Items), NEW cut \in Cuts
    PROVE  cut \in 1 .. Len(entries) /\ entries[cut].role \in {"user", "assistant", "bash"}
  <1>1. Len(entries) \in Nat /\ DOMAIN entries = 1 .. Len(entries)
    OBVIOUS
  <1>2. KeptFrom \in Nat \ {0}
    <2>1. CASE Boundaries = {}
      BY <2>1 DEF KeptFrom, Boundary
    <2>2. CASE Boundaries # {}
      <3>1. Boundaries \in SUBSET (1 .. Len(entries))
        BY <1>1 DEF Boundaries
      <3>2. \E m \in Boundaries : \A k \in Boundaries : k <= m
        BY <1>1, <2>2, <3>1, Largest
      <3>3. Boundary \in Boundaries
        BY <2>2, <3>2 DEF Boundary
      <3>4. entries[Boundary] \in Items /\ entries[Boundary].role = "compaction" /\ Boundary # 0
        BY <1>1, <3>3 DEF Boundaries
      <3>5. QED
        BY <3>4, CompactionIs DEF KeptFrom
    <2>3. QED
      BY <2>1, <2>2
  <1>3. QED
    BY <1>1, <1>2 DEF Cuts

\* The summary and the entries from the cut on.
LEMMA RebuiltIs ==
    ASSUME entries \in Seq(Items), NEW cut \in 1 .. Len(entries)
    PROVE  /\ Rebuilt(cut) \in Seq(Items) /\ Len(Rebuilt(cut)) = Len(entries) - cut + 2
           /\ Rebuilt(cut)[1].role = "compaction"
           /\ \A i \in 2 .. Len(Rebuilt(cut)) : Rebuilt(cut)[i] = entries[i + cut - 2]
  <1>1. Len(entries) \in Nat /\ cut \in Nat \ {0} /\ cut =< Len(entries)
    OBVIOUS
  <1> DEFINE rest == SubSeq(entries, cut, Len(entries))
             e == Item("compaction", cut, 0, "none")
  <1>2. /\ rest \in Seq(Items) /\ Len(rest) = Len(entries) - cut + 1
        /\ \A i \in 1 .. Len(rest) : rest[i] = entries[i + cut - 1]
    BY <1>1
  <1>3. e \in Items /\ e.role = "compaction"
    BY <1>1, ItemsTyped DEF Item
  <1>4. Rebuilt(cut) = <<e>> \o rest
    BY DEF Rebuilt
  <1> HIDE DEF e, rest
  <1>5. <<e>> \in Seq(Items) /\ Len(<<e>>) = 1 /\ <<e>>[1] = e
    BY <1>3
  <1>6. /\ <<e>> \o rest \in Seq(Items) /\ Len(<<e>> \o rest) = 1 + Len(rest) /\ (<<e>> \o rest)[1] = e
        /\ \A i \in 2 .. 1 + Len(rest) : (<<e>> \o rest)[i] = rest[i - 1]
    BY <1>2, <1>5
  <1>7. ASSUME NEW i \in 2 .. 1 + Len(rest) PROVE rest[i - 1] = entries[i + cut - 2]
    <2>1. i - 1 \in 1 .. Len(rest) /\ (i - 1) + cut - 1 = i + cut - 2
      BY <1>1, <1>2
    <2>2. QED
      BY <1>2, <2>1
  <1>8. QED
    BY <1>1, <1>2, <1>3, <1>4, <1>6, <1>7

-----------------------------------------------------------------------------
(***************************************************************************)
(* What a step does to the messages.                                       *)
(***************************************************************************)
\* The steps that leave the transcript, the file and the commands alone.
QuietStep ==
    \/ (\E m \in Messages : AskPrompt(m) \/ Steer(m) \/ FollowUp(m) \/ FilesRead(m))
    \/ ClearQueue \/ Abort \/ StartPrompt
    \/ PrepareCall \/ (\E k \in 1 .. CallCount : ExecuteCall(k)) \/ EndTurn
    \/ BackoffEnds \/ Continue \/ Settled \/ UNCHANGED vars

LEMMA WhichStep ==
    ASSUME [Next]_vars
    PROVE  \/ QuietStep \/ BeginRun \/ Request \/ Answer \/ EndBatch
           \/ RecordBash \/ CompactFirst \/ EndRun \/ CancelRetry \/ ContinueFails \/ NotSummarized \/ Summarized
  BY DEF QuietStep, Next, UserStep, SessionStep

LEMMA QuietKeeps ==
    ASSUME QuietStep, TextTypes
    PROVE  /\ UNCHANGED <<transcript, entries, bashes, bashed, compaction>>
           /\ active => active'
  <1> USE DEF queues, session, recovery, counters
  <1>1. ASSUME NEW m \in Messages, AskPrompt(m)
        PROVE  UNCHANGED <<transcript, entries, bashes, bashed, compaction, active>>
    <2>1. bashes = <<>>
      BY <1>1 DEF AskPrompt, Working, TextTypes
    <2>2. transcript \o <<>> = transcript /\ entries \o <<>> = entries
      BY DEF TextTypes
    <2>3. QED
      BY <1>1, <2>1, <2>2 DEF AskPrompt, Flush
  <1>2. ASSUME NEW m \in Messages, Steer(m) \/ FollowUp(m) \/ FilesRead(m)
        PROVE  UNCHANGED <<transcript, entries, bashes, bashed, compaction, active>>
    BY <1>2 DEF Steer, FollowUp, FilesRead, Sends
  <1>3. CASE ClearQueue \/ Abort \/ EndTurn
    BY <1>3 DEF ClearQueue, Abort, EndTurn
  <1>4. CASE PrepareCall \/ BackoffEnds \/ Continue
    BY <1>4 DEF PrepareCall, BackoffEnds, Continue
  <1>5. CASE StartPrompt \/ Settled \/ UNCHANGED vars
    BY <1>5 DEF StartPrompt, Settled, vars
  <1>6. ASSUME NEW k \in 1 .. CallCount, ExecuteCall(k)
        PROVE  UNCHANGED <<transcript, entries, bashes, bashed, compaction, active>>
    BY <1>6 DEF ExecuteCall
  <1>7. QED
    BY <1>1, <1>2, <1>3, <1>4, <1>5, <1>6 DEF QuietStep

\* The steps after a run leave these messages and this file, with the commands
\* of the user behind them when the session settles.
Leaves(messages, file) ==
    \/ transcript' = messages /\ entries' = file /\ UNCHANGED <<active, settling, bashes>>
    \/ /\ transcript' = messages \o bashes /\ entries' = file \o bashes /\ bashes' = <<>>
       /\ active' = FALSE /\ settling' = TRUE

LEMMA ResumeLeaves ==
    ASSUME NEW messages, NEW file, Resume(messages, file) \/ Settle(messages, file) \/ ContinueWith(messages, file)
    PROVE  Leaves(messages, file)
  BY DEF Resume, Settle, ContinueWith, Leaves

LEMMA CompactOrResumeLeaves ==
    ASSUME NEW why, NEW messages, CompactOrResume(why, messages)
    PROVE  Leaves(messages, entries)
  BY ResumeLeaves DEF CompactOrResume, Leaves

LEMMA EndRunLeaves ==
    ASSUME EndRun
    PROVE  Leaves(transcript, entries) \/ Leaves(WithoutAnswer(transcript), entries)
  <1>1. CASE Retries
    BY <1>1 DEF Retries, Leaves
  <1>2. CASE Recovers
    BY <1>2, CompactOrResumeLeaves DEF Recovers
  <1>3. CASE GoesOn
    BY <1>3, CompactOrResumeLeaves, ResumeLeaves DEF GoesOn
  <1>4. QED
    BY <1>1, <1>2, <1>3 DEF EndRun

LEMMA OthersLeave ==
    ASSUME CancelRetry \/ ContinueFails \/ NotSummarized
    PROVE  Leaves(transcript, entries)
  <1>1. CASE CancelRetry
    BY <1>1, CompactOrResumeLeaves DEF CancelRetry
  <1>2. CASE ContinueFails
    BY <1>2, ResumeLeaves DEF ContinueFails
  <1>3. CASE NotSummarized
    BY <1>3, ResumeLeaves DEF NotSummarized, Leaves
  <1>4. QED
    BY <1>1, <1>2, <1>3

\* The summary is the last entry, and what it keeps is the transcript.
Filing(cut) == Append(entries, Item("compaction", cut, 0, "none"))

LEMMA SummarizedLeaves ==
    ASSUME Summarized
    PROVE  \/ Leaves(Rebuilt(compaction.cut), Filing(compaction.cut))
           \/ /\ compaction.why \in {"retry", "reprompt"}
              /\ Leaves(WithoutAnswer(Rebuilt(compaction.cut)), Filing(compaction.cut))
  <1> DEFINE cut == compaction.cut
             kept == Kept(compaction.why, Rebuilt(cut))
  <1>1. kept = Rebuilt(cut) \/ (compaction.why \in {"retry", "reprompt"} /\ kept = WithoutAnswer(Rebuilt(cut)))
    BY DEF Kept
  <1>2. Leaves(kept, Filing(cut))
    <2>1. CASE compaction.why = "after"
      <3>1. Resume(kept, Filing(cut))
        BY <2>1 DEF Summarized, Filing
      <3>2. QED
        BY <3>1, ResumeLeaves
    <2>2. CASE compaction.why = "retry"
      <3>1. ContinueWith(kept, Filing(cut))
        BY <2>2 DEF Summarized, Filing
      <3>2. QED
        BY <3>1, ResumeLeaves
    <2>3. CASE compaction.why \notin {"after", "retry"}
      BY <2>3 DEF Summarized, Filing, Leaves
    <2>4. QED
      BY <2>1, <2>2, <2>3
  <1>3. QED
    BY <1>1, <1>2

\* The message of a command.
LEMMA RecordBashWrites ==
    ASSUME TextTypes, RecordBash
    PROVE  \E b \in Bashes :
              \/ bashes' = Append(bashes, b) /\ UNCHANGED <<transcript, entries>> /\ active
              \/ transcript' = Append(transcript, b) /\ entries' = Append(entries, b) /\ UNCHANGED bashes
  <1>1. bashed + 1 \in 1 .. BashCount
    BY DEF RecordBash, TextTypes
  <1>2. Item("bash", bashed + 1, 0, "none") \in Bashes
    BY <1>1, ItemsTyped
  <1>3. QED
    BY <1>2 DEF RecordBash

\* What is delivered: messages of the user, one for each that is pending.
LEMMA DeliveredIs ==
    ASSUME RunTypes, FlagTypes
    PROVE  /\ Delivered \in Seq(Items) /\ Len(Delivered) = Len(run.pending)
           /\ Filed \in Seq(Items) /\ Len(Filed) = Len(run.pending)
           /\ \A i \in 1 .. Len(run.pending) :
                 /\ Delivered[i].role = "user" /\ Delivered[i].of = run.pending[i]
                 /\ Filed[i].role = "user" /\ Filed[i].of = run.pending[i]
  <1>1. Len(run.pending) \in Nat /\ DOMAIN run.pending = 1 .. Len(run.pending)
        /\ \A i \in 1 .. Len(run.pending) : run.pending[i] \in Messages
    BY DEF RunTypes
  <1> DEFINE note(i) == IF i = 1 /\ reference # None THEN reference ELSE 0
  <1>2. \A i \in 1 .. Len(run.pending) : note(i) \in {0} \cup Files
    BY DEF FlagTypes
  <1>3. Delivered = [i \in 1 .. Len(run.pending) |-> Item("user", run.pending[i], 0, "none")]
    BY <1>1 DEF Delivered
  <1>4. Filed = [i \in 1 .. Len(run.pending) |-> Item("user", run.pending[i], note(i), "none")]
    <2>1. Filed = [i \in 1 .. Len(run.pending) |-> [Delivered[i] EXCEPT !.n = note(i)]]
      BY <1>1 DEF Filed
    <2> HIDE DEF note
    <2>2. ASSUME NEW i \in 1 .. Len(run.pending)
          PROVE  [Delivered[i] EXCEPT !.n = note(i)] = Item("user", run.pending[i], note(i), "none")
      <3>1. Delivered[i] = Item("user", run.pending[i], 0, "none")
        BY <1>3
      <3>2. \A m, n : [Item("user", m, 0, "none") EXCEPT !.n = n] = Item("user", m, n, "none")
        BY DEF Item
      <3>3. QED
        BY <3>1, <3>2
    <2>3. QED
      BY <2>1, <2>2
  <1> HIDE DEF note
  <1>5. \A i \in 1 .. Len(run.pending) :
           /\ Item("user", run.pending[i], 0, "none") \in Items
           /\ Item("user", run.pending[i], note(i), "none") \in Items
    BY <1>1, <1>2, ItemsTyped
  <1>6. \A m, n : Item("user", m, n, "none").role = "user" /\ Item("user", m, n, "none").of = m
    BY DEF Item
  <1>7. Delivered \in Seq(Items) /\ Len(Delivered) = Len(run.pending)
    BY <1>1, <1>3, <1>5
  <1>8. Filed \in Seq(Items) /\ Len(Filed) = Len(run.pending)
    BY <1>1, <1>4, <1>5
  <1>9. QED
    BY <1>3, <1>4, <1>6, <1>7, <1>8

\* An answer: how it ended is known to the run and to the session.
LEMMA AnswerWrites ==
    ASSUME TextTypes, Answer
    PROVE  \E answer \in Items, serial \in BOOLEAN :
              /\ Answered(answer, serial)
              /\ answer.role = "assistant" /\ answer.n \in 0 .. CallCount /\ answer.note \in Stopping
              /\ answer.note \in Stops(answer.n) /\ (answer.n > 0 => ~run.dead)
  <1> DEFINE said(calls, stop, serial) ==
                /\ stop \in Stops(calls) /\ serial \in BOOLEAN
                /\ Answered(Item("assistant", Numbered + 1, calls, stop), serial)
             most == IF Turns < TurnCount /\ ~run.dead THEN CallCount ELSE 0
  <1>0. \E calls \in 0 .. most : \E stop, serial : said(calls, stop, serial)
    BY DEF Answer
  <1>0a. (most = CallCount /\ ~run.dead) \/ most = 0
    OBVIOUS
  <1> HIDE DEF said, most
  <1>0b. PICK calls \in 0 .. most : \E stop, serial : said(calls, stop, serial)
    BY <1>0
  <1>0c. calls \in 0 .. CallCount /\ (calls > 0 => ~run.dead)
    BY <1>0a
  <1>1. PICK stop, serial : said(calls, stop, serial)
    BY <1>0b
  <1> USE DEF said
  <1>2. stop \in Stopping
    BY <1>1 DEF Stops, Stopping
  <1>3. Numbered \in Nat
    <2>1. Answers(entries) \in SUBSET (1 .. Len(entries)) /\ Len(entries) \in Nat
      BY DEF Answers, TextTypes
    <2>2. IsFiniteSet(1 .. Len(entries))
      BY <2>1, FS_Interval
    <2>3. IsFiniteSet(Answers(entries))
      BY <2>1, <2>2, FS_Subset
    <2>4. QED
      BY <2>3, FS_CardinalityType DEF Numbered
  <1>4. Numbered + 1 \in Nat
    BY <1>3
  <1> DEFINE answer == Item("assistant", Numbered + 1, calls, stop)
  <1>5. answer \in Items
    BY <1>0c, <1>2, <1>4, ItemsTyped
  <1>6. answer.role = "assistant" /\ answer.n = calls /\ answer.note = stop
    BY DEF Item
  <1>7. QED
    BY <1>0c, <1>1, <1>2, <1>5, <1>6


\* The results of a batch: those of its first calls, of all if nobody aborted.
LEMMA ResultsAre ==
    ASSUME TextTypes, RunTypes, CallTypes, EndBatch
    PROVE  \E n \in 1 .. Len(run.calls) :
              /\ Results \in Seq(Items) /\ Len(Results) = n /\ Len(run.calls) \in 1 .. CallCount
              /\ \A k \in 1 .. n : Results[k].role = "result" /\ Results[k].of = k
              /\ aborts = 0 => n = Len(run.calls)
  <1> DEFINE L == Len(run.calls)
             D == DOMAIN run.calls \ Calls("skipped")
  <1>1. L \in Nat /\ DOMAIN run.calls = 1 .. L /\ \A k \in 1 .. L : run.calls[k] \in CallStates
    BY DEF RunTypes
  <1>2. L > 0 /\ run.calls # <<>>
    BY <1>1 DEF EndBatch, Running, RunTypes
  <1>3. L \in 1 .. CallCount
    <2>1. entries[Len(entries)] \in Items /\ entries[Len(entries)].role = "assistant"
          /\ entries[Len(entries)].n = L
      BY <1>2 DEF CallTypes, CalledLast, Word, TextTypes
    <2>2. QED
      BY <1>1, <1>2, <2>1, AnswerIs
  <1>4. D = {k \in 1 .. L : run.calls[k] # "skipped"}
    BY <1>1 DEF Calls
  <1>5. \A k \in D : 1 .. k \in SUBSET D
    <2> SUFFICES ASSUME NEW k \in D, NEW i \in 1 .. k PROVE i \in D
      OBVIOUS
    <2>1. i \in 1 .. L /\ k \in i .. L
      BY <1>1, <1>4
    <2>2. CASE run.calls[i] = "skipped"
      <3>1. run.calls[k] = "skipped"
        BY <2>1, <2>2 DEF CallTypes, SkippedLast
      <3>2. QED
        BY <1>4, <3>1
    <2>3. QED
      BY <1>4, <2>1, <2>2
  <1>6. 1 \in D
    BY <1>1, <1>2, <1>4 DEF CallTypes, SkippedLast
  <1>7. PICK n \in 0 .. L : D = 1 .. n
    <2> HIDE DEF D, L
    <2>1. D \in SUBSET (1 .. L)
      BY <1>4
    <2>2. L \in Nat
      BY <1>1
    <2>3. \A k \in D : 1 .. k \subseteq D
      BY <1>5
    <2>4. QED
      BY <2>1, <2>2, <2>3, Segment
  <1>8. n \in 1 .. L
    BY <1>1, <1>6, <1>7
  <1>9. Results = [k \in 1 .. n |-> Item("result", k, 0, run.calls[k])]
    BY <1>7 DEF Results
  <1>10. \A k \in 1 .. n : k \in 1 .. CallCount /\ run.calls[k] \in {"refused", "executed"}
    <2> SUFFICES ASSUME NEW k \in 1 .. n PROVE k \in 1 .. CallCount /\ run.calls[k] \in {"refused", "executed"}
      OBVIOUS
    <2>1. k \in 1 .. L /\ run.calls[k] # "skipped"
      BY <1>4, <1>7
    <2>2. run.calls[k] # "called" /\ run.calls[k] # "ready"
      BY <1>1, <2>1 DEF EndBatch, Calls
    <2>3. run.calls[k] \in CallStates
      BY <1>1, <2>1
    <2>4. QED
      BY <1>3, <2>1, <2>2, <2>3 DEF CallStates
  <1>11. \A k \in 1 .. n : Item("result", k, 0, run.calls[k]) \in Items
    BY <1>10, ItemsTyped
  <1>12. \A k, note : Item("result", k, 0, note).role = "result" /\ Item("result", k, 0, note).of = k
    BY DEF Item
  <1>13. Results \in Seq(Items) /\ Len(Results) = n
    BY <1>8, <1>9, <1>11
  <1>14. ASSUME aborts = 0 PROVE n = L
    <2>1. \A k \in 1 .. L : run.calls[k] # "skipped"
      BY <1>14 DEF CallTypes, SkippedLast
    <2>2. L \in D
      BY <1>1, <1>2, <1>4, <2>1
    <2>3. QED
      BY <1>7, <2>2
  <1>15. QED
    BY <1>3, <1>8, <1>9, <1>12, <1>13, <1>14

-----------------------------------------------------------------------------
(***************************************************************************)
(* Each step keeps the types.                                              *)
(***************************************************************************)
LEMMA LeavesTyped ==
    ASSUME TextTypes, NEW messages \in Seq(Items), NEW file \in Seq(Items), Leaves(messages, file), UNCHANGED bashed
    PROVE  TextTypes'
  <1>1. messages \o bashes \in Seq(Items) /\ file \o bashes \in Seq(Items)
    BY BashAdded DEF TextTypes
  <1>2. transcript' \in Seq(Items) /\ entries' \in Seq(Items)
    BY <1>1 DEF Leaves
  <1>3. bashes' \in Seq(Bashes) /\ (bashes' # <<>> => active')
    <2>1. CASE bashes' = bashes /\ active' = active
      BY <2>1, Zenon DEF TextTypes
    <2>2. CASE bashes' = <<>>
      BY <2>2
    <2>3. QED
      BY <2>1, <2>2 DEF Leaves
  <1>4. bashed' \in 0 .. BashCount
    BY DEF TextTypes
  <1>5. QED
    BY <1>2, <1>3, <1>4 DEF TextTypes

LEMMA TextTypesStep ==
    ASSUME Typed, [Next]_vars
    PROVE  TextTypes'
  <1> USE DEF Typed, TextTypes
  <1>1. CASE QuietStep
    BY <1>1, QuietKeeps
  <1>2. CASE BeginRun \/ Request
    <2>1. transcript' = transcript \o Delivered /\ entries' = entries \o Filed
          /\ UNCHANGED <<bashes, bashed, active>>
      BY <1>2 DEF BeginRun, Request, Deliver, counters
    <2>2. QED
      BY <2>1, DeliveredIs
  <1>3. CASE Answer
    <2>1. PICK answer \in Items : transcript' = Append(transcript, answer) /\ entries' = Append(entries, answer)
      BY <1>3, AnswerWrites DEF Answered
    <2>2. UNCHANGED <<bashes, bashed, active>>
      BY <1>3 DEF Answer, session, counters
    <2>3. QED
      BY <2>1, <2>2
  <1>4. CASE EndBatch
    <2>1. transcript' = transcript \o Results /\ entries' = entries \o Results /\ UNCHANGED <<bashes, bashed, active>>
      BY <1>4 DEF EndBatch, session, counters
    <2>2. Results \in Seq(Items)
      BY <1>4, ResultsAre
    <2>3. QED
      BY <2>1, <2>2
  <1>5. CASE RecordBash
    <2>1. bashed' \in 0 .. BashCount /\ UNCHANGED active
      BY <1>5 DEF RecordBash
    <2>2. PICK b \in Bashes :
              \/ bashes' = Append(bashes, b) /\ UNCHANGED <<transcript, entries>> /\ active
              \/ transcript' = Append(transcript, b) /\ entries' = Append(entries, b) /\ UNCHANGED bashes
      BY <1>5, RecordBashWrites
    <2>3. b \in Items
      BY BashesTyped
    <2>4. Append(transcript, b) \in Seq(Items) /\ Append(entries, b) \in Seq(Items)
      BY <2>3
    <2>5. Append(bashes, b) \in Seq(Bashes)
      OBVIOUS
    <2>6. transcript' \in Seq(Items) /\ entries' \in Seq(Items) /\ bashes' \in Seq(Bashes)
      BY <2>2, <2>4, <2>5
    <2>7. bashes' # <<>> => active'
      BY <2>1, <2>2
    <2>8. QED
      BY <2>1, <2>6, <2>7
  <1>6. CASE CompactFirst
    BY <1>6, TrimmedTyped DEF CompactFirst, session, counters
  <1>7. CASE EndRun
    BY <1>7, EndRunLeaves, LeavesTyped, TrimmedTyped DEF EndRun, counters
  <1>8. CASE CancelRetry \/ ContinueFails \/ NotSummarized
    <2>1. UNCHANGED bashed
      BY <1>8 DEF CancelRetry, ContinueFails, NotSummarized, counters
    <2>2. QED
      BY <1>8, <2>1, OthersLeave, LeavesTyped
  <1>9. CASE Summarized
    <2>1. UNCHANGED bashed /\ compaction.cut \in 1 .. Len(entries)
      BY <1>9 DEF Summarized, counters, CutTypes
    <2>2. Rebuilt(compaction.cut) \in Seq(Items)
      BY <2>1, RebuiltIs
    <2>3. WithoutAnswer(Rebuilt(compaction.cut)) \in Seq(Items)
      BY <2>2, TrimmedTyped
    <2>4. compaction.cut \in Nat \ {0}
      BY <2>1
    <2>5. Filing(compaction.cut) \in Seq(Items)
      BY <2>4, ItemsTyped DEF Filing
    <2>6. QED
      BY <1>9, <2>1, <2>2, <2>3, <2>5, SummarizedLeaves, LeavesTyped
  <1>10. QED
    BY <1>1, <1>2, <1>3, <1>4, <1>5, <1>6, <1>7, <1>8, <1>9, WhichStep


LEMMA FlagTypesStep ==
    ASSUME Typed, Phases, [Next]_vars
    PROVE  FlagTypes'
  <1> USE DEF Typed, FlagTypes
  <1>1. ASSUME NEW m \in Messages, AskPrompt(m) \/ Steer(m) \/ FollowUp(m) PROVE FlagTypes'
    <2>1. asked' \in 0 .. MessageCount /\ prompting' \in {prompting, m}
      BY <1>1 DEF AskPrompt, Steer, FollowUp, Sends, Messages, session
    <2>2. UNCHANGED <<reference, settling, waiting, overflowed, retry, last, aborts>>
      BY <1>1 DEF AskPrompt, Steer, FollowUp, session, recovery
    <2>3. QED
      BY <2>1, <2>2
  <1>2. ASSUME NEW m \in Messages, FilesRead(m) PROVE FlagTypes'
    <2>1. m \in Files
      BY <1>2 DEF FilesRead, QueueTypes
    <2>2. QED
      BY <1>2, <2>1 DEF FilesRead, recovery, counters
  <1>3. CASE ClearQueue \/ PrepareCall \/ EndTurn \/ BackoffEnds \/ Continue \/ UNCHANGED vars
    BY <1>3 DEF ClearQueue, PrepareCall, EndTurn, BackoffEnds, Continue, vars, session, recovery, counters
  <1>4. ASSUME NEW k \in 1 .. CallCount, ExecuteCall(k) PROVE FlagTypes'
    BY <1>4 DEF ExecuteCall, session, recovery, counters
  <1>5. CASE Abort
    BY <1>5 DEF Abort, Aborts, recovery
  <1>6. CASE StartPrompt
    BY <1>6 DEF StartPrompt, recovery, counters
  <1>7. CASE Settled
    <2>1. waiting' \in BOOLEAN /\ settling' = FALSE
      BY <1>7 DEF Settled, Phases, AtWork
    <2>2. QED
      BY <1>7, <2>1 DEF Settled, recovery, counters
  <1>8. CASE BeginRun \/ Request
    <2>1. reference' \in {reference, None} /\ overflowed' \in BOOLEAN
      BY <1>8 DEF BeginRun, Request, Deliver
    <2>2. UNCHANGED <<prompting, settling, waiting, retry, last, asked, aborts>>
      BY <1>8 DEF BeginRun, Request, counters
    <2>3. QED
      BY <2>1, <2>2
  <1>9. CASE Answer
    <2>1. PICK answer \in Items, serial \in BOOLEAN : Answered(answer, serial) /\ answer.note \in Stopping
      BY <1>9, AnswerWrites
    <2>2. last' \in Stopping /\ retry' \in {retry, 0} /\ overflowed' \in BOOLEAN
      BY <2>1 DEF Answered
    <2>3. UNCHANGED <<reference, prompting, settling, waiting, asked, aborts>>
      BY <1>9 DEF Answer, session, counters
    <2>4. QED
      BY <2>2, <2>3
  <1>10. CASE EndBatch
    BY <1>10 DEF EndBatch, session, recovery, counters
  <1>11. CASE RecordBash
    BY <1>11 DEF RecordBash, recovery
  <1>12. CASE CompactFirst
    <2>1. overflowed' \in BOOLEAN
      BY <1>12 DEF CompactFirst
    <2>2. QED
      BY <1>12, <2>1 DEF CompactFirst, session, counters
  <1>13. CASE EndRun
    <2>1. UNCHANGED <<reference, prompting, waiting, asked, aborts>> /\ last' = None
      BY <1>13 DEF EndRun, counters
    <2>2. settling' \in BOOLEAN
      BY <1>13, EndRunLeaves DEF Leaves
    <2>3. retry' \in 0 .. MaxRetries /\ overflowed' \in BOOLEAN
      <3>1. CASE Retries
        BY <3>1 DEF Retries
      <3>2. CASE Recovers
        BY <3>2 DEF Recovers
      <3>3. CASE GoesOn
        BY <3>3 DEF GoesOn
      <3>4. QED
        BY <1>13, <3>1, <3>2, <3>3 DEF EndRun
    <2>4. QED
      BY <2>1, <2>2, <2>3
  <1>14. CASE CancelRetry \/ ContinueFails \/ NotSummarized
    <2>1. settling' \in BOOLEAN
      BY <1>14, OthersLeave DEF Leaves
    <2>2. retry' \in {retry, 0} /\ aborts' \in {aborts, aborts + 1}
          /\ UNCHANGED <<reference, prompting, overflowed, last, asked>>
      BY <1>14 DEF CancelRetry, ContinueFails, NotSummarized, Aborts, recovery, counters
    <2>3. waiting' = TRUE \/ waiting' = waiting
      BY <1>14 DEF CancelRetry, ContinueFails, NotSummarized
    <2>4. waiting' \in BOOLEAN
      BY <2>3
    <2>5. retry' \in 0 .. MaxRetries /\ aborts' \in Nat
      BY <2>2
    <2>6. QED
      BY <2>1, <2>2, <2>4, <2>5
  <1>15. CASE Summarized
    <2>1. settling' \in BOOLEAN
      BY <1>15, SummarizedLeaves DEF Leaves
    <2>2. UNCHANGED <<reference, prompting, waiting, overflowed, retry, last, asked, aborts>>
      BY <1>15 DEF Summarized, counters
    <2>3. QED
      BY <2>1, <2>2
  <1>16. QED
    BY <1>1, <1>2, <1>3, <1>4, <1>5, <1>6, <1>7, <1>8, <1>9, <1>10, <1>11, <1>12, <1>13, <1>14, <1>15, WhichStep
       DEF QuietStep

\* A compaction that begins has its cut in the file.
Compacting ==
    phase' = "compacting" /\ UNCHANGED entries
    /\ \E why \in {"prompt", "reprompt", "retry", "after"}, cut \in Cuts : compaction' = [why |-> why, cut |-> cut]

LEMMA CompactingTyped ==
    ASSUME TextTypes, Compacting
    PROVE  CutTypes'
  <1>1. PICK why \in {"prompt", "reprompt", "retry", "after"}, cut \in Cuts : compaction' = [why |-> why, cut |-> cut]
    BY DEF Compacting
  <1>2. cut \in 1 .. Len(entries) /\ entries[cut].role \in {"user", "assistant", "bash"}
    BY CutTyped DEF TextTypes
  <1>3. Len(entries) \in Nat
    BY DEF TextTypes
  <1>4. compaction' \in [why : {"prompt", "reprompt", "retry", "after"}, cut : Nat]
    <2>1. cut \in Nat
      BY <1>2, <1>3
    <2>2. QED
      BY <1>1, <2>1
  <1>5. compaction' # None
    BY <1>4, NoneIsNoCompaction
  <1>6. compaction'.why = why /\ compaction'.cut = cut /\ compaction' = [why |-> compaction'.why, cut |-> compaction'.cut]
    BY <1>1
  <1>7. QED
    BY <1>2, <1>5, <1>6 DEF Compacting, CutTypes

\* A step after a run compacts, or goes on without a compaction.
LEMMA ResumesOrCompacts ==
    ASSUME phase # "compacting", CutTypes, NEW why \in {"prompt", "reprompt", "retry", "after"}, NEW messages, CompactOrResume(why, messages)
    PROVE  Compacting \/ (phase' # "compacting" /\ compaction' = None)
  <1>1. CASE Compacts(why) /\ UNCHANGED entries
    BY <1>1 DEF Compacts, Compacting
  <1>2. CASE Resume(messages, entries) /\ UNCHANGED compaction
    BY <1>2, AfterRun DEF CutTypes
  <1>3. QED
    BY <1>1, <1>2 DEF CompactOrResume

LEMMA CutTypesStep ==
    ASSUME Typed, Phases, [Next]_vars
    PROVE  CutTypes'
  <1> USE DEF Typed
  <1>1. ASSUME UNCHANGED <<phase, compaction, entries>> PROVE CutTypes'
    BY <1>1 DEF CutTypes
  <1>2. ASSUME phase' # "compacting", compaction' = None PROVE CutTypes'
    BY <1>2 DEF CutTypes
  <1>3. ASSUME Compacting PROVE CutTypes'
    BY <1>3, CompactingTyped
  <1>4. CASE QuietStep
    <2>1. UNCHANGED <<entries, compaction>>
      BY <1>4, QuietKeeps
    <2>2. UNCHANGED phase \/ (phase # "compacting" /\ phase' # "compacting")
      <3> USE DEF queues, session, recovery, counters
      <3>1. ASSUME NEW m \in Messages, AskPrompt(m) \/ Steer(m) \/ FollowUp(m) \/ FilesRead(m)
            PROVE  UNCHANGED phase \/ (phase # "compacting" /\ phase' # "compacting")
        BY <3>1 DEF AskPrompt, Steer, FollowUp, FilesRead, Working, Phases, AtWork, InPreflight
      <3>2. CASE ClearQueue \/ PrepareCall \/ EndTurn \/ BackoffEnds \/ Continue
        BY <3>2 DEF ClearQueue, PrepareCall, EndTurn, BackoffEnds, Continue
      <3>3. ASSUME NEW k \in 1 .. CallCount, ExecuteCall(k) PROVE UNCHANGED phase
        BY <3>3 DEF ExecuteCall
      <3>4. CASE Abort \/ StartPrompt \/ Settled \/ UNCHANGED vars
        BY <3>4 DEF Abort, StartPrompt, Settled, vars
      <3>5. QED
        BY <1>4, <3>1, <3>2, <3>3, <3>4 DEF QuietStep
    <2>3. QED
      BY <1>1, <1>2, <2>1, <2>2 DEF CutTypes
  <1>5. CASE BeginRun \/ Request \/ Answer \/ EndBatch
    <2>1. phase = "running" /\ UNCHANGED <<phase, compaction>>
      BY <1>5, RunStepStays DEF StaysRunning, RunStep
    <2>2. QED
      BY <1>2, <2>1 DEF CutTypes
  <1>6. CASE RecordBash
    <2>1. PICK b \in Bashes : entries' = entries \/ entries' = Append(entries, b)
      BY <1>6, RecordBashWrites
    <2>2. UNCHANGED <<phase, compaction>>
      BY <1>6 DEF RecordBash, recovery
    <2>3. CASE entries' = entries
      BY <1>1, <2>2, <2>3
    <2>4. CASE entries' = Append(entries, b)
      <3>1. Len(entries) \in Nat /\ Len(entries') = Len(entries) + 1
            /\ \A i \in 1 .. Len(entries) : entries'[i] = entries[i]
        BY <2>4 DEF TextTypes
      <3>2. \A i \in 1 .. Len(entries) : i \in 1 .. Len(entries')
        BY <3>1
      <3>3. QED
        BY <2>2, <3>1, <3>2 DEF CutTypes
    <2>5. QED
      BY <2>1, <2>3, <2>4
  <1>7. CASE CompactFirst
    BY <1>3, <1>7 DEF CompactFirst, Compacts, Compacting
  <1>8. CASE EndRun
    <2>1. phase = "running" /\ compaction = None
      BY <1>8 DEF EndRun, Running, CutTypes
    <2>2. CASE Retries
      BY <1>2, <2>1, <2>2 DEF Retries
    <2>3. CASE Recovers
      BY <1>2, <1>3, <2>1, <2>3, ResumesOrCompacts DEF Recovers
    <2>4. CASE GoesOn
      <3>1. CASE last \in {"overflow", "aborted"}
        BY <1>2, <2>1, <2>4, <3>1, AfterRun DEF GoesOn
      <3>2. CASE last \notin {"overflow", "aborted"}
        <4>1. CompactOrResume("after", transcript)
          BY <2>4, <3>2 DEF GoesOn
        <4>2. QED
          BY <1>2, <1>3, <2>1, <4>1, ResumesOrCompacts
      <3>3. QED
        BY <3>1, <3>2
    <2>5. QED
      BY <1>8, <2>2, <2>3, <2>4 DEF EndRun
  <1>9. CASE CancelRetry
    BY <1>2, <1>3, <1>9, ResumesOrCompacts DEF CancelRetry
  <1>10. CASE ContinueFails
    BY <1>2, <1>10 DEF ContinueFails, Settle, recovery, CutTypes
  <1>11. CASE NotSummarized
    BY <1>2, <1>11, AfterRun DEF NotSummarized
  <1>12. CASE Summarized
    <2>1. compaction' = None
      BY <1>12 DEF Summarized
    <2>2. phase' # "compacting"
      <3>1. PICK rebuilt, file :
               Resume(rebuilt, file) \/ ContinueWith(rebuilt, file) \/ phase' = "compacted"
        BY <1>12 DEF Summarized
      <3>2. QED
        BY <3>1, AfterRun DEF ContinueWith
    <2>3. QED
      BY <1>2, <2>1, <2>2
  <1>13. QED
    BY <1>4, <1>5, <1>6, <1>7, <1>8, <1>9, <1>10, <1>11, <1>12, WhichStep


LEMMA DrawnTyped ==
    ASSUME NEW queue \in Seq(Messages)
    PROVE  /\ Drained(queue) \in Seq(Messages)
           /\ queue = <<>> => Drained(queue) = <<>>
  <1>1. CASE AllAtOnce \/ queue = <<>>
    BY <1>1 DEF Drained
  <1>2. CASE ~AllAtOnce /\ queue # <<>>
    <2>1. Head(queue) \in Messages
      BY <1>2
    <2>2. Drained(queue) = <<Head(queue)>>
      BY <1>2 DEF Drained
    <2>3. QED
      BY <1>2, <2>1, <2>2
  <1>3. QED
    BY <1>1, <1>2

\* Aborts are only added up, and a run is aborted by one.
LEMMA AbortsGrow ==
    ASSUME [Next]_vars, aborts \in Nat
    PROVE  aborts' \in Nat /\ aborts' >= aborts
  <1> USE DEF counters, Aborts
  <1>1. aborts' = aborts \/ aborts' = aborts + 1
    <2>1. ASSUME NEW m \in Messages, AskPrompt(m) \/ Steer(m) \/ FollowUp(m) \/ FilesRead(m) PROVE aborts' = aborts
      BY <2>1 DEF AskPrompt, Steer, FollowUp, FilesRead
    <2>2. CASE ClearQueue \/ RecordBash \/ CompactFirst \/ StartPrompt \/ BeginRun \/ Request
      BY <2>2 DEF ClearQueue, RecordBash, CompactFirst, StartPrompt, BeginRun, Request
    <2>3. CASE Abort \/ CancelRetry
      BY <2>3 DEF Abort, CancelRetry
    <2>4. CASE Answer \/ PrepareCall \/ EndBatch \/ EndTurn \/ EndRun \/ BackoffEnds
      BY <2>4 DEF Answer, PrepareCall, EndBatch, EndTurn, EndRun, BackoffEnds
    <2>5. ASSUME NEW k \in 1 .. CallCount, ExecuteCall(k) PROVE aborts' = aborts
      BY <2>5 DEF ExecuteCall
    <2>6. CASE Continue \/ ContinueFails \/ Summarized \/ NotSummarized \/ Settled \/ UNCHANGED vars
      BY <2>6 DEF Continue, ContinueFails, Summarized, NotSummarized, Settled, vars
    <2>7. QED
      BY <2>1, <2>2, <2>3, <2>4, <2>5, <2>6 DEF Next, UserStep, SessionStep
  <1>2. QED
    BY <1>1

\* The next call to be prepared.
NextCall == CHOOSE k \in Calls("called") : \A other \in Calls("called") : k <= other

LEMMA NextCallIs ==
    ASSUME RunTypes, Calls("called") # {}
    PROVE  /\ NextCall \in 1 .. Len(run.calls) /\ run.calls[NextCall] = "called"
           /\ \A k \in 1 .. Len(run.calls) : run.calls[k] = "called" => NextCall <= k
  <1>1. Len(run.calls) \in Nat /\ DOMAIN run.calls = 1 .. Len(run.calls)
    BY DEF RunTypes
  <1>2. Calls("called") \in SUBSET (1 .. Len(run.calls))
    BY <1>1 DEF Calls
  <1>3. \E m \in Calls("called") : \A k \in Calls("called") : m <= k
    BY <1>1, <1>2, Least
  <1>4. NextCall \in Calls("called") /\ \A k \in Calls("called") : NextCall <= k
    BY <1>3 DEF NextCall
  <1>5. QED
    BY <1>1, <1>4 DEF Calls

\* What a step on the calls makes of them: one call goes on, and those behind
\* it may be skipped, after an abort.
Advances(k) ==
    /\ k \in 1 .. Len(run.calls) /\ run.calls[k] # "skipped"
    /\ run'.calls \in Seq(CallStates) /\ Len(run'.calls) = Len(run.calls) /\ run'.calls[k] # "skipped"
    /\ \/ \A i \in 1 .. Len(run.calls) : i # k => run'.calls[i] = run.calls[i]
       \/ aborts > 0 /\ \A i \in 1 .. Len(run.calls) :
                            (i < k => run'.calls[i] = run.calls[i]) /\ (i > k => run'.calls[i] = "skipped")

LEMMA TableIsSeq ==
    ASSUME NEW S, NEW n \in Nat, NEW f \in [1 .. n -> S]
    PROVE  f \in Seq(S) /\ Len(f) = n
  OBVIOUS

LEMMA PrepareCallAdvances ==
    ASSUME RunTypes, PrepareCall
    PROVE  \E k : Advances(k)
  <1> DEFINE L == Len(run.calls)
  <1>1. L \in Nat /\ DOMAIN run.calls = 1 .. L /\ \A i \in 1 .. L : run.calls[i] \in CallStates
    BY DEF RunTypes
  <1>2. Calls("called") # {}
    BY DEF PrepareCall
  <1>3. NextCall \in 1 .. L /\ run.calls[NextCall] = "called"
    BY <1>2, NextCallIs
  <1>4. PICK status \in (IF run.aborted THEN {"refused"} ELSE {"refused", "ready"}) :
           run' = [run EXCEPT !.calls = [k \in DOMAIN @ |->
                      CASE k = NextCall -> status [] k > NextCall /\ run.aborted -> "skipped" [] OTHER -> @[k]]]
    BY Zenon DEF PrepareCall, NextCall
  <1>4a. status \in {"refused", "ready"}
    BY <1>4
  <1>5. run'.calls = [k \in 1 .. L |->
            CASE k = NextCall -> status [] k > NextCall /\ run.aborted -> "skipped" [] OTHER -> run.calls[k]]
    BY <1>1, <1>4 DEF RunTypes, Phases, OneRun, RunShape
  <1>6. ASSUME NEW k \in 1 .. L PROVE run'.calls[k] \in CallStates
    <2>1. run'.calls[k] \in {status, "skipped", run.calls[k]}
      BY <1>3, <1>5
    <2>2. QED
      BY <1>1, <1>4a, <2>1 DEF CallStates
  <1>7. run'.calls \in Seq(CallStates) /\ Len(run'.calls) = L
    <2>1. run'.calls \in [1 .. L -> CallStates]
      BY <1>5, <1>6, Zenon
    <2>2. QED
      BY <1>1, <2>1, TableIsSeq
  <1>8. run'.calls[NextCall] = status /\ status # "skipped"
    BY <1>3, <1>4a, <1>5
  <1>9. CASE run.aborted
    <2>1. aborts > 0
      BY <1>9 DEF RunTypes
    <2>2. \A i \in 1 .. L : (i < NextCall => run'.calls[i] = run.calls[i]) /\ (i > NextCall => run'.calls[i] = "skipped")
      BY <1>3, <1>5, <1>9
    <2>3. QED
      BY <1>3, <1>7, <1>8, <2>1, <2>2 DEF Advances
  <1>10. CASE ~run.aborted
    <2>1. \A i \in 1 .. L : i # NextCall => run'.calls[i] = run.calls[i]
      BY <1>5, <1>10
    <2>2. QED
      BY <1>3, <1>7, <1>8, <2>1 DEF Advances
  <1>11. QED
    BY <1>9, <1>10

LEMMA SequenceOf ==
    ASSUME NEW S, NEW n \in Nat, NEW f, f = [i \in 1 .. n |-> f[i]], \A i \in 1 .. n : f[i] \in S
    PROVE  f \in Seq(S) /\ Len(f) = n
  <1>1. f \in [1 .. n -> S]
    OBVIOUS
  <1>2. QED
    BY <1>1

LEMMA ExecuteCallAdvances ==
    ASSUME RunTypes, NEW k \in 1 .. CallCount, ExecuteCall(k)
    PROVE  Advances(k)
  <1> DEFINE L == Len(run.calls)
  <1>1. L \in Nat /\ DOMAIN run.calls = 1 .. L /\ \A i \in 1 .. L : run.calls[i] \in CallStates
    BY DEF RunTypes
  <1>2. k \in 1 .. L /\ run.calls[k] = "ready"
    BY <1>1 DEF ExecuteCall, Calls
  <1>3. run'.calls = [i \in 1 .. L |->
            CASE i = k -> "executed" [] i > k /\ run.serial /\ run.aborted -> "skipped" [] OTHER -> run.calls[i]]
    BY <1>1 DEF ExecuteCall, RunTypes
  <1>4. ASSUME NEW i \in 1 .. L PROVE run'.calls[i] \in CallStates
    <2>1. run'.calls[i] \in {"executed", "skipped", run.calls[i]}
      BY <1>2, <1>3
    <2>2. QED
      BY <1>1, <2>1 DEF CallStates
  <1>5. run'.calls \in Seq(CallStates) /\ Len(run'.calls) = L
    <2>1. run'.calls = [i \in 1 .. L |-> run'.calls[i]]
      BY <1>3
    <2> HIDE DEF L
    <2>2. QED
      BY <1>1, <1>4, <2>1, SequenceOf
  <1>6. run'.calls[k] = "executed"
    BY <1>2, <1>3
  <1>7. CASE run.serial /\ run.aborted
    <2>1. aborts > 0
      BY <1>7 DEF RunTypes
    <2>2. \A i \in 1 .. L : (i < k => run'.calls[i] = run.calls[i]) /\ (i > k => run'.calls[i] = "skipped")
      BY <1>2, <1>3, <1>7
    <2>3. QED
      BY <1>2, <1>5, <1>6, <2>1, <2>2 DEF Advances
  <1>8. CASE ~(run.serial /\ run.aborted)
    <2>1. \A i \in 1 .. L : i # k => run'.calls[i] = run.calls[i]
      BY <1>3, <1>8
    <2>2. QED
      BY <1>2, <1>5, <1>6, <2>1 DEF Advances
  <1>9. QED
    BY <1>7, <1>8

LEMMA AdvancesSkips ==
    ASSUME RunTypes, SkippedLast, NEW k, Advances(k), UNCHANGED aborts
    PROVE  SkippedLast' /\ run'.calls # <<>>
  <1> DEFINE L == Len(run.calls)
  <1>1. L \in Nat /\ k \in 1 .. L /\ Len(run'.calls) = L
    BY DEF RunTypes, Advances
  <1>2. run'.calls # <<>> /\ run.calls # <<>> /\ 1 \in 1 .. L
    BY <1>1 DEF Advances, RunTypes
  <1>3. run'.calls[1] # "skipped"
    <2>1. CASE k = 1
      BY <2>1 DEF Advances
    <2>2. CASE k # 1
      <3>1. run'.calls[1] = run.calls[1]
        BY <1>1, <1>2, <2>2 DEF Advances
      <3>2. QED
        BY <1>2, <3>1 DEF SkippedLast
    <2>3. QED
      BY <2>1, <2>2
  <1>4. ASSUME NEW j \in 1 .. L, run'.calls[j] = "skipped"
        PROVE  aborts > 0 /\ \A i \in j .. L : run'.calls[i] = "skipped"
    <2>1. j # k
      BY <1>4 DEF Advances
    <2>2. CASE run.calls[j] = "skipped"
      <3>1. aborts > 0 /\ \A i \in j .. L : run.calls[i] = "skipped"
        BY <2>2 DEF SkippedLast
      <3>2. k \notin j .. L
        BY <3>1 DEF Advances
      <3>3. ASSUME NEW i \in j .. L PROVE run'.calls[i] = "skipped"
        <4>1. i \in 1 .. L /\ i > k /\ run.calls[i] = "skipped"
          BY <1>1, <3>1, <3>2
        <4>2. QED
          BY <1>1, <4>1 DEF Advances
      <3>4. QED
        BY <3>1, <3>3
    <2>3. CASE run.calls[j] # "skipped"
      <3>1. aborts > 0 /\ j > k /\ \A i \in 1 .. L : i > k => run'.calls[i] = "skipped"
        BY <1>1, <1>4, <2>1, <2>3 DEF Advances
      <3>2. QED
        BY <1>1, <3>1
    <2>4. QED
      BY <2>2, <2>3
  <1>5. QED
    BY <1>1, <1>2, <1>3, <1>4 DEF SkippedLast


LEMMA SameRunTyped ==
    ASSUME RunTypes, UNCHANGED run, aborts \in Nat, aborts' \in Nat, aborts' >= aborts
    PROVE  RunTypes'
  <1>1. run.aborted => aborts' > 0
    BY DEF RunTypes
  <1>2. QED
    BY <1>1 DEF RunTypes

LEMMA FreshRunTyped ==
    ASSUME NEW pending \in Seq(Messages), NEW skip \in BOOLEAN,
           run' = [pc |-> "prompt", pending |-> pending, calls |-> <<>>, serial |-> FALSE,
                   aborted |-> FALSE, dead |-> FALSE, skip |-> skip, context |-> transcript]
    PROVE  RunTypes'
  BY DEF RunTypes

LEMMA RunTypesStep ==
    ASSUME Typed, Phases, [Next]_vars
    PROVE  RunTypes'
  <1> USE DEF Typed
  <1>a. aborts \in Nat /\ aborts' \in Nat /\ aborts' >= aborts
    BY AbortsGrow DEF FlagTypes
  <1>b. ASSUME UNCHANGED run PROVE RunTypes'
    BY <1>a, <1>b, SameRunTyped
  <1>c. /\ run = [pc |-> run.pc, pending |-> run.pending, calls |-> run.calls, serial |-> run.serial,
                  aborted |-> run.aborted, dead |-> run.dead, skip |-> run.skip, context |-> run.context]
        /\ steering \in Seq(Messages) /\ followUps \in Seq(Messages)
    BY DEF Phases, OneRun, RunShape, QueueTypes
  <1>d. ASSUME UNCHANGED aborts PROVE run.aborted => aborts' > 0
    BY <1>d DEF RunTypes
  <1>1. ASSUME NEW m \in Messages, AskPrompt(m) \/ Steer(m) \/ FollowUp(m) \/ FilesRead(m) PROVE RunTypes'
    BY <1>1, <1>b DEF AskPrompt, Steer, FollowUp, FilesRead
  <1>2. CASE ClearQueue \/ RecordBash \/ CompactFirst \/ BackoffEnds \/ CancelRetry
    BY <1>2, <1>b DEF ClearQueue, RecordBash, CompactFirst, BackoffEnds, CancelRetry
  <1>3. CASE ContinueFails \/ Summarized \/ NotSummarized \/ Settled \/ UNCHANGED vars
    BY <1>3, <1>b DEF ContinueFails, Summarized, NotSummarized, Settled, vars
  <1>4. CASE Abort
    <2>1. CASE run' = run
      BY <1>b, <2>1
    <2>2. CASE run' = [run EXCEPT !.aborted = TRUE]
      <3>1. aborts' = aborts + 1 /\ aborts' > 0
        BY <1>4, <1>a DEF Abort, Aborts
      <3>2. run' = [pc |-> run.pc, pending |-> run.pending, calls |-> run.calls, serial |-> run.serial,
                    aborted |-> TRUE, dead |-> run.dead, skip |-> run.skip, context |-> run.context]
        BY <1>c, <2>2
      <3>3. QED
        BY <3>1, <3>2 DEF RunTypes
    <2>3. QED
      BY <1>4, <2>1, <2>2 DEF Abort
  <1>5. CASE StartPrompt
    <2>1. prompting \in Messages
      BY <1>5 DEF StartPrompt, Phases, InPreflight, FlagTypes
    <2>2. <<prompting>> \in Seq(Messages)
      BY <2>1
    <2>3. run' = [pc |-> "prompt", pending |-> <<prompting>>, calls |-> <<>>, serial |-> FALSE,
                  aborted |-> FALSE, dead |-> FALSE, skip |-> FALSE, context |-> transcript]
      BY <1>5 DEF StartPrompt, NoRun
    <2>4. QED
      BY <2>2, <2>3, FreshRunTyped
  <1>6. CASE Continue
    <2> DEFINE skip == IsLast("assistant") /\ steering # <<>>
               pending == IF skip THEN Drained(steering)
                          ELSE IF IsLast("assistant") /\ steering = <<>> THEN Drained(followUps) ELSE <<>>
    <2>1. run' = [NoRun EXCEPT !.pc = "prompt", !.context = transcript, !.skip = skip, !.pending = pending]
      BY <1>6 DEF Continue
    <2>2. pending \in Seq(Messages) /\ skip \in BOOLEAN
      BY <1>c, DrawnTyped
    <2> HIDE DEF pending, skip
    <2>3. run' = [pc |-> "prompt", pending |-> pending, calls |-> <<>>, serial |-> FALSE,
                  aborted |-> FALSE, dead |-> FALSE, skip |-> skip, context |-> transcript]
      BY <2>1 DEF NoRun
    <2>4. QED
      BY <2>2, <2>3, FreshRunTyped
  <1>7. CASE BeginRun
    <2> DEFINE pending == IF run.skip THEN <<>> ELSE Drained(steering)
    <2>1. run' = [run EXCEPT !.pc = "deliver", !.context = @ \o Delivered, !.pending = pending]
      BY <1>7 DEF BeginRun
    <2>2. pending \in Seq(Messages)
      BY <1>c, DrawnTyped
    <2> HIDE DEF pending
    <2>3. run' = [pc |-> "deliver", pending |-> pending, calls |-> run.calls, serial |-> run.serial,
                  aborted |-> run.aborted, dead |-> run.dead, skip |-> run.skip, context |-> run.context \o Delivered]
      BY <1>c, <2>1
    <2>4. UNCHANGED aborts /\ run.calls = <<>>
      BY <1>7 DEF BeginRun, counters, Running, RunTypes
    <2>5. QED
      BY <1>d, <2>2, <2>3, <2>4 DEF RunTypes
  <1>8. CASE Request
    <2>1. run' = [pc |-> "asking", pending |-> <<>>, calls |-> run.calls, serial |-> run.serial,
                  aborted |-> run.aborted, dead |-> run.aborted, skip |-> run.skip, context |-> run.context \o Delivered]
      BY <1>8, <1>c DEF Request
    <2>2. UNCHANGED aborts /\ run.calls = <<>>
      BY <1>8 DEF Request, counters, Running, RunTypes
    <2>3. QED
      BY <1>d, <2>1, <2>2 DEF RunTypes
  <1>9. CASE Answer
    <2>1. PICK answer \in Items, serial \in BOOLEAN :
             Answered(answer, serial) /\ answer.n \in 0 .. CallCount /\ answer.note \in Stops(answer.n)
             /\ (answer.n > 0 => ~run.dead)
      BY <1>9, AnswerWrites
    <2>2. PICK pc, calls :
             /\ pc = IF answer.note \in Failures \cup {"aborted"} THEN "ending" ELSE IF answer.n > 0 THEN "tools" ELSE "turn"
             /\ calls = [k \in 1 .. answer.n |-> IF answer.note = "length" THEN "refused" ELSE "called"]
             /\ run' = [run EXCEPT !.pc = pc, !.context = Append(@, answer), !.serial = serial, !.calls = calls]
      BY <2>1 DEF Answered, AnsweredWith
    <2>3. run' = [pc |-> pc, pending |-> run.pending, calls |-> calls, serial |-> serial,
                  aborted |-> run.aborted, dead |-> run.dead, skip |-> run.skip, context |-> Append(run.context, answer)]
      BY <1>c, <2>2
    <2>4. answer.n > 0 => answer.note \notin Failures \cup {"aborted"}
      BY <2>1 DEF Stops, Failures
    <2>5. calls \in Seq(CallStates) /\ Len(calls) = answer.n
      <3>1. \A k \in 1 .. answer.n : calls[k] \in CallStates
        BY <2>2 DEF CallStates
      <3>2. answer.n \in Nat
        BY <2>1
      <3>3. calls = [k \in 1 .. answer.n |-> calls[k]]
        BY <2>2
      <3>4. QED
        BY <3>1, <3>2, <3>3, SequenceOf
    <2>6. calls # <<>> <=> answer.n > 0
      BY <2>1, <2>5
    <2>7. UNCHANGED aborts /\ run.pending = <<>>
      BY <1>9 DEF Answer, counters, Running, RunTypes
    <2>8. pc \in {"ending", "tools", "turn"} /\ (pc = "tools" <=> answer.n > 0)
      BY <2>2, <2>4
    <2>9. QED
      BY <1>d, <2>3, <2>5, <2>6, <2>7, <2>8 DEF RunTypes
  <1>10. ASSUME NEW k, Advances(k), NEW calls, run' = [run EXCEPT !.calls = calls], UNCHANGED aborts PROVE RunTypes'
    <2>1. run' = [pc |-> run.pc, pending |-> run.pending, calls |-> calls, serial |-> run.serial,
                  aborted |-> run.aborted, dead |-> run.dead, skip |-> run.skip, context |-> run.context]
      BY <1>c, <1>10
    <2>2. calls \in Seq(CallStates) /\ calls # <<>> /\ run.calls # <<>>
      BY <1>10, <2>1 DEF Advances, RunTypes
    <2>3. QED
      BY <1>d, <1>10, <2>1, <2>2 DEF RunTypes
  <1>11. CASE PrepareCall
    <2>1. \E k : Advances(k)
      BY <1>11, PrepareCallAdvances
    <2>2. UNCHANGED aborts /\ \E calls : run' = [run EXCEPT !.calls = calls]
      BY <1>11 DEF PrepareCall, counters
    <2>3. QED
      BY <1>10, <2>1, <2>2
  <1>12. ASSUME NEW k \in 1 .. CallCount, ExecuteCall(k) PROVE RunTypes'
    <2>1. Advances(k)
      BY <1>12, ExecuteCallAdvances
    <2>2. UNCHANGED aborts /\ \E calls : run' = [run EXCEPT !.calls = calls]
      BY <1>12 DEF ExecuteCall, counters
    <2>3. QED
      BY <1>10, <2>1, <2>2
  <1>13. CASE EndBatch
    <2>1. PICK pc \in {"more", "turn"} :
             run' = [run EXCEPT !.pc = pc, !.context = @ \o Results, !.calls = <<>>, !.serial = FALSE]
      BY <1>13 DEF EndBatch
    <2>2. run' = [pc |-> pc, pending |-> run.pending, calls |-> <<>>, serial |-> FALSE,
                  aborted |-> run.aborted, dead |-> run.dead, skip |-> run.skip, context |-> run.context \o Results]
      BY <1>c, <2>1
    <2>3. UNCHANGED aborts /\ run.pending = <<>>
      BY <1>13 DEF EndBatch, counters, Running, RunTypes
    <2>4. /\ run.serial \in BOOLEAN /\ run.aborted \in BOOLEAN /\ run.dead \in BOOLEAN /\ run.skip \in BOOLEAN
          /\ run.aborted => aborts' > 0
      BY <1>d, <2>3 DEF RunTypes
    <2>5. run'.pc = pc /\ run'.calls = <<>> /\ run'.pending = <<>>
      BY <2>2, <2>3
    <2>6. QED
      BY <2>1, <2>2, <2>4, <2>5 DEF RunTypes
  <1>14. CASE EndTurn
    <2>1. PICK pending \in {Drained(followUps), Drained(steering)}, pc \in {"ending", "deliver"} :
             /\ run' = [run EXCEPT !.pending = pending, !.pc = pc]
             /\ pc = "ending" => pending = <<>>
      <3> DEFINE stops == run.pc = "turn" /\ steering = <<>>
      <3>1. run' = [run EXCEPT !.pending = IF stops THEN Drained(followUps) ELSE Drained(steering),
                               !.pc = IF stops /\ followUps = <<>> THEN "ending" ELSE "deliver"]
        BY <1>14 DEF EndTurn
      <3>2. CASE stops /\ followUps = <<>>
        BY <1>c, <3>1, <3>2, DrawnTyped
      <3>3. CASE ~(stops /\ followUps = <<>>)
        BY <3>1, <3>3
      <3>4. QED
        BY <3>2, <3>3
    <2>2. pending \in Seq(Messages)
      BY <1>c, <2>1, DrawnTyped
    <2>3. run' = [pc |-> pc, pending |-> pending, calls |-> run.calls, serial |-> run.serial,
                  aborted |-> run.aborted, dead |-> run.dead, skip |-> run.skip, context |-> run.context]
      BY <1>c, <2>1
    <2>4. UNCHANGED aborts /\ run.calls = <<>>
      BY <1>14 DEF EndTurn, counters, RunTypes
    <2>5. QED
      BY <1>d, <2>1, <2>2, <2>3, <2>4 DEF RunTypes
  <1>15. CASE EndRun
    BY <1>15 DEF EndRun, NoRun, RunTypes
  <1>16. QED
    BY <1>1, <1>2, <1>3, <1>4, <1>5, <1>6, <1>7, <1>8, <1>9, <1>11, <1>12, <1>13, <1>14, <1>15, WhichStep
       DEF QuietStep


LEMMA CallTypesStep ==
    ASSUME Typed, Phases, [Next]_vars
    PROVE  CallTypes'
  <1> USE DEF Typed
  <1>a. aborts \in Nat /\ aborts' \in Nat /\ aborts' >= aborts
    BY AbortsGrow DEF FlagTypes
  <1>b. ASSUME run'.calls = <<>> PROVE CallTypes'
    BY <1>b DEF CallTypes, SkippedLast
  <1>c. ASSUME run'.calls = run.calls, run.calls # <<>> => UNCHANGED <<transcript, entries>> PROVE CallTypes'
    <2>1. CASE run.calls = <<>>
      BY <1>b, <1>c, <2>1
    <2>2. CASE run.calls # <<>>
      <3>1. SkippedLast'
        BY <1>a, <1>c, <2>2 DEF CallTypes, SkippedLast
      <3>2. CalledLast(transcript)' /\ CalledLast(entries)'
        BY <1>c, <2>2 DEF CallTypes, CalledLast, Word
      <3>3. QED
        BY <3>1, <3>2 DEF CallTypes
    <2>3. QED
      BY <2>1, <2>2
  <1>d. run.pc \notin {"tools"} => run.calls = <<>>
    BY DEF RunTypes
  <1>e. phase # "running" => run.calls = <<>>
    BY <1>d DEF Phases, OneRun
  <1>f. RunShape
    BY DEF Phases, OneRun
  <1>1. CASE QuietStep
    <2>1. UNCHANGED <<transcript, entries>>
      BY <1>1, QuietKeeps
    <2>2. ASSUME NEW k, Advances(k), UNCHANGED aborts PROVE CallTypes'
      <3>1. SkippedLast' /\ run'.calls # <<>> /\ Len(run'.calls) = Len(run.calls) /\ run.calls # <<>>
        <4>1. SkippedLast
          BY DEF CallTypes
        <4>2. SkippedLast' /\ run'.calls # <<>>
          BY <2>2, <4>1, AdvancesSkips
        <4>3. Len(run'.calls) = Len(run.calls) /\ run.calls # <<>>
          BY <2>2 DEF Advances, RunTypes
        <4>4. QED
          BY <4>2, <4>3
      <3>2. CalledLast(transcript) /\ CalledLast(entries)
        BY <3>1 DEF CallTypes
      <3>3. CalledLast(transcript)' /\ CalledLast(entries)'
        BY <2>1, <3>1, <3>2 DEF CalledLast, Word
      <3>4. QED
        BY <3>1, <3>3 DEF CallTypes
    <2>3. CASE PrepareCall
      <3>1. PICK k : Advances(k)
        BY <2>3, PrepareCallAdvances
      <3>2. UNCHANGED aborts
        BY <2>3 DEF PrepareCall, counters
      <3>3. QED
        BY <2>2, <3>1, <3>2
    <2>4. ASSUME NEW k \in 1 .. CallCount, ExecuteCall(k) PROVE CallTypes'
      <3>1. UNCHANGED aborts
        BY <2>4 DEF ExecuteCall, counters
      <3>2. QED
        BY <2>2, <2>4, <3>1, ExecuteCallAdvances
    <2>5. ASSUME NEW m \in Messages, AskPrompt(m) \/ Steer(m) \/ FollowUp(m) \/ FilesRead(m) PROVE run'.calls = run.calls
      BY <2>5 DEF AskPrompt, Steer, FollowUp, FilesRead
    <2>6. CASE ClearQueue \/ BackoffEnds \/ Settled \/ UNCHANGED vars
      BY <1>c, <2>1, <2>6 DEF ClearQueue, BackoffEnds, Settled, vars
    <2>7. CASE Abort
      <3>1. run'.calls = run.calls
        BY <1>f, <2>7 DEF Abort, RunShape
      <3>2. QED
        BY <1>c, <2>1, <3>1
    <2>8. CASE EndTurn
      <3>1. run'.calls = run.calls
        BY <1>f, <2>8 DEF EndTurn, RunShape
      <3>2. QED
        BY <1>c, <2>1, <3>1
    <2>9. CASE StartPrompt \/ Continue
      BY <1>b, <2>9 DEF StartPrompt, Continue, NoRun
    <2>10. QED
      BY <1>1, <1>c, <2>1, <2>3, <2>4, <2>5, <2>6, <2>7, <2>8, <2>9 DEF QuietStep
  <1>2. CASE BeginRun \/ Request
    <2>1. run.calls = <<>>
      BY <1>2, <1>d DEF BeginRun, Request, Running
    <2>2. run'.calls = run.calls
      BY <1>2, <1>f DEF BeginRun, Request, RunShape
    <2>3. QED
      BY <1>b, <2>1, <2>2
  <1>3. CASE Answer
    <2>1. PICK answer \in Items, serial \in BOOLEAN :
             Answered(answer, serial) /\ answer.role = "assistant" /\ answer.n \in 0 .. CallCount
      BY <1>3, AnswerWrites
    <2>2. run'.calls = [k \in 1 .. answer.n |-> IF answer.note = "length" THEN "refused" ELSE "called"]
      BY <1>f, <2>1 DEF Answered, AnsweredWith, RunShape
    <2>3. \A k \in 1 .. answer.n : run'.calls[k] # "skipped"
      BY <2>2
    <2>4. Len(run'.calls) = answer.n
      BY <2>1, <2>2
    <2>5. SkippedLast'
      <3>1. run'.calls # <<>> => answer.n > 0
        BY <2>1, <2>2, <2>4
      <3>2. QED
        BY <2>1, <2>3, <2>4, <3>1 DEF SkippedLast
    <2>6. transcript' = Append(transcript, answer) /\ entries' = Append(entries, answer)
      BY <2>1 DEF Answered
    <2>7. ASSUME NEW s \in Seq(Items)
          PROVE  LET t == Append(s, answer) IN t # <<>> /\ t[Len(t)] = answer
      OBVIOUS
    <2>7a. transcript' # <<>> /\ transcript'[Len(transcript')] = answer
           /\ entries' # <<>> /\ entries'[Len(entries')] = answer
      BY <2>6, <2>7 DEF TextTypes
    <2>7b. CalledLast(transcript)' /\ CalledLast(entries)'
      BY <2>1, <2>4, <2>7a DEF CalledLast, Word
    <2>8. QED
      BY <2>5, <2>7b DEF CallTypes
  <1>4. CASE EndBatch
    BY <1>4, <1>b, <1>f DEF EndBatch, RunShape
  <1>5. CASE RecordBash
    <2>1. run'.calls = run.calls
      BY <1>5 DEF RecordBash
    <2>2. CASE active
      BY <1>5, <1>c, <2>1, <2>2 DEF RecordBash
    <2>3. CASE ~active
      BY <1>c, <1>e, <2>1, <2>3 DEF Phases, AtWork
    <2>4. QED
      BY <2>2, <2>3
  <1>6. CASE CompactFirst \/ CancelRetry \/ ContinueFails \/ NotSummarized \/ Summarized
    <2>1. UNCHANGED run /\ phase # "running"
      BY <1>6 DEF CompactFirst, CancelRetry, ContinueFails, NotSummarized, Summarized
    <2>2. QED
      BY <1>b, <1>e, <2>1
  <1>7. CASE EndRun
    BY <1>7, <1>b DEF EndRun, NoRun
  <1>8. QED
    BY <1>1, <1>2, <1>3, <1>4, <1>5, <1>6, <1>7, WhichStep

LEMMA TypedInit == Init => Typed
  <1> SUFFICES ASSUME Init PROVE Typed
    OBVIOUS
  <1>1. QueueTypes
    BY DEF Init, QueueTypes
  <1>2. TextTypes
    BY DEF Init, TextTypes
  <1>2a. FlagTypes
    <2>1. 0 \in 0 .. MessageCount /\ 0 \in 0 .. MaxRetries /\ 0 \in Nat
      OBVIOUS
    <2>2. QED
      BY <2>1, Zenon DEF Init, FlagTypes
  <1>2b. CutTypes
    BY DEF Init, CutTypes
  <1>3. RunTypes /\ CallTypes
    BY DEF Init, NoRun, RunTypes, CallTypes, SkippedLast
  <1>4. QED
    BY <1>1, <1>2, <1>2a, <1>2b, <1>3 DEF Typed

LEMMA TypedStep == Typed /\ Phases /\ [Next]_vars => Typed'
  <1> SUFFICES ASSUME Typed, Phases, [Next]_vars PROVE Typed'
    OBVIOUS
  <1>1. QueueTypes'
    BY QueueTypesStep DEF Typed
  <1>2. QED
    BY <1>1, TextTypesStep, FlagTypesStep, CutTypesStep, RunTypesStep, CallTypesStep DEF Typed

LEMMA TypedIsTypeOK == Typed /\ Phases => TypeOK
  <1> SUFFICES ASSUME Typed, Phases PROVE TypeOK
    OBVIOUS
  <1>1. bashes \in Seq(Items)
    BY BashesTyped DEF Typed, TextTypes
  <1>2. active <=> phase \in {"running", "backoff", "continuing"} \/ (phase = "compacting" /\ compaction.why \notin {"prompt", "reprompt"})
    BY DEF Phases, AtWork
  <1>3. prompting # None <=> phase \in {"asked", "compacted"} \/ (phase = "compacting" /\ compaction.why \in {"prompt", "reprompt"})
    BY DEF Phases, InPreflight
  <1>4. active \in BOOLEAN /\ (run.pc # "none" <=> phase = "running")
    BY DEF Phases, AtWork, OneRun
  <1>5. QED
    BY <1>1, <1>2, <1>3, <1>4 DEF TypeOK, Typed, QueueTypes, TextTypes, FlagTypes, CutTypes

(***************************************************************************)
(* The parts of a session always agree on who works, and no command of the *)
(* user is held back by a session that rests (agent-session.ts,            *)
(* recordBashResult and flushPendingBashMessages).                         *)
(***************************************************************************)
THEOREM SessionTypeCorrect == Spec => []TypeOK
  BY PhasesInit, PhasesStep, TypedInit, TypedStep, TypedIsTypeOK, PTL DEF Spec


-----------------------------------------------------------------------------
(***************************************************************************)
(* The results of tool calls, in any list of messages.                     *)
(***************************************************************************)
Extends(s, t) == Len(s) <= Len(t) /\ \A i \in 1 .. Len(s) : t[i] = s[i]

\* Nothing behind s in t is an answer or a result.
Plainly(s, t) == \A i \in Len(s) + 1 .. Len(t) : t[i].role \notin {"assistant", "result"}

LEMMA ExtendsIs ==
    ASSUME NEW s \in Seq(Items), NEW more \in Seq(Items), NEW e \in Items
    PROVE  /\ s \o more \in Seq(Items) /\ Extends(s, s \o more) /\ Len(s \o more) = Len(s) + Len(more)
           /\ \A i \in Len(s) + 1 .. Len(s) + Len(more) : (s \o more)[i] = more[i - Len(s)] /\ i - Len(s) \in 1 .. Len(more)
           /\ Append(s, e) \in Seq(Items) /\ Extends(s, Append(s, e)) /\ Len(Append(s, e)) = Len(s) + 1
           /\ Append(s, e)[Len(s) + 1] = e
  <1>1. Len(s) \in Nat /\ Len(more) \in Nat
    OBVIOUS
  <1>2. s \o more \in Seq(Items) /\ Len(s \o more) = Len(s) + Len(more) /\ \A i \in 1 .. Len(s) : (s \o more)[i] = s[i]
    BY <1>1
  <1>3. \A i \in Len(s) + 1 .. Len(s) + Len(more) : (s \o more)[i] = more[i - Len(s)] /\ i - Len(s) \in 1 .. Len(more)
    BY <1>1
  <1>4. /\ Append(s, e) \in Seq(Items) /\ Len(Append(s, e)) = Len(s) + 1 /\ Append(s, e)[Len(s) + 1] = e
        /\ \A i \in 1 .. Len(s) : Append(s, e)[i] = s[i]
    BY <1>1
  <1>5. QED
    BY <1>1, <1>2, <1>3, <1>4 DEF Extends

LEMMA AnswersOfIs ==
    ASSUME NEW s \in Seq(Items)
    PROVE  /\ Len(s) \in Nat /\ DOMAIN s = 1 .. Len(s)
           /\ Answers(s) = {i \in 1 .. Len(s) : s[i].role = "assistant"}
           /\ \A i \in 1 .. Len(s) : s[i].role = "result" => s[i].of \in 1 .. CallCount
           /\ \A i \in 1 .. Len(s) : s[i].role = "assistant" => s[i].n \in 0 .. CallCount
  <1>1. Len(s) \in Nat /\ DOMAIN s = 1 .. Len(s) /\ \A i \in 1 .. Len(s) : s[i] \in Items
    OBVIOUS
  <1>2. \A e \in Items : e.role = "result" => e.of \in 1 .. CallCount
    BY DEF Items
  <1>3. QED
    BY <1>1, <1>2, AnswerIs DEF Answers

LEMMA BlockExtends ==
    ASSUME NEW s \in Seq(Items), NEW t \in Seq(Items), Extends(s, t), NEW a, NEW n, Block(s, a, n)
    PROVE  Block(t, a, n)
  <1> SUFFICES ASSUME NEW k \in 1 .. n PROVE a + k \in DOMAIN t /\ t[a + k].role = "result" /\ t[a + k].of = k
    BY DEF Block
  <1> DEFINE i == a + k
  <1>1. i \in DOMAIN s /\ s[i].role = "result" /\ s[i].of = k
    BY DEF Block
  <1> HIDE DEF i
  <1>2. i \in DOMAIN t /\ t[i] = s[i]
    BY <1>1, AnswersOfIs DEF Extends
  <1>3. QED
    BY <1>1, <1>2 DEF i

LEMMA BlocksExtend ==
    ASSUME NEW s \in Seq(Items), NEW t \in Seq(Items), Extends(s, t), Blocks(s),
           \A i \in Len(s) + 1 .. Len(t) : t[i].role = "result" =>
              \E a \in Answers(t) : a + t[i].of = i /\ Block(t, a, t[i].of)
    PROVE  Blocks(t)
  <1> SUFFICES ASSUME NEW i \in 1 .. Len(t), t[i].role = "result"
               PROVE  \E a \in Answers(t) : a + t[i].of = i /\ Block(t, a, t[i].of)
    BY DEF Blocks
  <1>1. Len(s) \in Nat /\ Len(t) \in Nat /\ Len(s) <= Len(t)
    BY DEF Extends
  <1>2. CASE i \in Len(s) + 1 .. Len(t)
    BY <1>2
  <1>3. CASE i \in 1 .. Len(s)
    <2>1. t[i] = s[i]
      BY <1>3 DEF Extends
    <2>2. PICK a \in Answers(s) : a + s[i].of = i /\ Block(s, a, s[i].of)
      BY <1>3, <2>1 DEF Blocks
    <2>3. a \in 1 .. Len(s) /\ s[a].role = "assistant"
      BY <2>2, AnswersOfIs
    <2>4. a \in 1 .. Len(t) /\ t[a] = s[a]
      BY <1>1, <2>3 DEF Extends
    <2>5. a \in Answers(t)
      BY <2>3, <2>4, AnswersOfIs
    <2>6. Block(t, a, s[i].of)
      BY <2>2, BlockExtends
    <2>7. QED
      BY <2>1, <2>2, <2>5, <2>6
  <1>4. QED
    BY <1>1, <1>2, <1>3

LEMMA FullExtends ==
    ASSUME NEW s \in Seq(Items), NEW t \in Seq(Items), Extends(s, t), NEW busy \in BOOLEAN, NEW then \in BOOLEAN,
           Full(s, busy),
           \A a \in Answers(t) : (a = Len(s) /\ busy) \/ a > Len(s) => Block(t, a, t[a].n) \/ (then /\ a = Len(t))
    PROVE  Full(t, then)
  <1> SUFFICES ASSUME NEW a \in Answers(t) PROVE Block(t, a, t[a].n) \/ (then /\ a = Len(t))
    BY DEF Full
  <1>1. Len(s) \in Nat /\ a \in Nat /\ a \in 1 .. Len(t) /\ t[a].role = "assistant"
    BY AnswersOfIs
  <1>2. CASE a > Len(s) \/ (a = Len(s) /\ busy)
    BY <1>2
  <1>3. CASE a <= Len(s) /\ ~(a = Len(s) /\ busy)
    <2>1. a \in 1 .. Len(s) /\ t[a] = s[a]
      BY <1>1, <1>3 DEF Extends
    <2>2. a \in Answers(s)
      BY <1>1, <2>1, AnswersOfIs
    <2>3. Block(s, a, s[a].n)
      BY <1>3, <2>2 DEF Full
    <2>4. QED
      BY <2>1, <2>3, BlockExtends
  <1>4. QED
    BY <1>1, <1>2, <1>3

\* Messages of other kinds change nothing.
LEMMA PlainSound ==
    ASSUME NEW s \in Seq(Items), NEW t \in Seq(Items), Extends(s, t), Plainly(s, t)
    PROVE  /\ Blocks(s) => Blocks(t)
           /\ Full(s, FALSE) => Full(t, FALSE)
  <1>1. ASSUME Blocks(s) PROVE Blocks(t)
    BY <1>1, BlocksExtend DEF Plainly
  <1>2. ASSUME Full(s, FALSE) PROVE Full(t, FALSE)
    <2>1. ASSUME NEW a \in Answers(t), a > Len(s) PROVE FALSE
      <3>1. a \in Len(s) + 1 .. Len(t) /\ t[a].role = "assistant"
        BY <2>1, AnswersOfIs
      <3>2. QED
        BY <3>1 DEF Plainly
    <2>2. QED
      BY <1>2, <2>1, FullExtends
  <1>3. QED
    BY <1>1, <1>2

\* An answer is added, with work on its calls if it has some.
LEMMA AnswerSound ==
    ASSUME NEW s \in Seq(Items), NEW e \in Items, e.role = "assistant", NEW busy \in BOOLEAN, e.n > 0 => busy
    PROVE  /\ Blocks(s) => Blocks(Append(s, e))
           /\ Full(s, FALSE) => Full(Append(s, e), busy)
  <1> DEFINE t == Append(s, e)
  <1>1. t \in Seq(Items) /\ Extends(s, t) /\ Len(t) = Len(s) + 1 /\ t[Len(s) + 1] = e /\ Len(s) \in Nat
    BY ExtendsIs
  <1> HIDE DEF t
  <1>2. ASSUME Blocks(s) PROVE Blocks(t)
    <2>1. \A i \in Len(s) + 1 .. Len(t) : t[i].role # "result"
      BY <1>1
    <2>2. QED
      BY <1>1, <1>2, <2>1, BlocksExtend
  <1>3. ASSUME Full(s, FALSE) PROVE Full(t, busy)
    <2>1. ASSUME NEW a \in Answers(t), a > Len(s) PROVE Block(t, a, t[a].n) \/ (busy /\ a = Len(t))
      <3>1. a = Len(t) /\ t[a] = e
        BY <1>1, <2>1, AnswersOfIs
      <3>2. CASE e.n > 0
        BY <3>1, <3>2
      <3>3. CASE ~(e.n > 0)
        <4>1. e.n \in 0 .. CallCount
          BY AnswerIs
        <4>2. e.n = 0
          BY <3>3, <4>1
        <4>3. QED
          BY <3>1, <4>2 DEF Block
      <3>4. QED
        BY <3>2, <3>3
    <2>2. CASE busy = TRUE
      <3>1. Full(t, TRUE)
        BY <1>1, <1>3, <2>1, <2>2, FullExtends
      <3>2. QED
        BY <2>2, <3>1
    <2>3. CASE busy = FALSE
      <3>1. Full(t, FALSE)
        BY <1>1, <1>3, <2>1, <2>3, FullExtends
      <3>2. QED
        BY <2>3, <3>1
    <2>4. QED
      BY <2>2, <2>3
  <1>4. QED
    BY <1>2, <1>3 DEF t

\* The results of the last answer are added, all of them unless somebody aborted.
LEMMA ResultsSound ==
    ASSUME NEW s \in Seq(Items), Word(s), NEW more \in Seq(Items),
           \A k \in 1 .. Len(more) : more[k].role = "result" /\ more[k].of = k
    PROVE  /\ Blocks(s) => Blocks(s \o more)
           /\ Full(s, TRUE) /\ s[Len(s)].n = Len(more) => Full(s \o more, FALSE)
  <1> DEFINE t == s \o more
             L == Len(s)
  <1>1. /\ t \in Seq(Items) /\ Extends(s, t) /\ Len(t) = L + Len(more) /\ L \in Nat /\ Len(more) \in Nat
        /\ \A i \in L + 1 .. L + Len(more) : t[i] = more[i - L] /\ i - L \in 1 .. Len(more)
    <2>1. s # <<>> /\ s[L] \in Items
      BY DEF Word
    <2>2. QED
      BY <2>1, ExtendsIs
  <1> HIDE DEF t
  <1>2. L \in 1 .. Len(s) /\ s[L].role = "assistant" /\ L \in 1 .. Len(t) /\ t[L] = s[L]
    BY <1>1 DEF Word, Extends
  <1>3. L \in Answers(t)
    BY <1>1, <1>2, AnswersOfIs
  <1>4. ASSUME NEW k \in 1 .. Len(more) PROVE L + k \in DOMAIN t /\ t[L + k].role = "result" /\ t[L + k].of = k
    <2> DEFINE i == L + k
    <2>1. i \in L + 1 .. L + Len(more) /\ i - L = k
      BY <1>1
    <2> HIDE DEF i
    <2>2. t[i] = more[k]
      BY <1>1, <2>1
    <2>3. i \in DOMAIN t
      BY <1>1, <2>1
    <2>4. QED
      BY <2>2, <2>3 DEF i
  <1>5. ASSUME Blocks(s) PROVE Blocks(t)
    <2>1. ASSUME NEW i \in L + 1 .. Len(t)
          PROVE  \E a \in Answers(t) : a + t[i].of = i /\ Block(t, a, t[i].of)
      <3>1. PICK k \in 1 .. Len(more) : k = i - L
        BY <1>1, <2>1
      <3>2. t[i] = more[k] /\ t[i].of = k /\ L + k = i
        BY <1>1, <2>1, <3>1
      <3>3. \A j \in 1 .. k : j \in 1 .. Len(more)
        BY <1>1, <3>1
      <3>4. Block(t, L, k)
        BY <1>4, <3>3 DEF Block
      <3>5. QED
        BY <1>3, <3>2, <3>4
    <2>2. QED
      BY <1>1, <1>5, <2>1, BlocksExtend
  <1>6. ASSUME Full(s, TRUE), s[L].n = Len(more) PROVE Full(t, FALSE)
    <2>1. ASSUME NEW a \in Answers(t), a = L \/ a > L PROVE Block(t, a, t[a].n)
      <3>1. CASE a = L
        BY <1>2, <1>4, <1>6, <3>1 DEF Block
      <3>2. CASE a > L
        <4>1. a \in L + 1 .. L + Len(more) /\ t[a].role = "assistant"
          BY <1>1, <3>2, AnswersOfIs
        <4>2. QED
          BY <1>1, <4>1
      <3>3. QED
        BY <2>1, <3>1, <3>2
    <2>2. QED
      BY <1>1, <1>6, <2>1, FullExtends
  <1>7. QED
    BY <1>5, <1>6 DEF t


\* A last answer is taken away.
LEMMA TrimmedSound ==
    ASSUME NEW s \in Seq(Items)
    PROVE  /\ Blocks(s) => Blocks(WithoutAnswer(s))
           /\ Full(s, FALSE) => Full(WithoutAnswer(s), FALSE)
  <1> DEFINE t == WithoutAnswer(s)
  <1>1. CASE ~Word(s)
    BY <1>1, TrimmedTyped
  <1>2. CASE Word(s)
    <2>1. /\ t \in Seq(Items) /\ Len(s) \in Nat \ {0} /\ Len(t) = Len(s) - 1
          /\ \A i \in 1 .. Len(s) - 1 : t[i] = s[i]
          /\ s[Len(s)].role = "assistant"
      BY <1>2, TrimmedTyped DEF Word
    <2> HIDE DEF t
    <2>2. ASSUME NEW a, NEW n, Block(s, a, n) PROVE Block(t, a, n)
      <3> SUFFICES ASSUME NEW k \in 1 .. n PROVE a + k \in DOMAIN t /\ t[a + k].role = "result" /\ t[a + k].of = k
        BY DEF Block
      <3> DEFINE i == a + k
      <3>1. i \in DOMAIN s /\ s[i].role = "result" /\ s[i].of = k
        BY <2>2 DEF Block
      <3> HIDE DEF i
      <3>2. i \in 1 .. Len(s) /\ i # Len(s)
        BY <2>1, <3>1, AnswersOfIs
      <3>3. i \in 1 .. Len(s) - 1
        BY <2>1, <3>2
      <3>4. i \in DOMAIN t /\ t[i] = s[i]
        BY <2>1, <3>3, AnswersOfIs
      <3>5. QED
        BY <3>1, <3>4 DEF i
    <2>3. ASSUME Blocks(s) PROVE Blocks(t)
      <3> SUFFICES ASSUME NEW i \in 1 .. Len(t), t[i].role = "result"
                   PROVE  \E a \in Answers(t) : a + t[i].of = i /\ Block(t, a, t[i].of)
        BY <2>1 DEF Blocks
      <3>1. i \in 1 .. Len(s) /\ t[i] = s[i] /\ i < Len(s)
        BY <2>1
      <3>2. PICK a \in Answers(s) : a + s[i].of = i /\ Block(s, a, s[i].of)
        BY <2>3, <3>1, AnswersOfIs DEF Blocks
      <3>3. s[i].of \in 1 .. CallCount /\ a \in 1 .. Len(s) /\ s[a].role = "assistant"
        BY <3>1, <3>2, AnswersOfIs
      <3>4. a \in 1 .. Len(s) - 1
        BY <2>1, <3>1, <3>2, <3>3
      <3>5. a \in Answers(t)
        BY <2>1, <3>3, <3>4, AnswersOfIs
      <3>6. QED
        BY <2>2, <3>1, <3>2, <3>5
    <2>4. ASSUME Full(s, FALSE) PROVE Full(t, FALSE)
      <3> SUFFICES ASSUME NEW a \in Answers(t) PROVE Block(t, a, t[a].n)
        BY DEF Full
      <3>1. a \in 1 .. Len(s) - 1 /\ t[a].role = "assistant"
        BY <2>1, AnswersOfIs
      <3>2. t[a] = s[a] /\ a \in 1 .. Len(s)
        BY <2>1, <3>1
      <3>3. a \in Answers(s)
        BY <3>1, <3>2, AnswersOfIs
      <3>4. Block(s, a, s[a].n)
        BY <2>4, <3>3 DEF Full
      <3>5. QED
        BY <2>2, <3>2, <3>4
    <2>5. QED
      BY <2>3, <2>4 DEF t
  <1>3. QED
    BY <1>1, <1>2

\* The entries from a cut on, which is at no result.
LEMMA RebuiltSound ==
    ASSUME TextTypes, NEW cut \in 1 .. Len(entries), entries[cut].role # "result"
    PROVE  /\ Blocks(entries) => Blocks(Rebuilt(cut))
           /\ Full(entries, FALSE) => Full(Rebuilt(cut), FALSE)
  <1> DEFINE t == Rebuilt(cut)
  <1>1. /\ t \in Seq(Items) /\ Len(t) = Len(entries) - cut + 2 /\ t[1].role = "compaction"
        /\ \A i \in 2 .. Len(t) : t[i] = entries[i + cut - 2]
    BY RebuiltIs DEF TextTypes
  <1>2. entries \in Seq(Items) /\ Len(entries) \in Nat /\ cut \in Nat \ {0} /\ cut <= Len(entries)
        /\ DOMAIN entries = 1 .. Len(entries) /\ DOMAIN t = 1 .. Len(t)
    BY <1>1 DEF TextTypes
  <1> HIDE DEF t
  <1>3. ASSUME NEW a \in Answers(entries), a >= cut PROVE a - cut + 2 \in Answers(t) /\ t[a - cut + 2] = entries[a]
    <2> DEFINE b == a - cut + 2
    <2>1. a \in 1 .. Len(entries) /\ entries[a].role = "assistant"
      BY <1>2, AnswersOfIs
    <2>2. b \in 2 .. Len(t) /\ b + cut - 2 = a
      BY <1>1, <1>2, <1>3, <2>1
    <2> HIDE DEF b
    <2>3. b \in 1 .. Len(t) /\ t[b] = entries[a]
      BY <1>1, <2>2
    <2>4. b \in Answers(t)
      BY <1>2, <2>1, <2>3 DEF Answers
    <2>5. QED
      BY <2>3, <2>4 DEF b
  <1>4. ASSUME NEW a \in 1 .. Len(entries), a >= cut, NEW n, Block(entries, a, n) PROVE Block(t, a - cut + 2, n)
    <2> SUFFICES ASSUME NEW k \in 1 .. n
                 PROVE  (a - cut + 2) + k \in DOMAIN t
                        /\ t[(a - cut + 2) + k].role = "result" /\ t[(a - cut + 2) + k].of = k
      BY DEF Block
    <2> DEFINE i == a + k
               j == (a - cut + 2) + k
    <2>1. i \in DOMAIN entries /\ entries[i].role = "result" /\ entries[i].of = k
      BY <1>4 DEF Block
    <2>2. k \in Nat \ {0} /\ a \in Nat
      BY <1>2
    <2>3. i \in 1 .. Len(entries) /\ i > a
      BY <1>2, <2>1, <2>2
    <2>4. j \in 2 .. Len(t) /\ j + cut - 2 = i
      BY <1>1, <1>2, <1>4, <2>2, <2>3
    <2> HIDE DEF i, j
    <2>5. t[j] = entries[i] /\ j \in DOMAIN t
      BY <1>1, <1>2, <2>4
    <2>6. QED
      BY <2>1, <2>5 DEF j
  <1>5. ASSUME Blocks(entries) PROVE Blocks(t)
    <2> SUFFICES ASSUME NEW i \in 1 .. Len(t), t[i].role = "result"
                 PROVE  \E a \in Answers(t) : a + t[i].of = i /\ Block(t, a, t[i].of)
      BY <1>2 DEF Blocks
    <2> DEFINE j == i + cut - 2
    <2>1. i \in 2 .. Len(t)
      BY <1>1, <1>2
    <2>2. t[i] = entries[j] /\ j \in 1 .. Len(entries) /\ j >= cut
      BY <1>1, <1>2, <2>1
    <2>3. j - cut + 2 = i
      BY <1>2, <2>1
    <2> HIDE DEF j
    <2>4. PICK a \in Answers(entries) : a + entries[j].of = j /\ Block(entries, a, entries[j].of)
      BY <1>2, <1>5, <2>2 DEF Blocks
    <2>5. a \in 1 .. Len(entries) /\ entries[j].of \in 1 .. CallCount
      BY <1>2, <2>2, AnswersOfIs
    <2>6. a >= cut
      <3> SUFFICES ASSUME a < cut PROVE FALSE
        BY <1>2, <2>5
      <3> DEFINE k == cut - a
      <3>1. k \in 1 .. entries[j].of /\ a + k = cut
        BY <1>2, <2>2, <2>4, <2>5
      <3>2. entries[a + k].role = "result"
        BY <2>4, <3>1 DEF Block
      <3>3. QED
        BY <3>1, <3>2
    <2>7. (a - cut + 2) + t[i].of = i
      BY <1>2, <2>2, <2>3, <2>4, <2>5
    <2>8. Block(t, a - cut + 2, t[i].of)
      BY <1>4, <2>2, <2>4, <2>5, <2>6
    <2>9. a - cut + 2 \in Answers(t)
      BY <1>3, <2>6
    <2>10. QED
      BY <2>7, <2>8, <2>9
  <1>6. ASSUME Full(entries, FALSE) PROVE Full(t, FALSE)
    <2> SUFFICES ASSUME NEW b \in Answers(t) PROVE Block(t, b, t[b].n)
      BY DEF Full
    <2> DEFINE a == b + cut - 2
    <2>1. b \in 1 .. Len(t) /\ t[b].role = "assistant"
      BY <1>1, AnswersOfIs
    <2>2. b \in 2 .. Len(t)
      BY <1>1, <2>1
    <2>3. a \in 1 .. Len(entries) /\ a >= cut /\ a - cut + 2 = b /\ t[b] = entries[a]
      BY <1>1, <1>2, <2>2
    <2> HIDE DEF a
    <2>4. a \in Answers(entries)
      BY <1>2, <2>1, <2>3, AnswersOfIs
    <2>5. Block(entries, a, entries[a].n)
      BY <1>6, <2>4 DEF Full
    <2>6. Block(t, a - cut + 2, entries[a].n)
      BY <1>4, <2>3, <2>5
    <2>7. QED
      BY <2>3, <2>6
  <1>7. QED
    BY <1>5, <1>6 DEF t


\* Lists without work on calls: what holds of the old one holds of the new one.
Sounds(s) == Blocks(s) /\ (aborts = 0 => Full(s, FALSE))

LEMMA IdleSound ==
    ASSUME ~Busy', aborts \in Nat, aborts' \in Nat, aborts' >= aborts, Sounds(transcript'), Sounds(entries')
    PROVE  BothSound'
  <1>1. aborts' = 0 => aborts = 0
    OBVIOUS
  <1>2. Busy' = FALSE
    BY DEF Busy
  <1>3. QED
    BY <1>1, <1>2 DEF BothSound, Sound, Sounds

LEMMA PlainSounds ==
    ASSUME NEW s \in Seq(Items), NEW t \in Seq(Items), Extends(s, t), Plainly(s, t), Sounds(s)
    PROVE  Sounds(t)
  BY PlainSound DEF Sounds

LEMMA BashesPlain ==
    ASSUME NEW s \in Seq(Items), TextTypes
    PROVE  /\ s \o bashes \in Seq(Items) /\ Extends(s, s \o bashes) /\ Plainly(s, s \o bashes)
           /\ \A b \in Bashes : Append(s, b) \in Seq(Items) /\ Extends(s, Append(s, b)) /\ Plainly(s, Append(s, b))
  <1>1. bashes \in Seq(Items) /\ Len(bashes) \in Nat /\ \A i \in 1 .. Len(bashes) : bashes[i] \in Bashes
    BY BashesTyped DEF TextTypes
  <1>2. s \o bashes \in Seq(Items) /\ Extends(s, s \o bashes) /\ Len(s \o bashes) = Len(s) + Len(bashes)
        /\ \A i \in Len(s) + 1 .. Len(s) + Len(bashes) : (s \o bashes)[i] = bashes[i - Len(s)] /\ i - Len(s) \in 1 .. Len(bashes)
    <2>1. \E e : e \in Items
      BY ItemsTyped
    <2>2. QED
      BY <1>1, <2>1, ExtendsIs
  <1>3. Plainly(s, s \o bashes)
    BY <1>1, <1>2, BashIs DEF Plainly
  <1>4. ASSUME NEW b \in Bashes PROVE Append(s, b) \in Seq(Items) /\ Extends(s, Append(s, b)) /\ Plainly(s, Append(s, b))
    <2>1. b \in Items /\ b.role = "bash"
      BY BashesTyped, BashIs
    <2>2. /\ Append(s, b) \in Seq(Items) /\ Extends(s, Append(s, b)) /\ Len(Append(s, b)) = Len(s) + 1
          /\ Append(s, b)[Len(s) + 1] = b /\ Len(s) \in Nat
      BY <2>1, ExtendsIs
    <2>3. Plainly(s, Append(s, b))
      BY <2>1, <2>2 DEF Plainly
    <2>4. QED
      BY <2>2, <2>3
  <1>5. QED
    BY <1>2, <1>3, <1>4

LEMMA LeavesSounds ==
    ASSUME TextTypes, NEW messages \in Seq(Items), NEW file \in Seq(Items), Leaves(messages, file),
           Sounds(messages), Sounds(file)
    PROVE  Sounds(transcript') /\ Sounds(entries')
  <1>1. CASE transcript' = messages /\ entries' = file
    BY <1>1
  <1>2. CASE transcript' = messages \o bashes /\ entries' = file \o bashes
    <2>1. Sounds(messages \o bashes)
      BY BashesPlain, PlainSounds
    <2>2. Sounds(file \o bashes)
      BY BashesPlain, PlainSounds
    <2>3. QED
      BY <1>2, <2>1, <2>2
  <1>3. QED
    BY <1>1, <1>2 DEF Leaves

LEMMA TrimmedSounds ==
    ASSUME NEW s \in Seq(Items), Sounds(s)
    PROVE  WithoutAnswer(s) \in Seq(Items) /\ Sounds(WithoutAnswer(s))
  BY TrimmedSound, TrimmedTyped DEF Sounds

LEMMA DeliveredPlain ==
    ASSUME NEW s \in Seq(Items), NEW more \in Seq(Items), \A i \in 1 .. Len(more) : more[i].role = "user"
    PROVE  s \o more \in Seq(Items) /\ Extends(s, s \o more) /\ Plainly(s, s \o more)
  <1>1. \E e : e \in Items
    BY ItemsTyped
  <1>2. /\ s \o more \in Seq(Items) /\ Extends(s, s \o more) /\ Len(s \o more) = Len(s) + Len(more)
        /\ \A i \in Len(s) + 1 .. Len(s) + Len(more) : (s \o more)[i] = more[i - Len(s)] /\ i - Len(s) \in 1 .. Len(more)
    BY <1>1, ExtendsIs
  <1>3. QED
    BY <1>2 DEF Plainly

\* The run is at work on calls only while the phase of its calls lasts.
LEMMA BusyIs == Typed => (Busy <=> run.pc = "tools")
  BY DEF Typed, RunTypes, Busy

LEMMA QuietBusy ==
    ASSUME Typed, Typed', Phases, QuietStep
    PROVE  Busy' = Busy
  <1>1. (Busy <=> run.pc = "tools") /\ (Busy <=> run.pc = "tools")'
    BY DEF Typed, RunTypes, Busy
  <1>2. run'.pc = "tools" <=> run.pc = "tools"
    <2> USE DEF Phases, OneRun, RunShape
    <2>1. ASSUME NEW m \in Messages, AskPrompt(m) \/ Steer(m) \/ FollowUp(m) \/ FilesRead(m) PROVE run' = run
      BY <2>1 DEF AskPrompt, Steer, FollowUp, FilesRead
    <2>2. CASE ClearQueue \/ BackoffEnds \/ Settled \/ UNCHANGED vars
      BY <2>2 DEF ClearQueue, BackoffEnds, Settled, vars
    <2>3. CASE PrepareCall \/ Abort
      BY <2>3 DEF PrepareCall, Abort
    <2>4. ASSUME NEW k \in 1 .. CallCount, ExecuteCall(k) PROVE run'.pc = run.pc
      BY <2>4 DEF ExecuteCall
    <2>5. CASE EndTurn
      BY <2>5 DEF EndTurn
    <2>6. CASE StartPrompt \/ Continue
      BY <2>6 DEF StartPrompt, Continue, NoRun
    <2>7. QED
      BY <2>1, <2>2, <2>3, <2>4, <2>5, <2>6 DEF QuietStep
  <1>3. QED
    BY <1>1, <1>2 DEF Busy

\* The steps that a session takes without a run.
AloneStep == CompactFirst \/ EndRun \/ CancelRetry \/ ContinueFails \/ NotSummarized \/ Summarized

LEMMA AloneBusy ==
    ASSUME Typed, Phases, AloneStep
    PROVE  ~Busy /\ ~Busy'
  <1>1. CASE EndRun
    BY <1>1, BusyIs DEF EndRun, Running, NoRun, Busy
  <1>2. CASE CompactFirst \/ CancelRetry \/ ContinueFails \/ NotSummarized \/ Summarized
    <2>1. UNCHANGED run /\ phase # "running"
      BY <1>2 DEF CompactFirst, CancelRetry, ContinueFails, NotSummarized, Summarized
    <2>2. ~Busy
      BY <2>1, BusyIs DEF Phases, OneRun
    <2>3. QED
      BY <2>1, <2>2 DEF Busy
  <1>3. QED
    BY <1>1, <1>2 DEF AloneStep

LEMMA SoundStep ==
    ASSUME Typed, Typed', Phases, BothSound, [Next]_vars
    PROVE  BothSound'
  <1>a. aborts \in Nat /\ aborts' \in Nat /\ aborts' >= aborts
    BY AbortsGrow DEF Typed, FlagTypes
  <1>b. TextTypes /\ transcript \in Seq(Items) /\ entries \in Seq(Items) /\ Len(transcript) \in Nat /\ Len(entries) \in Nat
    BY DEF Typed, TextTypes
  <1>c. ASSUME ~Busy PROVE Sounds(transcript) /\ Sounds(entries)
    <2>1. Busy = FALSE
      BY <1>c DEF Busy
    <2>2. QED
      BY <2>1 DEF BothSound, Sound, Sounds
  <1>d. ASSUME ~Busy', Sounds(transcript'), Sounds(entries') PROVE BothSound'
    BY <1>a, <1>d, IdleSound
  <1>1. CASE QuietStep
    <2>1. UNCHANGED <<transcript, entries>> /\ Busy' = Busy
      BY <1>1, <1>b, QuietKeeps, QuietBusy
    <2>2. aborts' = 0 => aborts = 0
      BY <1>a
    <2>3. QED
      BY <2>1, <2>2 DEF BothSound, Sound
  <1>2. CASE BeginRun \/ Request
    <2>1. ~Busy
      BY <1>2, BusyIs DEF BeginRun, Request, Running
    <2>2. ~Busy'
      BY <1>2, <2>1 DEF BeginRun, Request, Busy, Phases, OneRun, RunShape
    <2>3. transcript' = transcript \o Delivered /\ entries' = entries \o Filed
      BY <1>2 DEF BeginRun, Request, Deliver
    <2>4. Sounds(transcript \o Delivered) /\ Sounds(entries \o Filed)
      <3>1. /\ Delivered \in Seq(Items) /\ \A i \in 1 .. Len(Delivered) : Delivered[i].role = "user"
            /\ Filed \in Seq(Items) /\ \A i \in 1 .. Len(Filed) : Filed[i].role = "user"
        BY DeliveredIs DEF Typed
      <3>2. Sounds(transcript) /\ Sounds(entries)
        BY <1>c, <2>1
      <3>3. Sounds(transcript \o Delivered)
        BY <1>b, <3>1, <3>2, DeliveredPlain, PlainSounds
      <3>4. Sounds(entries \o Filed)
        BY <1>b, <3>1, <3>2, DeliveredPlain, PlainSounds
      <3>5. QED
        BY <3>3, <3>4
    <2>5. QED
      BY <1>d, <2>2, <2>3, <2>4
  <1>3. CASE Answer
    <2>1. PICK answer \in Items, serial \in BOOLEAN :
             Answered(answer, serial) /\ answer.role = "assistant" /\ answer.n \in 0 .. CallCount
      BY <1>3, <1>b, AnswerWrites
    <2>2. transcript' = Append(transcript, answer) /\ entries' = Append(entries, answer) /\ UNCHANGED aborts
      BY <1>3, <2>1 DEF Answered, Answer, counters
    <2>3. run'.calls = [k \in 1 .. answer.n |-> IF answer.note = "length" THEN "refused" ELSE "called"]
      BY <2>1 DEF Answered, AnsweredWith, Phases, OneRun, RunShape
    <2>4. answer.n > 0 => Busy'
      <3>1. Len(run'.calls) = answer.n
        BY <2>1, <2>3
      <3>2. QED
        BY <3>1 DEF Busy
    <2>5. Busy' \in BOOLEAN
      BY DEF Busy
    <2>6. Sounds(transcript) /\ Sounds(entries)
      BY <1>3, <1>c, BusyIs DEF Answer, Running
    <2>7. ASSUME NEW s \in Seq(Items), Sounds(s)
          PROVE  Blocks(Append(s, answer)) /\ (aborts = 0 => Full(Append(s, answer), Busy'))
      <3> DEFINE b == Busy'
      <3>1. b \in BOOLEAN /\ (answer.n > 0 => b)
        BY <2>4, <2>5
      <3> HIDE DEF b
      <3>2. (Blocks(s) => Blocks(Append(s, answer))) /\ (Full(s, FALSE) => Full(Append(s, answer), b))
        BY <2>1, <3>1, AnswerSound
      <3>3. QED
        BY <2>7, <3>2 DEF Sounds, b
    <2>8. QED
      BY <1>b, <2>2, <2>6, <2>7 DEF BothSound, Sound
  <1>4. CASE EndBatch
    <2>1. Busy /\ run.calls # <<>>
      BY <1>4, BusyIs DEF EndBatch, Running, Busy
    <2>2. ~Busy'
      BY <1>4 DEF EndBatch, Busy, Phases, OneRun, RunShape
    <2>3. transcript' = transcript \o Results /\ entries' = entries \o Results /\ UNCHANGED aborts
      BY <1>4 DEF EndBatch, counters
    <2>4. PICK n \in 1 .. Len(run.calls) :
             /\ Results \in Seq(Items) /\ Len(Results) = n
             /\ \A k \in 1 .. n : Results[k].role = "result" /\ Results[k].of = k
             /\ aborts = 0 => n = Len(run.calls)
      BY <1>4, ResultsAre DEF Typed
    <2>5. CalledLast(transcript) /\ CalledLast(entries)
      BY <2>1 DEF Typed, CallTypes
    <2>6. ASSUME NEW s \in Seq(Items), CalledLast(s), Sound(s) PROVE Sounds(s \o Results)
      <3>1. (Blocks(s) => Blocks(s \o Results)) /\ (Full(s, TRUE) /\ s[Len(s)].n = Len(Results) => Full(s \o Results, FALSE))
        BY <2>4, <2>6, ResultsSound DEF CalledLast
      <3>2. Busy = TRUE
        BY <2>1 DEF Busy
      <3>3. Blocks(s) /\ (aborts = 0 => Full(s, TRUE))
        BY <2>6, <3>2 DEF Sound
      <3>4. aborts = 0 => s[Len(s)].n = Len(Results)
        BY <2>4, <2>6 DEF CalledLast
      <3>5. QED
        BY <3>1, <3>3, <3>4 DEF Sounds
    <2>7. QED
      BY <1>b, <1>d, <2>2, <2>3, <2>5, <2>6 DEF BothSound
  <1>5. CASE RecordBash
    <2>1. UNCHANGED run
      BY <1>5 DEF RecordBash
    <2>2. CASE active
      BY <1>5, <2>1, <2>2, <1>a DEF RecordBash, BothSound, Sound, Busy
    <2>3. CASE ~active
      <3>1. ~Busy
        BY <2>3, BusyIs DEF Phases, AtWork, OneRun
      <3>2. ~Busy'
        BY <2>1, <3>1 DEF Busy
      <3>3. PICK b \in Bashes : transcript' = Append(transcript, b) /\ entries' = Append(entries, b)
        BY <1>5, <1>b, <2>3, RecordBashWrites
      <3>4. Sounds(Append(transcript, b)) /\ Sounds(Append(entries, b))
        <4>1. Sounds(transcript) /\ Sounds(entries)
          BY <1>c, <3>1
        <4>2. Sounds(Append(transcript, b))
          BY <1>b, <4>1, BashesPlain, PlainSounds
        <4>3. Sounds(Append(entries, b))
          BY <1>b, <4>1, BashesPlain, PlainSounds
        <4>4. QED
          BY <4>2, <4>3
      <3>5. QED
        BY <1>d, <3>2, <3>3, <3>4
    <2>4. QED
      BY <2>2, <2>3
  <1>6. CASE AloneStep
    <2>1. ~Busy /\ ~Busy' /\ Sounds(transcript) /\ Sounds(entries)
      BY <1>6, <1>c, AloneBusy
    <2>2. WithoutAnswer(transcript) \in Seq(Items) /\ Sounds(WithoutAnswer(transcript))
      BY <1>b, <2>1, TrimmedSounds
    <2>3. ASSUME NEW messages \in Seq(Items), NEW file \in Seq(Items), Leaves(messages, file), Sounds(messages), Sounds(file)
          PROVE  BothSound'
      BY <1>b, <1>d, <2>1, <2>3, LeavesSounds
    <2>4. CASE CompactFirst
      <3>1. transcript' \in {transcript, WithoutAnswer(transcript)} /\ UNCHANGED entries
        BY <2>4 DEF CompactFirst
      <3>2. QED
        BY <1>d, <2>1, <2>2, <3>1
    <2>5. CASE EndRun
      BY <1>b, <2>1, <2>2, <2>3, <2>5, EndRunLeaves
    <2>6. CASE CancelRetry \/ ContinueFails \/ NotSummarized
      BY <1>b, <2>1, <2>3, <2>6, OthersLeave
    <2>7. CASE Summarized
      <3> DEFINE cut == compaction.cut
      <3>1. cut \in 1 .. Len(entries) /\ entries[cut].role # "result"
        BY <2>7 DEF Summarized, Typed, CutTypes
      <3> HIDE DEF cut
      <3>2. Rebuilt(cut) \in Seq(Items) /\ Sounds(Rebuilt(cut))
        BY <1>b, <2>1, <3>1, RebuiltIs, RebuiltSound DEF Sounds
      <3>3. WithoutAnswer(Rebuilt(cut)) \in Seq(Items) /\ Sounds(WithoutAnswer(Rebuilt(cut)))
        BY <3>2, TrimmedSounds
      <3>4. Filing(cut) \in Seq(Items) /\ Sounds(Filing(cut))
        <4> DEFINE e == Item("compaction", cut, 0, "none")
        <4>1. cut \in Nat \ {0}
          BY <1>b, <3>1
        <4>2. e \in Items /\ e.role = "compaction"
          BY <4>1, ItemsTyped DEF Item
        <4> HIDE DEF e
        <4>3. /\ Append(entries, e) \in Seq(Items) /\ Extends(entries, Append(entries, e))
              /\ Len(Append(entries, e)) = Len(entries) + 1 /\ Append(entries, e)[Len(entries) + 1] = e
          BY <1>b, <4>2, ExtendsIs
        <4>4. Plainly(entries, Append(entries, e))
          BY <1>b, <4>2, <4>3 DEF Plainly
        <4>5. Sounds(Append(entries, e))
          BY <1>b, <2>1, <4>3, <4>4, PlainSounds
        <4>6. QED
          BY <4>3, <4>5 DEF Filing, e
      <3>5. Leaves(Rebuilt(cut), Filing(cut)) \/ Leaves(WithoutAnswer(Rebuilt(cut)), Filing(cut))
        BY <2>7, SummarizedLeaves DEF cut
      <3>6. QED
        BY <2>3, <3>2, <3>3, <3>4, <3>5
    <2>8. QED
      BY <1>6, <2>4, <2>5, <2>6, <2>7 DEF AloneStep
  <1>7. QED
    BY <1>1, <1>2, <1>3, <1>4, <1>5, <1>6, WhichStep DEF AloneStep


LEMMA SoundAnswers ==
    ASSUME Typed, Sound(transcript)
    PROVE  CallsAnswered
  <1>1. /\ transcript \in Seq(Items) /\ Len(transcript) \in Nat /\ DOMAIN transcript = 1 .. Len(transcript)
        /\ Blocks(transcript) /\ (aborts = 0 => Full(transcript, Busy)) /\ aborts \in Nat
    BY DEF Typed, TextTypes, FlagTypes, Sound
  <1>2. ASSUME NEW i \in DOMAIN transcript, transcript[i].role = "result"
        PROVE  \E a \in Answers(transcript) : a + transcript[i].of = i
    BY <1>1, <1>2 DEF Blocks
  <1>3. ASSUME NEW i \in DOMAIN transcript, transcript[i].role = "assistant"
        PROVE  /\ \A k \in HasResults(i) : 1 .. k \subseteq HasResults(i)
               /\ HasResults(i) = 1 .. transcript[i].n \/ aborts > 0 \/ (run.calls # <<>> /\ i = Len(transcript))
    <2> DEFINE n == transcript[i].n
    <2>1. i \in 1 .. Len(transcript) /\ i \in Answers(transcript) /\ n \in 0 .. CallCount
      BY <1>1, <1>3, AnswersOfIs
    <2>2. HasResults(i) = {k \in 1 .. n : i + k <= Len(transcript) /\ transcript[i + k].role = "result" /\ transcript[i + k].of = k}
      BY DEF HasResults
    <2> HIDE DEF n
    <2>3. ASSUME NEW k \in 1 .. n, Block(transcript, i, k) PROVE 1 .. k \subseteq HasResults(i)
      <3> SUFFICES ASSUME NEW j \in 1 .. k PROVE j \in HasResults(i)
        OBVIOUS
      <3>1. i + j \in DOMAIN transcript /\ transcript[i + j].role = "result" /\ transcript[i + j].of = j
        BY <2>3 DEF Block
      <3>2. i + j <= Len(transcript) /\ j \in 1 .. n
        BY <1>1, <2>1, <3>1
      <3>3. QED
        BY <2>2, <3>1, <3>2
    <2>4. ASSUME NEW k \in HasResults(i) PROVE 1 .. k \subseteq HasResults(i)
      <3> DEFINE j == i + k
      <3>1. k \in 1 .. n /\ j <= Len(transcript) /\ transcript[j].role = "result" /\ transcript[j].of = k
        BY <2>2
      <3>2. j \in DOMAIN transcript
        BY <1>1, <2>1, <3>1
      <3> HIDE DEF j
      <3>3. PICK a \in Answers(transcript) : a + k = j /\ Block(transcript, a, k)
        BY <1>1, <3>1, <3>2 DEF Blocks
      <3>4. a \in 1 .. Len(transcript)
        BY <1>1, <3>3, AnswersOfIs
      <3>5. a = i
        BY <1>1, <2>1, <3>1, <3>3, <3>4 DEF j
      <3>6. QED
        BY <2>3, <3>1, <3>3, <3>5
    <2>5. CASE aborts = 0 /\ ~(run.calls # <<>> /\ i = Len(transcript))
      <3>1. Block(transcript, i, n)
        BY <1>1, <2>1, <2>5 DEF Full, Busy, n
      <3>2. n \in Nat
        BY <2>1
      <3>3. HasResults(i) = 1 .. n
        <4>1. CASE n = 0
          BY <2>2, <4>1
        <4>2. CASE n # 0
          <5>1. n \in 1 .. n
            BY <3>2, <4>2
          <5>2. 1 .. n \subseteq HasResults(i)
            BY <2>3, <3>1, <5>1
          <5>3. HasResults(i) \subseteq 1 .. n
            BY <2>2
          <5>4. QED
            BY <5>2, <5>3
        <4>3. QED
          BY <4>1, <4>2
      <3>4. QED
        BY <2>4, <3>3 DEF n
    <2>6. CASE aborts # 0
      BY <1>1, <2>4, <2>6
    <2>7. QED
      BY <2>4, <2>5, <2>6
  <1>4. QED
    BY <1>2, <1>3 DEF CallsAnswered

(***************************************************************************)
(* In what the model is asked with, the results of an answer's tool calls  *)
(* follow it at once, in the order of its calls: each result belongs to an *)
(* answer, there is none without the one before it, and unless the user has*)
(* aborted every call has one, through commands recorded meanwhile, retries*)
(* and compactions (agent-loop.ts, executeToolCalls; compaction.ts,        *)
(* findCutPoint).                                                          *)
(***************************************************************************)
THEOREM ResultsFollowCalls == Spec => []CallsAnswered
  <1>1. Init => BothSound
    <2> SUFFICES ASSUME Init PROVE BothSound
      OBVIOUS
    <2>1. transcript = <<>> /\ entries = <<>>
      BY DEF Init
    <2>2. Blocks(<<>>) /\ Full(<<>>, Busy)
      BY DEF Blocks, Full, Answers
    <2>3. QED
      BY <2>1, <2>2 DEF BothSound, Sound
  <1>2. Typed /\ Typed' /\ Phases /\ BothSound /\ [Next]_vars => BothSound'
    BY SoundStep
  <1>3. Typed /\ BothSound => CallsAnswered
    BY SoundAnswers DEF BothSound
  <1>4. QED
    BY <1>1, <1>2, <1>3, PhasesInit, PhasesStep, TypedInit, TypedStep, PTL DEF Spec


-----------------------------------------------------------------------------
(***************************************************************************)
(* Where a message of the user is.                                         *)
(***************************************************************************)
\* The moves that the session makes.
LEMMA ApartMoves ==
    ASSUME NEW S, NEW F, NEW P, NEW E, NEW R, NEW B, NEW n \in Nat, Apart(S, F, P, E, R, B, n)
    PROVE  /\ R = {} => Apart(S, F, P, E, {n + 1}, B, n + 1)
           /\ Apart(S \cup {n + 1}, F, P, E, R, B, n + 1)
           /\ Apart(S, F \cup {n + 1}, P, E, R, B, n + 1)
           /\ Apart(S, F, P, E, R, B \cup {n + 1}, n + 1)
           /\ \A m \in B : Apart(S \cup {m}, F, P, E, R, B \ {m}, n) /\ Apart(S, F \cup {m}, P, E, R, B \ {m}, n)
           /\ Apart({}, {}, P, E, R, B, n)
           /\ P = {} => Apart(S, F, R, E, {}, B, n)
           /\ \A S2, P2 : S2 \cup P2 = S /\ S2 \cap P2 = {} => Apart(S2, F, P2, E \cup P, R, B, n)
           /\ P = {} => \A S2, P2 : S2 \cup P2 = S /\ S2 \cap P2 = {} => Apart(S2, F, P2, E, R, B, n)
           /\ P = {} => \A F2, P2 : F2 \cup P2 = F /\ F2 \cap P2 = {} => Apart(S, F2, P2, E, R, B, n)
  <1> DEFINE all == S \cup F \cup P \cup E \cup R \cup B
  <1>1. n + 1 \notin all /\ n + 1 \in 1 .. n + 1 /\ all \subseteq 1 .. n /\ 1 .. n \subseteq 1 .. n + 1
    BY DEF Apart
  <1>2. R = {} => Apart(S, F, P, E, {n + 1}, B, n + 1)
    BY <1>1, Zenon DEF Apart
  <1>3. Apart(S \cup {n + 1}, F, P, E, R, B, n + 1)
    BY <1>1, Zenon DEF Apart
  <1>4. Apart(S, F \cup {n + 1}, P, E, R, B, n + 1)
    BY <1>1, Zenon DEF Apart
  <1>5. Apart(S, F, P, E, R, B \cup {n + 1}, n + 1)
    BY <1>1, Zenon DEF Apart
  <1>6. ASSUME NEW m \in B
        PROVE  Apart(S \cup {m}, F, P, E, R, B \ {m}, n) /\ Apart(S, F \cup {m}, P, E, R, B \ {m}, n)
    BY DEF Apart
  <1>7. Apart({}, {}, P, E, R, B, n)
    BY DEF Apart
  <1>8. P = {} => Apart(S, F, R, E, {}, B, n)
    BY DEF Apart
  <1>9. ASSUME NEW S2, NEW P2, S2 \cup P2 = S, S2 \cap P2 = {} PROVE Apart(S2, F, P2, E \cup P, R, B, n)
    BY <1>9 DEF Apart
  <1>10. ASSUME P = {}, NEW S2, NEW P2, S2 \cup P2 = S, S2 \cap P2 = {} PROVE Apart(S2, F, P2, E, R, B, n)
    BY <1>10 DEF Apart
  <1>11. ASSUME P = {}, NEW F2, NEW P2, F2 \cup P2 = F, F2 \cap P2 = {} PROVE Apart(S, F2, P2, E, R, B, n)
    BY <1>11 DEF Apart
  <1>12. QED
    BY <1>2, <1>3, <1>4, <1>5, <1>6, <1>7, <1>8, <1>9, <1>10, <1>11

\* A queue is split into what is drawn and what is left.
LEMMA QueueSplit ==
    ASSUME NEW queue \in Seq(Messages), Once(queue)
    PROVE  /\ Once(Drained(queue)) /\ Once(Left(queue))
           /\ In(Left(queue)) \cup In(Drained(queue)) = In(queue)
           /\ In(Left(queue)) \cap In(Drained(queue)) = {}
  <1>0. Once(<<>>) /\ In(<<>>) = {}
    BY DEF Once, In
  <1>1. CASE AllAtOnce \/ queue = <<>>
    <2>1. Drained(queue) = queue /\ Left(queue) = <<>>
      BY <1>1 DEF Drained, Left
    <2>2. QED
      BY <1>0, <2>1
  <1>2. CASE ~AllAtOnce /\ queue # <<>>
    <2> DEFINE L == Len(queue)
    <2>1. Drained(queue) = <<Head(queue)>> /\ Left(queue) = Tail(queue)
      BY <1>2 DEF Drained, Left
    <2>2. /\ L \in Nat /\ L >= 1 /\ DOMAIN queue = 1 .. L /\ Head(queue) = queue[1]
          /\ Len(Tail(queue)) = L - 1 /\ DOMAIN Tail(queue) = 1 .. L - 1
          /\ \A i \in 1 .. L - 1 : Tail(queue)[i] = queue[i + 1]
      BY <1>2
    <2>3. Once(<<Head(queue)>>) /\ In(<<Head(queue)>>) = {queue[1]}
      BY <2>2 DEF Once, In
    <2>4. Once(Tail(queue))
      <3> SUFFICES ASSUME NEW i \in 1 .. L - 1, NEW k \in 1 .. L - 1, Tail(queue)[i] = Tail(queue)[k] PROVE i = k
        BY <2>2 DEF Once
      <3>1. i + 1 \in 1 .. L /\ k + 1 \in 1 .. L /\ queue[i + 1] = queue[k + 1]
        BY <2>2
      <3>2. i + 1 = k + 1
        BY <2>2, <3>1 DEF Once
      <3>3. QED
        BY <2>2, <3>2
    <2>5. In(Tail(queue)) = {queue[i] : i \in 2 .. L}
      <3>1. ASSUME NEW i \in 2 .. L PROVE queue[i] \in In(Tail(queue))
        <4>1. i - 1 \in 1 .. L - 1 /\ (i - 1) + 1 = i
          BY <2>2
        <4>2. Tail(queue)[i - 1] = queue[i]
          BY <2>2, <4>1
        <4>3. QED
          BY <2>2, <4>1, <4>2 DEF In
      <3>2. ASSUME NEW i \in 1 .. L - 1 PROVE Tail(queue)[i] \in {queue[k] : k \in 2 .. L}
        <4>1. i + 1 \in 2 .. L
          BY <2>2
        <4>2. QED
          BY <2>2, <4>1
      <3>3. QED
        BY <2>2, <3>1, <3>2 DEF In
    <2>6. 1 \in 1 .. L /\ \A i \in 2 .. L : i \in 1 .. L /\ i # 1
      BY <2>2
    <2>7. \A i \in 1 .. L : i = 1 \/ i \in 2 .. L
      BY <2>2
    <2>8. In(queue) = {queue[i] : i \in 1 .. L} /\ \A i \in 2 .. L : queue[i] # queue[1]
      BY <2>2, <2>6 DEF In, Once
    <2> HIDE DEF L
    <2>9. {queue[i] : i \in 2 .. L} \cup {queue[1]} = In(queue) /\ {queue[i] : i \in 2 .. L} \cap {queue[1]} = {}
      BY <2>6, <2>7, <2>8
    <2>10. QED
      BY <2>1, <2>3, <2>4, <2>5, <2>9
  <1>3. QED
    BY <1>1, <1>2

LEMMA QueueGains ==
    ASSUME NEW queue \in Seq(Messages), NEW m \in Messages, m \notin In(queue), Once(queue)
    PROVE  Once(Append(queue, m)) /\ In(Append(queue, m)) = In(queue) \cup {m}
  <1> DEFINE L == Len(queue)
             t == Append(queue, m)
  <1>1. L \in Nat /\ DOMAIN queue = 1 .. L /\ DOMAIN t = 1 .. L + 1 /\ t[L + 1] = m /\ \A i \in 1 .. L : t[i] = queue[i]
    OBVIOUS
  <1>2. \A i \in 1 .. L + 1 : i \in 1 .. L \/ i = L + 1
    BY <1>1
  <1>3. L + 1 \in 1 .. L + 1 /\ \A i \in 1 .. L : i \in 1 .. L + 1
    BY <1>1
  <1>4. \A i \in 1 .. L : queue[i] # m
    BY <1>1 DEF In
  <1> HIDE DEF L, t
  <1>5. Once(t)
    BY <1>1, <1>2, <1>4 DEF Once
  <1>6. In(t) = In(queue) \cup {m}
    BY <1>1, <1>2, <1>3 DEF In
  <1>7. QED
    BY <1>5, <1>6 DEF t

\* What is added to the file besides the messages of the user.
LEMMA OthersWritten ==
    ASSUME NEW s \in Seq(Items), NEW t \in Seq(Items), Extends(s, t), \A i \in Len(s) + 1 .. Len(t) : t[i].role # "user"
    PROVE  OfUsers(t) = OfUsers(s) /\ (OnceWritten(s) => OnceWritten(t))
  <1>1. Len(s) \in Nat /\ Len(t) \in Nat /\ DOMAIN s = 1 .. Len(s) /\ DOMAIN t = 1 .. Len(t)
    OBVIOUS
  <1>2. \A i \in 1 .. Len(t) : i \in 1 .. Len(s) \/ i \in Len(s) + 1 .. Len(t)
    BY <1>1
  <1>3. \A i \in 1 .. Len(s) : i \in 1 .. Len(t) /\ t[i] = s[i]
    BY <1>1 DEF Extends
  <1>4. Users(t) = Users(s) /\ \A i \in Users(s) : t[i] = s[i]
    BY <1>1, <1>2, <1>3 DEF Users
  <1>5. QED
    BY <1>4 DEF OfUsers, OnceWritten

LEMMA UsersWritten ==
    ASSUME NEW s \in Seq(Items), NEW queue \in Seq(Messages), NEW more \in Seq(Items), Len(more) = Len(queue),
           \A i \in 1 .. Len(queue) : more[i].role = "user" /\ more[i].of = queue[i],
           Once(queue), OnceWritten(s), OfUsers(s) \cap In(queue) = {}
    PROVE  OfUsers(s \o more) = OfUsers(s) \cup In(queue) /\ OnceWritten(s \o more)
  <1> DEFINE t == s \o more
             L == Len(s)
             N == Len(queue)
  <1>1. /\ L \in Nat /\ N \in Nat /\ DOMAIN s = 1 .. L /\ DOMAIN t = 1 .. L + N /\ DOMAIN queue = 1 .. N
        /\ \A i \in 1 .. L : t[i] = s[i]
        /\ \A i \in L + 1 .. L + N : t[i] = more[i - L] /\ i - L \in 1 .. N
    OBVIOUS
  <1>2. \A i \in 1 .. L + N : i \in 1 .. L \/ i \in L + 1 .. L + N
    BY <1>1
  <1>3. \A i \in L + 1 .. L + N : i \in 1 .. L + N /\ t[i].role = "user" /\ t[i].of = queue[i - L] /\ i - L \in 1 .. N
    BY <1>1
  <1>4. \A k \in 1 .. N : L + k \in L + 1 .. L + N /\ (L + k) - L = k
    BY <1>1
  <1>5. \A i \in 1 .. L : i \in 1 .. L + N
    BY <1>1
  <1>6. \A i, k \in L + 1 .. L + N : i - L = k - L => i = k
    BY <1>1
  <1> HIDE DEF t, L, N
  <1>7. Users(t) = Users(s) \cup (L + 1 .. L + N)
    BY <1>1, <1>2, <1>3, <1>5 DEF Users
  <1>8. \A i \in Users(s) : t[i].of = s[i].of /\ s[i].of \in OfUsers(s)
    BY <1>1 DEF Users, OfUsers
  <1>9. \A i \in L + 1 .. L + N : t[i].of \in In(queue)
    BY <1>1, <1>3 DEF In
  <1>10. ASSUME NEW m \in In(queue) PROVE \E i \in L + 1 .. L + N : t[i].of = m
    <2>1. PICK k \in 1 .. N : queue[k] = m
      BY <1>1 DEF In
    <2>2. L + k \in L + 1 .. L + N /\ (L + k) - L = k
      BY <1>4
    <2>3. t[L + k].of = queue[k]
      BY <1>3, <2>2
    <2>4. QED
      BY <2>1, <2>2, <2>3
  <1>11. OfUsers(t) = OfUsers(s) \cup In(queue)
    <2>1. ASSUME NEW i \in Users(t) PROVE t[i].of \in OfUsers(s) \cup In(queue)
      BY <1>7, <1>8, <1>9
    <2>2. ASSUME NEW m \in OfUsers(s) PROVE m \in OfUsers(t)
      BY <1>7, <1>8 DEF OfUsers
    <2>3. ASSUME NEW m \in In(queue) PROVE m \in OfUsers(t)
      <3>1. PICK i \in L + 1 .. L + N : t[i].of = m
        BY <1>10
      <3>2. i \in Users(t)
        BY <1>7, <3>1
      <3>3. QED
        BY <3>1, <3>2 DEF OfUsers
    <2>4. QED
      BY <2>1, <2>2, <2>3 DEF OfUsers
  <1>12. OnceWritten(t)
    <2> SUFFICES ASSUME NEW i \in Users(t), NEW k \in Users(t), t[i].of = t[k].of PROVE i = k
      BY DEF OnceWritten
    <2>1. CASE i \in Users(s) /\ k \in Users(s)
      BY <1>8, <2>1 DEF OnceWritten
    <2>2. CASE i \in L + 1 .. L + N /\ k \in L + 1 .. L + N
      <3>1. i - L \in 1 .. N /\ k - L \in 1 .. N /\ queue[i - L] = queue[k - L]
        BY <1>3, <2>2
      <3>1a. i - L = k - L
        BY <1>1, <3>1 DEF Once
      <3>2. QED
        BY <1>6, <2>2, <3>1a
    <2>3. CASE (i \in Users(s) /\ k \in L + 1 .. L + N) \/ (k \in Users(s) /\ i \in L + 1 .. L + N)
      BY <1>8, <1>9, <2>3
    <2>4. QED
      BY <1>7, <2>1, <2>2, <2>3
  <1>13. QED
    BY <1>11, <1>12 DEF t


\* A step that writes something else than messages of the user.
WritesOthers == Answer \/ EndBatch \/ RecordBash \/ AloneStep

LEMMA FileGrows ==
    ASSUME Typed, WritesOthers
    PROVE  OfUsers(entries') = OfUsers(entries) /\ (OnceWritten(entries) => OnceWritten(entries'))
  <1>1. TextTypes /\ transcript \in Seq(Items) /\ entries \in Seq(Items) /\ Len(entries) \in Nat
    BY DEF Typed, TextTypes
  <1>2. CASE entries' = entries
    BY <1>2
  <1>3. ASSUME NEW e \in Items, e.role # "user", entries' = Append(entries, e)
        PROVE  OfUsers(entries') = OfUsers(entries) /\ (OnceWritten(entries) => OnceWritten(entries'))
    <2>1. /\ Append(entries, e) \in Seq(Items) /\ Extends(entries, Append(entries, e))
          /\ Len(Append(entries, e)) = Len(entries) + 1 /\ Append(entries, e)[Len(entries) + 1] = e
      BY <1>1, <1>3, ExtendsIs
    <2>2. \A i \in Len(entries) + 1 .. Len(Append(entries, e)) : Append(entries, e)[i].role # "user"
      BY <1>1, <1>3, <2>1
    <2>3. QED
      BY <1>1, <1>3, <2>1, <2>2, OthersWritten
  <1>4. ASSUME NEW s \in Seq(Items), NEW more \in Seq(Items), \A i \in 1 .. Len(more) : more[i].role # "user"
        PROVE  OfUsers(s \o more) = OfUsers(s) /\ (OnceWritten(s) => OnceWritten(s \o more)) /\ s \o more \in Seq(Items)
    <2>1. \E e : e \in Items
      BY ItemsTyped
    <2>2. /\ s \o more \in Seq(Items) /\ Extends(s, s \o more) /\ Len(s \o more) = Len(s) + Len(more)
          /\ \A i \in Len(s) + 1 .. Len(s) + Len(more) : (s \o more)[i] = more[i - Len(s)] /\ i - Len(s) \in 1 .. Len(more)
      BY <1>4, <2>1, ExtendsIs
    <2>3. \A i \in Len(s) + 1 .. Len(s \o more) : (s \o more)[i].role # "user"
      BY <1>4, <2>2
    <2>4. QED
      BY <1>4, <2>2, <2>3, OthersWritten
  <1>5. bashes \in Seq(Items) /\ \A i \in 1 .. Len(bashes) : bashes[i].role # "user"
    BY <1>1, BashesTyped, BashIs DEF TextTypes
  <1>6. CASE Answer
    <2>1. PICK answer \in Items : answer.role = "assistant" /\ entries' = Append(entries, answer)
      BY <1>1, <1>6, AnswerWrites DEF Answered
    <2>2. QED
      BY <1>3, <2>1
  <1>7. CASE EndBatch
    <2>1. Results \in Seq(Items) /\ \A i \in 1 .. Len(Results) : Results[i].role # "user"
      BY <1>7, ResultsAre DEF Typed
    <2>2. entries' = entries \o Results
      BY <1>7 DEF EndBatch
    <2>3. QED
      BY <1>1, <1>4, <2>1, <2>2
  <1>8. CASE RecordBash
    <2>1. PICK b \in Bashes : entries' = entries \/ entries' = Append(entries, b)
      BY <1>1, <1>8, RecordBashWrites
    <2>2. b \in Items /\ b.role # "user"
      BY BashesTyped, BashIs
    <2>3. QED
      BY <1>2, <1>3, <2>1, <2>2
  <1>9. CASE AloneStep
    <2>1. CASE CompactFirst
      BY <1>2, <2>1 DEF CompactFirst
    <2>2. ASSUME NEW messages, Leaves(messages, entries)
          PROVE  OfUsers(entries') = OfUsers(entries) /\ (OnceWritten(entries) => OnceWritten(entries'))
      BY <1>1, <1>2, <1>4, <1>5, <2>2 DEF Leaves
    <2>3. CASE EndRun \/ CancelRetry \/ ContinueFails \/ NotSummarized
      BY <2>2, <2>3, EndRunLeaves, OthersLeave
    <2>4. CASE Summarized
      <3> DEFINE cut == compaction.cut
                 e == Item("compaction", cut, 0, "none")
                 file == Filing(cut)
      <3>1. cut \in 1 .. Len(entries)
        BY <2>4 DEF Summarized, Typed, CutTypes
      <3>2. cut \in Nat \ {0}
        BY <1>1, <3>1
      <3>3. e \in Items /\ e.role # "user"
        BY <3>2, ItemsTyped DEF Item
      <3>4. file = Append(entries, e)
        BY DEF Filing
      <3> HIDE DEF e
      <3>5. /\ file \in Seq(Items) /\ Extends(entries, file) /\ Len(file) = Len(entries) + 1 /\ file[Len(entries) + 1] = e
        BY <1>1, <3>3, <3>4, ExtendsIs
      <3>5a. entries' = file \/ entries' = file \o bashes
        BY <2>4, SummarizedLeaves DEF Leaves
      <3> HIDE DEF file
      <3>6. \A i \in Len(entries) + 1 .. Len(file) : file[i].role # "user"
        BY <1>1, <3>3, <3>5
      <3>7. OfUsers(file) = OfUsers(entries) /\ (OnceWritten(entries) => OnceWritten(file))
        BY <1>1, <3>5, <3>6, OthersWritten
      <3>8. OfUsers(file \o bashes) = OfUsers(file) /\ (OnceWritten(file) => OnceWritten(file \o bashes))
        BY <1>4, <1>5, <3>5
      <3>9. QED
        BY <3>5a, <3>7, <3>8
    <2>5. QED
      BY <1>9, <2>1, <2>3, <2>4 DEF AloneStep
  <1>10. QED
    BY <1>6, <1>7, <1>8, <1>9 DEF WritesOthers

LEMMA OthersStay ==
    ASSUME Typed, Phases, WritesOthers
    PROVE  UNCHANGED <<steering, followUps, building, prompting, asked>> /\ run'.pending = run.pending
  <1> USE DEF Typed, Phases, OneRun, RunShape, queues, session, counters
  <1>1. CASE Answer
    <2>1. PICK answer \in Items, serial \in BOOLEAN : Answered(answer, serial)
      BY <1>1, AnswerWrites
    <2>2. run'.pending = run.pending
      BY <2>1 DEF Answered, AnsweredWith
    <2>3. QED
      BY <1>1, <2>2 DEF Answer
  <1>2. CASE EndBatch
    BY <1>2 DEF EndBatch
  <1>3. CASE RecordBash \/ CompactFirst
    BY <1>3 DEF RecordBash, CompactFirst
  <1>4. CASE EndRun
    BY <1>4 DEF EndRun, Running, NoRun, RunTypes
  <1>5. CASE CancelRetry \/ ContinueFails \/ NotSummarized \/ Summarized
    BY <1>5 DEF CancelRetry, ContinueFails, NotSummarized, Summarized
  <1>6. QED
    BY <1>1, <1>2, <1>3, <1>4, <1>5 DEF WritesOthers, AloneStep

LEMMA PlacedStep ==
    ASSUME Typed, Phases, Placed, [Next]_vars
    PROVE  Placed'
  <1> DEFINE S == In(steering)
             F == In(followUps)
             P == In(run.pending)
             E == OfUsers(entries)
             R == {prompting} \cap Messages
             B == Read(building)
  <1>a. /\ Once(steering) /\ Once(followUps) /\ Once(run.pending) /\ OnceWritten(entries)
        /\ \A b, c \in building : b[1] = c[1] => b = c
        /\ Apart(S, F, P, E, R, B, asked)
    BY DEF Placed
  <1>b. /\ steering \in Seq(Messages) /\ followUps \in Seq(Messages) /\ run.pending \in Seq(Messages)
        /\ building \subseteq Files \X {"steering", "followUps"}
        /\ asked \in Nat /\ TextTypes
    BY DEF Typed, QueueTypes, RunTypes, FlagTypes
  <1>c. Once(<<>>) /\ In(<<>>) = {}
    BY DEF Once, In
  <1>d. phase # "running" => run.pending = <<>>
    BY DEF Typed, RunTypes, Phases, OneRun
  <1>e. prompting = None => R = {}
    BY NoneIsNoMessage
  <1>f. RunShape
    BY DEF Phases, OneRun
  <1>g. /\ Apart(S \cup {asked + 1}, F, P, E, R, B, asked + 1)
        /\ Apart(S, F \cup {asked + 1}, P, E, R, B, asked + 1)
        /\ Apart(S, F, P, E, R, B \cup {asked + 1}, asked + 1)
        /\ R = {} => Apart(S, F, P, E, {asked + 1}, B, asked + 1)
    BY <1>a, <1>b, ApartMoves
  <1>h. asked + 1 \notin S \cup F \cup B
    <2>1. S \cup F \cup B \subseteq 1 .. asked
      BY <1>a DEF Apart
    <2>2. asked + 1 \notin 1 .. asked
      BY <1>b
    <2>3. QED
      BY <2>1, <2>2
  <1> HIDE DEF S, F, P, E, R, B
  <1>i. S = In(steering) /\ F = In(followUps) /\ P = In(run.pending) /\ E = OfUsers(entries) /\ B = Read(building)
        /\ R = {prompting} \cap Messages
    BY DEF S, F, P, E, R, B
  <1>j. ASSUME QuietStep PROVE UNCHANGED entries
    BY <1>b, <1>j, QuietKeeps
  <1>1. ASSUME UNCHANGED <<steering, followUps, building, prompting, asked, entries>>, run'.pending = run.pending
        PROVE  Placed'
    BY <1>a, <1>i, <1>1 DEF Placed
  <1>2. ASSUME NEW m \in Messages, AskPrompt(m) PROVE Placed'
    <2>1. m = asked + 1 /\ asked' = m /\ prompting' = m /\ prompting = None /\ UNCHANGED <<run, steering, followUps, building>>
      BY <1>2 DEF AskPrompt, Sends, Working, queues
    <2>2. UNCHANGED entries
      BY <1>2, <1>j DEF QuietStep
    <2>3. {prompting'} \cap Messages = {asked + 1}
      BY <2>1
    <2>4. Apart(S, F, P, E, {asked + 1}, B, asked + 1)
      BY <1>e, <1>g, <2>1
    <2>5. QED
      BY <1>a, <1>i, <2>1, <2>2, <2>3, <2>4 DEF Placed
  <1>3. ASSUME NEW m \in Messages, Steer(m) \/ FollowUp(m) PROVE Placed'
    <2>1. m = asked + 1 /\ asked' = m /\ UNCHANGED <<run, prompting>>
      BY <1>3 DEF Steer, FollowUp, Sends, session
    <2>2. UNCHANGED entries
      BY <1>3, <1>j DEF QuietStep
    <2>3. Queues(m, "steering") \/ Queues(m, "followUps")
      BY <1>3 DEF Steer, FollowUp
    <2>4. CASE \E lane : building' = building \cup {<<m, lane>>} /\ UNCHANGED <<steering, followUps>>
      <3>1. PICK lane : building' = building \cup {<<m, lane>>} /\ UNCHANGED <<steering, followUps>>
        BY <2>4
      <3>2. Read(building') = B \cup {asked + 1}
        <4>1. {b[1] : b \in building \cup {<<m, lane>>}} = {b[1] : b \in building} \cup {m}
          <5>1. <<m, lane>>[1] = m
            OBVIOUS
          <5>2. QED
            BY <5>1, Zenon
        <4>2. QED
          BY <1>i, <2>1, <3>1, <4>1 DEF Read
      <3>3. \A b \in building : b[1] # m
        BY <1>h, <1>i, <2>1 DEF Read
      <3>4. \A b, c \in building' : b[1] = c[1] => b = c
        BY <1>a, <3>1, <3>3
      <3>5. QED
        BY <1>a, <1>g, <1>i, <2>1, <2>2, <3>1, <3>2, <3>4 DEF Placed
    <2>5. CASE steering' = Append(steering, m) /\ UNCHANGED <<followUps, building>>
      <3>1. Once(Append(steering, m)) /\ In(Append(steering, m)) = S \cup {asked + 1}
        BY <1>a, <1>b, <1>h, <1>i, <2>1, QueueGains
      <3>2. QED
        BY <1>a, <1>g, <1>i, <2>1, <2>2, <2>5, <3>1 DEF Placed
    <2>6. CASE followUps' = Append(followUps, m) /\ UNCHANGED <<steering, building>>
      <3>1. Once(Append(followUps, m)) /\ In(Append(followUps, m)) = F \cup {asked + 1}
        BY <1>a, <1>b, <1>h, <1>i, <2>1, QueueGains
      <3>2. QED
        BY <1>a, <1>g, <1>i, <2>1, <2>2, <2>6, <3>1 DEF Placed
    <2>7. QED
      BY <2>3, <2>4, <2>5, <2>6 DEF Queues
  <1>4. ASSUME NEW m \in Messages, FilesRead(m) PROVE Placed'
    <2>1. PICK lane \in {"steering", "followUps"} :
             /\ <<m, lane>> \in building
             /\ building' = building \ {<<m, lane>>}
             /\ steering' = IF lane = "steering" THEN Append(steering, m) ELSE steering
             /\ followUps' = IF lane = "followUps" THEN Append(followUps, m) ELSE followUps
      BY <1>4 DEF FilesRead
    <2>2. UNCHANGED <<entries, run, prompting, asked>>
      BY <1>4 DEF FilesRead, counters
    <2>3. m \in B
      BY <1>i, <2>1 DEF Read
    <2>4. Apart(S \cup {m}, F, P, E, R, B \ {m}, asked) /\ Apart(S, F \cup {m}, P, E, R, B \ {m}, asked)
      BY <1>a, <1>b, <2>3, ApartMoves
    <2>5. \A b \in building : b[1] = m => b = <<m, lane>>
      BY <1>a, <2>1
    <2>6. Read(building') = B \ {m}
      BY <1>i, <2>1, <2>5 DEF Read
    <2>7. \A b, c \in building' : b[1] = c[1] => b = c
      BY <1>a, <2>1
    <2>8. m \notin S /\ m \notin F
      BY <1>a, <2>3 DEF Apart
    <2>9. CASE lane = "steering"
      <3>1. Once(Append(steering, m)) /\ In(Append(steering, m)) = S \cup {m}
        BY <1>a, <1>b, <1>i, <2>8, QueueGains
      <3>2. QED
        BY <1>a, <1>i, <2>1, <2>2, <2>4, <2>6, <2>7, <2>9, <3>1 DEF Placed
    <2>10. CASE lane = "followUps"
      <3>1. Once(Append(followUps, m)) /\ In(Append(followUps, m)) = F \cup {m}
        BY <1>a, <1>b, <1>i, <2>8, QueueGains
      <3>2. QED
        BY <1>a, <1>i, <2>1, <2>2, <2>4, <2>6, <2>7, <2>10, <3>1 DEF Placed
    <2>11. QED
      BY <2>1, <2>9, <2>10
  <1>5. CASE ClearQueue
    <2>1. steering' = <<>> /\ followUps' = <<>> /\ UNCHANGED <<run, building, prompting, asked, entries>>
      BY <1>5 DEF ClearQueue, session, counters
    <2>2. Apart({}, {}, P, E, R, B, asked)
      BY <1>a, <1>b, ApartMoves
    <2>3. QED
      BY <1>a, <1>c, <1>i, <2>1, <2>2 DEF Placed
  <1>6. CASE StartPrompt
    <2>1. /\ phase \in {"asked", "compacted"} /\ prompting' = None /\ run'.pending = <<prompting>>
          /\ UNCHANGED <<steering, followUps, building, asked, entries>>
      BY <1>6 DEF StartPrompt, NoRun, queues, counters
    <2>2. P = {}
      BY <1>c, <1>d, <1>i, <2>1
    <2>3. prompting \in Messages
      BY <2>1 DEF Phases, InPreflight, Typed, FlagTypes
    <2>4. Once(<<prompting>>) /\ In(<<prompting>>) = R
      BY <1>i, <2>3 DEF Once, In
    <2>5. {prompting'} \cap Messages = {}
      BY <2>1, NoneIsNoMessage
    <2>6. Apart(S, F, R, E, {}, B, asked)
      BY <1>a, <1>b, <2>2, ApartMoves
    <2>7. QED
      BY <1>a, <1>i, <2>1, <2>4, <2>5, <2>6 DEF Placed
  <1>7. CASE BeginRun \/ Request
    <2>1. /\ entries' = entries \o Filed /\ UNCHANGED <<followUps, building, prompting, asked>>
          /\ \/ steering' = steering /\ run'.pending = <<>>
             \/ steering' = Left(steering) /\ run'.pending = Drained(steering)
      <3>1. CASE BeginRun
        BY <1>f, <3>1 DEF BeginRun, Deliver, RunShape, counters
      <3>2. CASE Request
        BY <1>f, <3>2 DEF Request, Deliver, RunShape, counters
      <3>3. QED
        BY <1>7, <3>1, <3>2
    <2>2. OfUsers(entries') = E \cup P /\ OnceWritten(entries')
      <3>1. /\ Filed \in Seq(Items) /\ Len(Filed) = Len(run.pending)
            /\ \A i \in 1 .. Len(run.pending) : Filed[i].role = "user" /\ Filed[i].of = run.pending[i]
        BY DeliveredIs DEF Typed
      <3>2. entries \in Seq(Items)
        BY <1>b DEF TextTypes
      <3>3. OfUsers(entries) \cap In(run.pending) = {}
        BY <1>a, <1>i DEF Apart
      <3>4. QED
        BY <1>a, <1>b, <1>i, <2>1, <3>1, <3>2, <3>3, UsersWritten
    <2>3. /\ Once(Drained(steering)) /\ Once(Left(steering))
          /\ In(Left(steering)) \cup In(Drained(steering)) = S /\ In(Left(steering)) \cap In(Drained(steering)) = {}
      BY <1>a, <1>b, <1>i, QueueSplit
    <2>4. /\ Apart(In(Left(steering)), F, In(Drained(steering)), E \cup P, R, B, asked)
          /\ Apart(S, F, {}, E \cup P, R, B, asked)
      <3>1. \A S2, P2 : S2 \cup P2 = S /\ S2 \cap P2 = {} => Apart(S2, F, P2, E \cup P, R, B, asked)
        BY <1>a, <1>b, ApartMoves
      <3>2. S \cup {} = S /\ S \cap {} = {}
        OBVIOUS
      <3>3. QED
        BY <2>3, <3>1, <3>2
    <2>5. CASE steering' = steering /\ run'.pending = <<>>
      BY <1>a, <1>c, <1>i, <2>1, <2>2, <2>4, <2>5 DEF Placed
    <2>6. CASE steering' = Left(steering) /\ run'.pending = Drained(steering)
      BY <1>a, <1>i, <2>1, <2>2, <2>3, <2>4, <2>6 DEF Placed
    <2>7. QED
      BY <2>1, <2>5, <2>6
  <1>8. ASSUME P = {}, UNCHANGED <<building, prompting, asked, entries>>,
               \/ UNCHANGED <<steering, followUps>> /\ run'.pending = <<>>
               \/ steering' = Left(steering) /\ followUps' = followUps /\ run'.pending = Drained(steering)
               \/ steering' = steering /\ followUps' = Left(followUps) /\ run'.pending = Drained(followUps)
        PROVE  Placed'
    <2>1. /\ Once(Drained(steering)) /\ Once(Left(steering))
          /\ In(Left(steering)) \cup In(Drained(steering)) = S /\ In(Left(steering)) \cap In(Drained(steering)) = {}
      BY <1>a, <1>b, <1>i, QueueSplit
    <2>2. /\ Once(Drained(followUps)) /\ Once(Left(followUps))
          /\ In(Left(followUps)) \cup In(Drained(followUps)) = F /\ In(Left(followUps)) \cap In(Drained(followUps)) = {}
      BY <1>a, <1>b, <1>i, QueueSplit
    <2>3. Apart(In(Left(steering)), F, In(Drained(steering)), E, R, B, asked)
      <3>1. \A S2, P2 : S2 \cup P2 = S /\ S2 \cap P2 = {} => Apart(S2, F, P2, E, R, B, asked)
        BY <1>a, <1>b, <1>8, ApartMoves
      <3>2. QED
        BY <2>1, <3>1
    <2>4. Apart(S, In(Left(followUps)), In(Drained(followUps)), E, R, B, asked)
      <3>1. \A F2, P2 : F2 \cup P2 = F /\ F2 \cap P2 = {} => Apart(S, F2, P2, E, R, B, asked)
        BY <1>a, <1>b, <1>8, ApartMoves
      <3>2. QED
        BY <2>2, <3>1
    <2>5. CASE UNCHANGED <<steering, followUps>> /\ run'.pending = <<>>
      BY <1>a, <1>c, <1>i, <1>8, <2>5 DEF Placed
    <2>6. CASE steering' = Left(steering) /\ followUps' = followUps /\ run'.pending = Drained(steering)
      BY <1>a, <1>i, <1>8, <2>1, <2>3, <2>6 DEF Placed
    <2>7. CASE steering' = steering /\ followUps' = Left(followUps) /\ run'.pending = Drained(followUps)
      BY <1>a, <1>i, <1>8, <2>2, <2>4, <2>7 DEF Placed
    <2>8. QED
      BY <1>8, <2>5, <2>6, <2>7
  <1>9. CASE Continue
    <2>1. P = {} /\ UNCHANGED <<building, prompting, asked, entries>>
      BY <1>c, <1>d, <1>i, <1>9 DEF Continue, session, counters
    <2> DEFINE steered == IsLast("assistant") /\ steering # <<>>
               followed == IsLast("assistant") /\ steering = <<>>
    <2>2. /\ steering' = IF steered THEN Left(steering) ELSE steering
          /\ followUps' = IF followed THEN Left(followUps) ELSE followUps
          /\ run'.pending = IF steered THEN Drained(steering) ELSE IF followed THEN Drained(followUps) ELSE <<>>
      BY <1>9 DEF Continue, NoRun
    <2>3. ~(steered /\ followed)
      OBVIOUS
    <2> HIDE DEF steered, followed
    <2>4. QED
      BY <1>8, <2>1, <2>2, <2>3
  <1>10. CASE EndTurn
    <2>1. P = {} /\ UNCHANGED <<building, prompting, asked, entries>>
      BY <1>c, <1>i, <1>10 DEF EndTurn, session, counters, Typed, RunTypes
    <2> DEFINE stops == run.pc = "turn" /\ steering = <<>>
    <2>2. /\ steering' = Left(steering)
          /\ followUps' = IF stops THEN Left(followUps) ELSE followUps
          /\ run'.pending = IF stops THEN Drained(followUps) ELSE Drained(steering)
      BY <1>f, <1>10 DEF EndTurn, RunShape
    <2>3. stops => Left(steering) = steering
      BY DEF Left
    <2> HIDE DEF stops
    <2>4. QED
      BY <1>8, <2>1, <2>2, <2>3
  <1>11. CASE PrepareCall \/ BackoffEnds \/ Settled \/ UNCHANGED vars
    <2>1. UNCHANGED <<steering, followUps, building, prompting, asked, entries>> /\ run'.pending = run.pending
      BY <1>f, <1>11 DEF PrepareCall, BackoffEnds, Settled, vars, queues, session, counters, RunShape
    <2>2. QED
      BY <1>1, <2>1
  <1>12. CASE Abort
    <2>1. UNCHANGED <<steering, followUps, building, prompting, asked, entries>> /\ run'.pending = run.pending
      BY <1>f, <1>12 DEF Abort, queues, RunShape
    <2>2. QED
      BY <1>1, <2>1
  <1>13. ASSUME NEW k \in 1 .. CallCount, ExecuteCall(k) PROVE Placed'
    <2>1. UNCHANGED <<steering, followUps, building, prompting, asked, entries>> /\ run'.pending = run.pending
      BY <1>f, <1>13 DEF ExecuteCall, queues, session, counters, RunShape
    <2>2. QED
      BY <1>1, <2>1
  <1>14. CASE WritesOthers
    <2>1. OfUsers(entries') = E /\ OnceWritten(entries')
      BY <1>a, <1>i, <1>14, FileGrows
    <2>2. UNCHANGED <<steering, followUps, building, prompting, asked>> /\ run'.pending = run.pending
      BY <1>14, OthersStay
    <2>3. QED
      BY <1>a, <1>i, <2>1, <2>2 DEF Placed
  <1>15. QED
    BY <1>2, <1>3, <1>4, <1>5, <1>6, <1>7, <1>9, <1>10, <1>11, <1>12, <1>13, <1>14, WhichStep
       DEF QuietStep, WritesOthers, AloneStep


LEMMA AtMostOne ==
    ASSUME NEW S, \A x, y \in S : x = y
    PROVE  Cardinality(S) <= 1
  <1>1. CASE S = {}
    BY <1>1, FS_EmptySet
  <1>2. ASSUME NEW x \in S PROVE Cardinality(S) <= 1
    <2>1. S = {x}
      OBVIOUS
    <2>2. QED
      <3>1. Cardinality({x}) = 1
        BY FS_Singleton, Zenon
      <3>2. QED
        BY <2>1, <3>1
  <1>3. QED
    BY <1>1, <1>2

LEMMA PlacedOnce ==
    ASSUME Typed, Placed, NEW m \in Messages
    PROVE  Cardinality(Places(m)) <= (IF m <= asked THEN 1 ELSE 0)
  <1> DEFINE c1 == At("steering", steering, m)
             c2 == At("followUps", followUps, m)
             c3 == At("pending", run.pending, m)
             c4 == {<<"entries", i>> : i \in Written(m)}
             c5 == {<<"prompting", 0>> : b \in {prompting} \cap {m}}
             c6 == {<<b[2], 0>> : b \in {file \in building : file[1] = m}}
             S == In(steering)
             F == In(followUps)
             P == In(run.pending)
             E == OfUsers(entries)
             R == {prompting} \cap Messages
             B == Read(building)
  <1>1. Places(m) = c1 \cup c2 \cup c3 \cup c4 \cup c5 \cup c6
    BY DEF Places
  <1>2. ASSUME NEW place, NEW queue, Once(queue)
        PROVE  (\A x, y \in At(place, queue, m) : x = y) /\ (At(place, queue, m) # {} => m \in In(queue))
    <2>1. ASSUME NEW x \in At(place, queue, m) PROVE \E i \in DOMAIN queue : queue[i] = m /\ x = <<place, i>>
      BY DEF At
    <2>2. QED
      BY <1>2, <2>1 DEF Once, In
  <1>3. (\A x, y \in c1 : x = y) /\ (c1 # {} => m \in S)
    BY <1>2 DEF Placed
  <1>4. (\A x, y \in c2 : x = y) /\ (c2 # {} => m \in F)
    BY <1>2 DEF Placed
  <1>5. (\A x, y \in c3 : x = y) /\ (c3 # {} => m \in P)
    BY <1>2 DEF Placed
  <1>6. (\A x, y \in c4 : x = y) /\ (c4 # {} => m \in E)
    BY DEF Placed, OnceWritten, OfUsers, Users, Written
  <1>7. (\A x, y \in c5 : x = y) /\ (c5 # {} => m \in R)
    OBVIOUS
  <1>8. (\A x, y \in c6 : x = y) /\ (c6 # {} => m \in B)
    BY DEF Placed, Read
  <1>9. Apart(S, F, P, E, R, B, asked)
    BY DEF Placed
  <1> HIDE DEF c1, c2, c3, c4, c5, c6, S, F, P, E, R, B
  <1>10. \A x, y \in Places(m) : x = y
    <2>1. ~(m \in S /\ m \in F \cup P \cup E \cup R \cup B) /\ ~(m \in F /\ m \in P \cup E \cup R \cup B)
          /\ ~(m \in P /\ m \in E \cup R \cup B) /\ ~(m \in E /\ m \in R \cup B) /\ ~(m \in R /\ m \in B)
      BY <1>9 DEF Apart
    <2>2. \/ Places(m) = {} \/ Places(m) = c1 \/ Places(m) = c2 \/ Places(m) = c3
          \/ Places(m) = c4 \/ Places(m) = c5 \/ Places(m) = c6
      BY <1>1, <1>3, <1>4, <1>5, <1>6, <1>7, <1>8, <2>1
    <2>3. QED
      BY <1>3, <1>4, <1>5, <1>6, <1>7, <1>8, <2>2
  <1>11. CASE m <= asked
    BY <1>10, <1>11, AtMostOne
  <1>12. CASE ~(m <= asked)
    <2>1. S \cup F \cup P \cup E \cup R \cup B \subseteq 1 .. asked /\ asked \in Nat
      BY <1>9 DEF Apart, Typed, FlagTypes
    <2>2. m \notin 1 .. asked
      BY <1>12, <2>1
    <2>3. m \notin S \cup F \cup P \cup E \cup R \cup B
      BY <2>1, <2>2
    <2>4. Places(m) = {}
      BY <1>1, <1>3, <1>4, <1>5, <1>6, <1>7, <1>8, <2>3
    <2>5. QED
      BY <1>12, <2>4, FS_EmptySet
  <1>13. QED
    BY <1>11, <1>12

(***************************************************************************)
(* However prompts, steering, follow-ups, drained queues, retries and      *)
(* compactions follow each other, a message of the user is in one place at *)
(* most - its files being read, queued, pending in the run or in the file -*)
(* and so is never delivered twice (agent.ts, PendingMessageQueue.drain;   *)
(* agent-session.ts, handlePostAgentRun).                                  *)
(***************************************************************************)
THEOREM MessagesInOnePlace == Spec => []InOnePlace
  <1>1. Init => Placed
    <2> SUFFICES ASSUME Init PROVE Placed
      OBVIOUS
    <2>1. steering = <<>> /\ followUps = <<>> /\ run.pending = <<>> /\ entries = <<>> /\ building = {} /\ prompting = None /\ asked = 0
      BY DEF Init, NoRun
    <2>2. Once(<<>>) /\ In(<<>>) = {}
      BY DEF Once, In
    <2>3. OnceWritten(<<>>) /\ OfUsers(<<>>) = {}
      BY DEF OnceWritten, OfUsers, Users
    <2>4. {None} \cap Messages = {} /\ Read({}) = {}
      BY NoneIsNoMessage DEF Read
    <2>5. Apart({}, {}, {}, {}, {}, {}, 0)
      BY DEF Apart
    <2>6. QED
      BY <2>1, <2>2, <2>3, <2>4, <2>5 DEF Placed
  <1>2. Typed /\ Phases /\ Placed /\ [Next]_vars => Placed'
    BY PlacedStep
  <1>3. Typed /\ Placed => InOnePlace
    BY PlacedOnce DEF InOnePlace
  <1>4. QED
    BY <1>1, <1>2, <1>3, PhasesInit, PhasesStep, TypedInit, TypedStep, PTL DEF Spec


-----------------------------------------------------------------------------
(***************************************************************************)
(* Failures in a row, in any list of messages.                             *)
(***************************************************************************)
FailedIn(s, i) == s[i].role = "assistant" /\ s[i].n = 0 /\ s[i].note \in Cut

Aside == {"compaction", "bash"}

Row(s) == {i \in DOMAIN s : FailedIn(s, i) /\ \A k \in i .. Len(s) : FailedIn(s, k) \/ s[k].role \in Aside}

LEMMA InARowIs == InARow = Cardinality(Row(entries))
  BY DEF InARow, FailedRow, Row, Failed, FailedIn, Cut, Aside

LEMMA InARowBecomes == InARow' = Cardinality(Row(entries'))
  BY DEF InARow, FailedRow, Row, Failed, FailedIn, Cut, Aside

LEMMA RowFinite ==
    ASSUME NEW s \in Seq(Items)
    PROVE  IsFiniteSet(Row(s)) /\ Cardinality(Row(s)) \in Nat /\ (Row(s) = {} => Cardinality(Row(s)) = 0)
           /\ Row(s) \subseteq 1 .. Len(s) /\ (Cardinality(Row(s)) = 0 => Row(s) = {})
  <1>1. Len(s) \in Nat /\ DOMAIN s = 1 .. Len(s)
    OBVIOUS
  <1>2. Row(s) \in SUBSET (1 .. Len(s))
    BY <1>1 DEF Row
  <1>3. IsFiniteSet(1 .. Len(s))
    BY <1>1, FS_Interval
  <1>4. IsFiniteSet(Row(s))
    BY <1>2, <1>3, FS_Subset
  <1>5. QED
    BY <1>2, <1>4, FS_CardinalityType, FS_EmptySet

\* Commands and summaries are passed over.
LEMMA RowPasses ==
    ASSUME NEW s \in Seq(Items), NEW t \in Seq(Items), Extends(s, t), \A i \in Len(s) + 1 .. Len(t) : t[i].role \in Aside
    PROVE  Row(t) = Row(s)
  <1>1. Len(s) \in Nat /\ Len(t) \in Nat /\ Len(s) <= Len(t) /\ DOMAIN s = 1 .. Len(s) /\ DOMAIN t = 1 .. Len(t)
    BY DEF Extends
  <1>2. \A i \in 1 .. Len(s) : i \in 1 .. Len(t) /\ t[i] = s[i]
    BY <1>1 DEF Extends
  <1>3. \A i \in 1 .. Len(t) : i \in 1 .. Len(s) \/ i \in Len(s) + 1 .. Len(t)
    BY <1>1
  <1>4. ASSUME NEW i \in Row(t) PROVE i \in Row(s)
    <2>1. i \in 1 .. Len(t) /\ FailedIn(t, i) /\ \A k \in i .. Len(t) : FailedIn(t, k) \/ t[k].role \in Aside
      BY <1>1, <1>4 DEF Row
    <2>2. i \in 1 .. Len(s)
      BY <1>3, <2>1 DEF FailedIn, Aside
    <2>3. ASSUME NEW k \in i .. Len(s) PROVE FailedIn(s, k) \/ s[k].role \in Aside
      <3>1. k \in i .. Len(t) /\ k \in 1 .. Len(s)
        BY <1>1, <2>2
      <3>2. QED
        BY <1>2, <2>1, <3>1 DEF FailedIn
    <2>4. FailedIn(s, i)
      BY <1>2, <2>1, <2>2 DEF FailedIn
    <2>5. QED
      BY <1>1, <2>2, <2>3, <2>4 DEF Row
  <1>5. ASSUME NEW i \in Row(s) PROVE i \in Row(t)
    <2>1. i \in 1 .. Len(s) /\ FailedIn(s, i) /\ \A k \in i .. Len(s) : FailedIn(s, k) \/ s[k].role \in Aside
      BY <1>1, <1>5 DEF Row
    <2>2. ASSUME NEW k \in i .. Len(t) PROVE FailedIn(t, k) \/ t[k].role \in Aside
      <3>1. CASE k \in Len(s) + 1 .. Len(t)
        BY <3>1
      <3>2. CASE k \in i .. Len(s)
        <4>1. k \in 1 .. Len(s)
          BY <2>1, <3>2
        <4>2. QED
          BY <1>2, <2>1, <3>2, <4>1 DEF FailedIn
      <3>3. QED
        BY <1>1, <2>1, <3>1, <3>2
    <2>3. FailedIn(t, i) /\ i \in 1 .. Len(t)
      BY <1>2, <2>1 DEF FailedIn
    <2>4. QED
      BY <1>1, <2>2, <2>3 DEF Row
  <1>6. QED
    BY <1>4, <1>5

\* Anything else but a failure ends them.
LEMMA RowEnds ==
    ASSUME NEW t \in Seq(Items), t # <<>>, t[Len(t)].role \notin Aside, ~FailedIn(t, Len(t))
    PROVE  Row(t) = {}
  <1>1. Len(t) \in Nat /\ DOMAIN t = 1 .. Len(t)
    OBVIOUS
  <1>2. ASSUME NEW i \in Row(t) PROVE FALSE
    <2>1. i \in 1 .. Len(t) /\ \A k \in i .. Len(t) : FailedIn(t, k) \/ t[k].role \in Aside
      BY <1>1, <1>2 DEF Row
    <2>2. Len(t) \in i .. Len(t)
      BY <1>1, <2>1
    <2>3. QED
      BY <2>1, <2>2
  <1>3. QED
    BY <1>2

\* A failure is one more.
LEMMA RowGrows ==
    ASSUME NEW s \in Seq(Items), NEW e \in Items, e.role = "assistant", e.n = 0, e.note \in Cut
    PROVE  Cardinality(Row(Append(s, e))) = Cardinality(Row(s)) + 1
  <1> DEFINE t == Append(s, e)
             L == Len(s)
  <1>1. /\ t \in Seq(Items) /\ Len(t) = L + 1 /\ t[L + 1] = e /\ L \in Nat
        /\ DOMAIN s = 1 .. L /\ DOMAIN t = 1 .. L + 1
        /\ \A i \in 1 .. L : t[i] = s[i]
    OBVIOUS
  <1> HIDE DEF t, L
  <1>2. FailedIn(t, L + 1)
    BY <1>1 DEF FailedIn
  <1>3. \A i \in 1 .. L : FailedIn(t, i) = FailedIn(s, i)
    BY <1>1 DEF FailedIn
  <1>4. L + 1 \in Row(t)
    <2>1. L + 1 \in 1 .. L + 1 /\ \A k \in L + 1 .. L + 1 : k = L + 1
      BY <1>1
    <2>2. QED
      BY <1>1, <1>2, <2>1 DEF Row
  <1>5. ASSUME NEW i \in 1 .. L PROVE i \in Row(t) <=> i \in Row(s)
    <2>1. \A k \in i .. L : k \in 1 .. L /\ k \in i .. L + 1
      BY <1>1
    <2>2. \A k \in i .. L + 1 : k \in i .. L \/ k = L + 1
      BY <1>1
    <2>3. i \in 1 .. L + 1
      BY <1>1
    <2>4. \A k \in i .. L : (FailedIn(t, k) \/ t[k].role \in Aside) <=> (FailedIn(s, k) \/ s[k].role \in Aside)
      BY <1>1, <1>3, <2>1
    <2>5. (\A k \in i .. L + 1 : FailedIn(t, k) \/ t[k].role \in Aside)
             <=> (\A k \in i .. L : FailedIn(s, k) \/ s[k].role \in Aside)
      BY <1>2, <2>1, <2>2, <2>4
    <2>6. QED
      BY <1>1, <1>3, <2>3, <2>5 DEF Row, L
  <1>6. Row(s) \subseteq 1 .. L /\ Row(t) \subseteq 1 .. L + 1 /\ L + 1 \notin 1 .. L
    BY <1>1 DEF Row
  <1>7. \A i \in 1 .. L + 1 : i \in 1 .. L \/ i = L + 1
    BY <1>1
  <1>8. Row(t) = Row(s) \cup {L + 1} /\ L + 1 \notin Row(s)
    BY <1>4, <1>5, <1>6, <1>7
  <1>9. IsFiniteSet(Row(s)) /\ Cardinality(Row(s)) \in Nat
    BY RowFinite
  <1>10. Cardinality(Row(s) \cup {L + 1}) = Cardinality(Row(s)) + 1
    BY <1>8, <1>9, FS_AddElement
  <1>11. QED
    BY <1>8, <1>10 DEF t

LEMMA QuotaIs ==
    ASSUME NEW n \in Nat
    PROVE  Quota(n) \in Nat /\ Quota(n + 1) = Quota(n) + MaxRetries + 1
  BY DEF Quota

\* What the steps add to the file.
LEMMA RowOfBashes ==
    ASSUME NEW s \in Seq(Items), TextTypes
    PROVE  Row(s \o bashes) = Row(s) /\ \A b \in Bashes : Row(Append(s, b)) = Row(s)
  <1>1. bashes \in Seq(Items) /\ Len(bashes) \in Nat /\ \A i \in 1 .. Len(bashes) : bashes[i] \in Bashes
    BY BashesTyped DEF TextTypes
  <1>2. /\ s \o bashes \in Seq(Items) /\ Extends(s, s \o bashes) /\ Len(s \o bashes) = Len(s) + Len(bashes)
        /\ \A i \in Len(s) + 1 .. Len(s) + Len(bashes) : (s \o bashes)[i] = bashes[i - Len(s)] /\ i - Len(s) \in 1 .. Len(bashes)
    <2>1. \E e : e \in Items
      BY ItemsTyped
    <2>2. QED
      BY <1>1, <2>1, ExtendsIs
  <1>3. \A i \in Len(s) + 1 .. Len(s \o bashes) : (s \o bashes)[i].role \in Aside
    BY <1>1, <1>2, BashIs DEF Aside
  <1>4. Row(s \o bashes) = Row(s)
    BY <1>2, <1>3, RowPasses
  <1>5. ASSUME NEW b \in Bashes PROVE Row(Append(s, b)) = Row(s)
    <2>1. b \in Items /\ b.role \in Aside
      BY BashesTyped, BashIs DEF Aside
    <2>2. /\ Append(s, b) \in Seq(Items) /\ Extends(s, Append(s, b)) /\ Len(Append(s, b)) = Len(s) + 1
          /\ Append(s, b)[Len(s) + 1] = b /\ Len(s) \in Nat
      BY <2>1, ExtendsIs
    <2>3. \A i \in Len(s) + 1 .. Len(Append(s, b)) : Append(s, b)[i].role \in Aside
      BY <2>1, <2>2
    <2>4. QED
      BY <2>2, <2>3, RowPasses
  <1>6. QED
    BY <1>4, <1>5

LEMMA FilingIs ==
    ASSUME TextTypes, NEW cut \in 1 .. Len(entries)
    PROVE  Filing(cut) \in Seq(Items) /\ Row(Filing(cut)) = Row(entries)
           /\ Len(Filing(cut)) = Len(entries) + 1 /\ Filing(cut)[Len(entries) + 1].role = "compaction"
  <1> DEFINE e == Item("compaction", cut, 0, "none")
  <1>1. entries \in Seq(Items) /\ Len(entries) \in Nat /\ cut \in Nat \ {0}
    BY DEF TextTypes
  <1>2. e \in Items /\ e.role = "compaction"
    BY <1>1, ItemsTyped DEF Item
  <1>3. Filing(cut) = Append(entries, e)
    BY DEF Filing
  <1> HIDE DEF e
  <1>4. /\ Append(entries, e) \in Seq(Items) /\ Extends(entries, Append(entries, e))
        /\ Len(Append(entries, e)) = Len(entries) + 1 /\ Append(entries, e)[Len(entries) + 1] = e
    BY <1>1, <1>2, ExtendsIs
  <1>5. \A i \in Len(entries) + 1 .. Len(Append(entries, e)) : Append(entries, e)[i].role \in Aside
    BY <1>1, <1>2, <1>4 DEF Aside
  <1>6. QED
    BY <1>1, <1>2, <1>3, <1>4, <1>5, RowPasses


LEMMA QuietRow ==
    ASSUME Typed, Phases, QuietStep \/ AloneStep \/ RecordBash
    PROVE  InARow' = InARow
  <1> SUFFICES Row(entries') = Row(entries)
    BY InARowIs, InARowBecomes
  <1>1. TextTypes /\ entries \in Seq(Items)
    BY DEF Typed, TextTypes
  <1>2. CASE QuietStep
    BY <1>1, <1>2, QuietKeeps
  <1>3. CASE RecordBash
    BY <1>1, <1>3, RecordBashWrites, RowOfBashes
  <1>4. CASE AloneStep
    <2>1. CASE CompactFirst
      BY <2>1 DEF CompactFirst
    <2>2. ASSUME NEW messages, Leaves(messages, entries) PROVE Row(entries') = Row(entries)
      BY <1>1, <2>2, RowOfBashes DEF Leaves
    <2>3. CASE EndRun \/ CancelRetry \/ ContinueFails \/ NotSummarized
      BY <2>2, <2>3, EndRunLeaves, OthersLeave
    <2>4. CASE Summarized
      <3> DEFINE file == Filing(compaction.cut)
      <3>1. compaction.cut \in 1 .. Len(entries)
        BY <2>4 DEF Summarized, Typed, CutTypes
      <3>2. file \in Seq(Items) /\ Row(file) = Row(entries)
        BY <1>1, <3>1, FilingIs
      <3>3. entries' = file \/ entries' = file \o bashes
        BY <2>4, SummarizedLeaves DEF Leaves
      <3> HIDE DEF file
      <3>4. QED
        BY <1>1, <3>2, <3>3, RowOfBashes
    <2>5. QED
      BY <1>4, <2>1, <2>3, <2>4 DEF AloneStep
  <1>5. QED
    BY <1>2, <1>3, <1>4

\* A delivery without messages changes nothing, one with messages ends the failures.
LEMMA DeliverRow ==
    ASSUME Typed, Deliver
    PROVE  /\ run.pending = <<>> => UNCHANGED <<transcript, entries, overflowed>> /\ InARow' = InARow
           /\ run.pending # <<>> => InARow' = 0 /\ ~Word(transcript') /\ ~Word(entries') /\ transcript' # <<>>
  <1>1. /\ transcript \in Seq(Items) /\ entries \in Seq(Items) /\ run.pending \in Seq(Messages) /\ overflowed \in BOOLEAN
        /\ transcript' = transcript \o Delivered /\ entries' = entries \o Filed
        /\ overflowed' = (overflowed /\ run.pending = <<>>)
    BY DEF Typed, TextTypes, FlagTypes, RunTypes, Deliver
  <1>2. /\ Delivered \in Seq(Items) /\ Len(Delivered) = Len(run.pending)
        /\ Filed \in Seq(Items) /\ Len(Filed) = Len(run.pending)
        /\ \A i \in 1 .. Len(run.pending) : Delivered[i].role = "user" /\ Filed[i].role = "user"
    BY DeliveredIs DEF Typed
  <1>3. CASE run.pending = <<>>
    <2>1. Delivered = <<>> /\ Filed = <<>>
      BY <1>2, <1>3
    <2>2. UNCHANGED <<transcript, entries, overflowed>>
      BY <1>1, <1>3, <2>1
    <2>3. QED
      BY <1>3, <2>2, InARowIs, InARowBecomes
  <1>4. CASE run.pending # <<>>
    <2>1. Len(run.pending) \in Nat \ {0}
      BY <1>1, <1>4
    <2>2. ASSUME NEW s \in Seq(Items), NEW more \in Seq(Items), Len(more) = Len(run.pending),
                 \A i \in 1 .. Len(run.pending) : more[i].role = "user"
          PROVE  s \o more # <<>> /\ s \o more \in Seq(Items) /\ (s \o more)[Len(s \o more)].role = "user"
      <3> DEFINE N == Len(s) + Len(more)
      <3>1. s \o more \in Seq(Items) /\ Len(s \o more) = N /\ Len(s) \in Nat
        OBVIOUS
      <3>2. N \in Len(s) + 1 .. N /\ N - Len(s) = Len(more) /\ N # 0
        BY <2>1, <2>2, <3>1
      <3>3. (s \o more)[N] = more[N - Len(s)]
        BY <2>2, <3>1, <3>2
      <3>4. Len(more) \in 1 .. Len(run.pending)
        BY <2>1, <2>2
      <3>5. s \o more # <<>>
        BY <3>1, <3>2
      <3>6. QED
        BY <2>2, <3>1, <3>2, <3>3, <3>4, <3>5
    <2>3. transcript' # <<>> /\ transcript'[Len(transcript')].role = "user"
          /\ entries' \in Seq(Items) /\ entries' # <<>> /\ entries'[Len(entries')].role = "user"
      BY <1>1, <1>2, <2>2
    <2>4. ~Word(transcript') /\ ~Word(entries')
      BY <2>3 DEF Word
    <2>5. Row(entries') = {}
      BY <2>3, RowEnds DEF FailedIn, Aside
    <2>6. InARow' = 0
      BY <2>5, InARowBecomes, FS_EmptySet
    <2>7. QED
      BY <1>4, <2>3, <2>4, <2>6
  <1>5. QED
    BY <1>3, <1>4

LEMMA ResultsRow ==
    ASSUME Typed, EndBatch
    PROVE  /\ InARow' = 0 /\ transcript' # <<>> /\ entries' # <<>>
           /\ transcript'[Len(transcript')].role = "result" /\ entries'[Len(entries')].role = "result"
  <1>1. PICK n \in 1 .. Len(run.calls) :
           /\ Results \in Seq(Items) /\ Len(Results) = n /\ Len(run.calls) \in 1 .. CallCount
           /\ \A k \in 1 .. n : Results[k].role = "result"
    BY ResultsAre DEF Typed
  <1>2. n \in Nat \ {0} /\ n \in 1 .. n
    BY <1>1
  <1>3. ASSUME NEW s \in Seq(Items)
        PROVE  s \o Results # <<>> /\ s \o Results \in Seq(Items) /\ (s \o Results)[Len(s \o Results)].role = "result"
    <2> DEFINE N == Len(s) + n
    <2>1. s \o Results \in Seq(Items) /\ Len(s \o Results) = N /\ Len(s) \in Nat
      BY <1>1
    <2>2. N \in Len(s) + 1 .. N /\ N - Len(s) = n /\ N # 0
      BY <1>2, <2>1
    <2>3. (s \o Results)[N] = Results[N - Len(s)]
      BY <1>1, <2>1, <2>2
    <2>4. s \o Results # <<>>
      BY <2>1, <2>2
    <2>5. QED
      BY <1>1, <1>2, <2>1, <2>2, <2>3, <2>4
  <1>4. transcript' = transcript \o Results /\ entries' = entries \o Results
        /\ transcript \in Seq(Items) /\ entries \in Seq(Items)
    BY DEF EndBatch, Typed, TextTypes
  <1>5. entries' \in Seq(Items) /\ entries' # <<>> /\ entries'[Len(entries')].role = "result"
        /\ transcript' # <<>> /\ transcript'[Len(transcript')].role = "result"
    BY <1>3, <1>4
  <1>6. Row(entries') = {}
    BY <1>5, RowEnds DEF FailedIn, Aside
  <1>7. QED
    BY <1>5, <1>6, InARowBecomes, FS_EmptySet

\* An answer: a failed one is one more, any other ends the failures.
LEMMA AnswerRow ==
    ASSUME Typed, Phases, Answer
    PROVE  \E answer \in Items :
              /\ answer.role = "assistant" /\ answer.note \in Stops(answer.n) /\ answer.note \in Stopping /\ answer.n \in 0 .. CallCount
              /\ transcript' = Append(transcript, answer) /\ entries' = Append(entries, answer)
              /\ last' = answer.note /\ overflowed' = (overflowed /\ answer.note \in Cut)
              /\ retry' = IF answer.note \in Failures THEN retry ELSE 0
              /\ InARow' = IF answer.n = 0 /\ answer.note \in Cut THEN InARow + 1 ELSE 0
              /\ run'.pc = IF answer.note \in Failures \cup {"aborted"} THEN "ending" ELSE IF answer.n > 0 THEN "tools" ELSE "turn"
              /\ answer.n > 0 => ~run.dead
  <1>1. PICK answer \in Items, serial \in BOOLEAN :
           /\ Answered(answer, serial)
           /\ answer.role = "assistant" /\ answer.n \in 0 .. CallCount /\ answer.note \in Stopping
           /\ answer.note \in Stops(answer.n) /\ (answer.n > 0 => ~run.dead)
    BY AnswerWrites DEF Typed
  <1>2. /\ transcript' = Append(transcript, answer) /\ entries' = Append(entries, answer)
        /\ last' = answer.note /\ overflowed' = (overflowed /\ answer.note \in Cut)
        /\ retry' = IF answer.note \in Failures THEN retry ELSE 0
    BY <1>1 DEF Answered, Cut
  <1>3. run'.pc = IF answer.note \in Failures \cup {"aborted"} THEN "ending" ELSE IF answer.n > 0 THEN "tools" ELSE "turn"
    BY <1>1 DEF Answered, AnsweredWith, Phases, OneRun, RunShape
  <1>4. entries \in Seq(Items)
    BY DEF Typed, TextTypes
  <1>5. CASE answer.n = 0 /\ answer.note \in Cut
    <2>1. InARow' = InARow + 1
      BY <1>1, <1>2, <1>4, <1>5, RowGrows, InARowIs, InARowBecomes
    <2>2. QED
      BY <1>1, <1>2, <1>3, <1>5, <2>1
  <1>6. CASE ~(answer.n = 0 /\ answer.note \in Cut)
    <2>1. /\ Append(entries, answer) \in Seq(Items) /\ Append(entries, answer) # <<>>
          /\ Append(entries, answer)[Len(Append(entries, answer))] = answer
      BY <1>4
    <2>2. Row(entries') = {}
      BY <1>1, <1>2, <1>6, <2>1, RowEnds DEF FailedIn, Aside
    <2>3. InARow' = 0
      BY <2>2, InARowBecomes, FS_EmptySet
    <2>4. QED
      BY <1>1, <1>2, <1>3, <1>6, <2>3
  <1>7. QED
    BY <1>5, <1>6


LEMMA CountsAre ==
    ASSUME Typed
    PROVE  /\ InARow \in Nat /\ Pardons \in Nat /\ retry \in 0 .. MaxRetries /\ aborts \in Nat /\ overflowed \in BOOLEAN
           /\ Quota(Pardons) \in Nat /\ Quota(Pardons + 1) = Quota(Pardons) + MaxRetries + 1
  <1>1. retry \in 0 .. MaxRetries /\ aborts \in Nat /\ overflowed \in BOOLEAN /\ entries \in Seq(Items)
    BY DEF Typed, FlagTypes, TextTypes
  <1>2. Pardons \in Nat
    BY <1>1 DEF Pardons
  <1>3. QED
    BY <1>1, <1>2, QuotaIs, InARowIs, RowFinite

\* No failures, or as many as before, do not exceed what is allowed.
LEMMA NoneInARow ==
    ASSUME Typed, InARow = 0
    PROVE  Strong /\ Weak
  BY CountsAre DEF Strong, Weak

LEMMA StrongIsWeak ==
    ASSUME Typed, Strong
    PROVE  Weak
  BY CountsAre DEF Strong, Weak

\* Where the decision after a run leads, with which messages.
LEMMA ResumesWith ==
    ASSUME NEW messages, NEW file, Resume(messages, file)
    PROVE  phase' = "idle" \/ (phase' = "continuing" /\ transcript' = messages /\ entries' = file /\ Queued)
  BY DEF Resume, Settle, ContinueWith

LEMMA CompactsOrResumesWith ==
    ASSUME NEW why, NEW messages, CompactOrResume(why, messages)
    PROVE  \/ phase' = "idle"
           \/ /\ phase' = "continuing" /\ transcript' = messages /\ entries' = entries
              /\ Queued /\ (why = "after" \/ Cuts = {})
           \/ /\ phase' = "compacting" /\ transcript' = messages /\ entries' = entries /\ compaction'.why = why
              /\ compaction'.cut \in Cuts
  <1>1. CASE Compacts(why) /\ transcript' = messages /\ entries' = entries
    <2>1. PICK cut \in Cuts : compaction' = [why |-> why, cut |-> cut]
      BY <1>1 DEF Compacts
    <2>2. QED
      BY <1>1, <2>1 DEF Compacts
  <1>2. CASE (why = "after" \/ Cuts = {}) /\ Resume(messages, entries)
    BY <1>2, ResumesWith
  <1>3. QED
    BY <1>1, <1>2 DEF CompactOrResume

\* The last entry is the last message of what a summary keeps.
LEMMA RebuiltWord ==
    ASSUME TextTypes, NEW cut \in 1 .. Len(entries)
    PROVE  /\ Word(Rebuilt(cut)) <=> Word(entries)
           /\ Rebuilt(cut) # <<>> /\ Rebuilt(cut)[Len(Rebuilt(cut))] = entries[Len(entries)]
  <1>1. Len(entries) \in Nat /\ entries # <<>> /\ cut \in Nat /\ cut <= Len(entries) /\ cut >= 1
    BY DEF TextTypes
  <1> DEFINE t == Rebuilt(cut)
  <1>2. /\ t \in Seq(Items) /\ Len(t) = Len(entries) - cut + 2
        /\ \A i \in 2 .. Len(t) : t[i] = entries[i + cut - 2]
    BY RebuiltIs DEF TextTypes
  <1> HIDE DEF t
  <1>3. Len(t) \in 2 .. Len(t) /\ Len(t) + cut - 2 = Len(entries)
    <2> DEFINE N == Len(t)
               M == Len(entries)
    <2>1. N = M - cut + 2 /\ M \in Nat /\ cut \in Nat /\ cut <= M
      BY <1>1, <1>2
    <2> HIDE DEF N, M
    <2>2. N \in 2 .. N /\ N + cut - 2 = M
      BY <2>1
    <2>3. QED
      BY <2>2 DEF N, M
  <1>4. t # <<>> /\ t[Len(t)] = entries[Len(entries)]
    <2>1. t[Len(t)] = entries[Len(t) + cut - 2]
      BY <1>2, <1>3
    <2>2. t # <<>>
      BY <1>3
    <2>3. QED
      BY <1>3, <2>1, <2>2
  <1>5. QED
    BY <1>1, <1>4 DEF Word, t

\* A step that leaves the counts alone.
SameCounts == UNCHANGED <<aborts, overflowed, retry, last>> /\ InARow' = InARow

LEMMA SameBounds ==
    ASSUME SameCounts
    PROVE  Pardons' = Pardons /\ (Strong' <=> Strong) /\ (Weak' <=> Weak)
  BY DEF SameCounts, Pardons, Strong, Weak

\* The loop asks again without new messages only after results, and a run that
\* goes on has a prompt unless the model has been spoken to.
LEMMA DrawsOrMore ==
    ASSUME Phases, EndTurn, run'.pc = "deliver", run'.pending = <<>>
    PROVE  run.pc = "more"
  <1> DEFINE stops == run.pc = "turn" /\ steering = <<>>
  <1>1. /\ run.pc \in {"turn", "more"}
        /\ run'.pending = (IF stops THEN Drained(followUps) ELSE Drained(steering))
        /\ run'.pc = (IF stops /\ followUps = <<>> THEN "ending" ELSE "deliver")
    BY DEF EndTurn, Phases, OneRun, RunShape
  <1>2. CASE stops
    <2>1. followUps # <<>> /\ run'.pending = Drained(followUps)
      BY <1>1, <1>2
    <2>2. QED
      BY <2>1 DEF Drained
  <1>3. CASE ~stops /\ steering # <<>>
    <2>1. run'.pending = Drained(steering)
      BY <1>1, <1>3
    <2>2. QED
      BY <1>3, <2>1 DEF Drained
  <1>4. CASE ~stops /\ steering = <<>>
    BY <1>1, <1>4
  <1>5. QED
    BY <1>2, <1>3, <1>4

LEMMA DrawsOrAsks ==
    ASSUME Continue, run'.pending = <<>>
    PROVE  ~Word(transcript)
  <1> DEFINE steered == IsLast("assistant") /\ steering # <<>>
             followed == IsLast("assistant") /\ steering = <<>>
  <1>1. /\ run'.pending = (IF steered THEN Drained(steering) ELSE IF followed THEN Drained(followUps) ELSE <<>>)
        /\ IsLast("assistant") => Queued
    BY DEF Continue, NoRun
  <1>2. CASE steered
    <2>1. run'.pending = Drained(steering)
      BY <1>1, <1>2
    <2>2. QED
      BY <1>2, <2>1 DEF Drained
  <1>3. CASE followed
    <2>1. run'.pending = Drained(followUps) /\ followUps # <<>>
      BY <1>1, <1>3 DEF Queued
    <2>2. QED
      BY <2>1 DEF Drained
  <1>4. QED
    BY <1>2, <1>3 DEF Word, IsLast

LEMMA CountedQuiet ==
    ASSUME Typed, Typed', Phases, Phases', Counted, QuietStep
    PROVE  Counted'
  <1> USE DEF Phases, OneRun
  <1>a. UNCHANGED <<transcript, entries, compaction>> /\ InARow' = InARow
    BY QuietKeeps, QuietRow DEF Typed
  <1>b. (LastWord' <=> LastWord) /\ (Word(transcript') <=> Word(transcript))
    BY <1>a DEF LastWord, Word
  <1>c. ASSUME SameCounts, UNCHANGED phase, run'.pc = run.pc, run'.pending = run.pending PROVE Counted'
    <2>1. Pardons' = Pardons /\ (Strong' <=> Strong) /\ (Weak' <=> Weak) /\ last' = last /\ retry' = retry
      BY <1>c, SameBounds DEF SameCounts
    <2>2. QED
      BY <1>a, <1>b, <1>c, <2>1 DEF Counted
  <1>1. ASSUME NEW m \in Messages, AskPrompt(m) \/ Steer(m) \/ FollowUp(m) \/ FilesRead(m) PROVE Counted'
    <2>1. SameCounts /\ run' = run
      BY <1>1, <1>a DEF AskPrompt, Steer, FollowUp, FilesRead, SameCounts, recovery, counters
    <2>2. CASE AskPrompt(m)
      <3>1. phase' = "asked" /\ run'.pc = "none"
        BY <2>1, <2>2 DEF AskPrompt, Working, AtWork
      <3>2. Weak'
        BY <2>1, SameBounds DEF Counted
      <3>3. QED
        BY <3>1, <3>2 DEF Counted
    <2>3. CASE ~AskPrompt(m)
      BY <1>1, <1>c, <2>1, <2>3 DEF Steer, FollowUp, FilesRead
    <2>4. QED
      BY <2>2, <2>3
  <1>2. CASE ClearQueue \/ Settled \/ UNCHANGED vars
    BY <1>2, <1>a, <1>c DEF ClearQueue, Settled, vars, SameCounts, recovery, counters
  <1>3. CASE PrepareCall
    BY <1>3, <1>a, <1>c DEF PrepareCall, SameCounts, recovery, counters, RunShape
  <1>4. ASSUME NEW k \in 1 .. CallCount, ExecuteCall(k) PROVE Counted'
    BY <1>4, <1>a, <1>c DEF ExecuteCall, SameCounts, recovery, counters, RunShape
  <1>5. CASE Abort
    <2>1. aborts' = aborts + 1 /\ UNCHANGED <<phase, overflowed, retry, last>> /\ run'.pc = run.pc /\ run'.pending = run.pending
      BY <1>5 DEF Abort, Aborts, recovery, RunShape
    <2>2. Pardons' = Pardons + 1
      BY <2>1, CountsAre DEF Pardons
    <2> DEFINE p == Pardons
               q == Pardons + 1
    <2>3. /\ p \in Nat /\ q \in Nat /\ q = p + 1 /\ Quota(p) \in Nat /\ Quota(q) \in Nat /\ Quota(q + 1) \in Nat
          /\ Quota(q) >= Quota(p) /\ Quota(q + 1) >= Quota(q) /\ InARow \in Nat /\ retry \in Nat
      BY CountsAre, QuotaIs
    <2>4. /\ Strong <=> InARow <= Quota(p) + retry
          /\ Weak <=> InARow <= Quota(q)
          /\ Strong' <=> InARow' <= Quota(q) + retry'
          /\ Weak' <=> InARow' <= Quota(q + 1)
      BY <2>2 DEF Strong, Weak
    <2>5. /\ InARow <= Quota(Pardons) + retry + 1 <=> InARow <= Quota(p) + retry + 1
          /\ InARow' <= Quota(Pardons') + retry' + 1 <=> InARow' <= Quota(q) + retry' + 1
      BY <2>2
    <2> HIDE DEF p, q
    <2>6. (Strong => Strong') /\ (Weak => Weak') /\ (InARow <= Quota(p) + retry + 1 => InARow' <= Quota(q) + retry' + 1)
      BY <1>a, <2>1, <2>3, <2>4
    <2>7. QED
      BY <1>a, <1>b, <2>1, <2>5, <2>6 DEF Counted
  <1>6. CASE StartPrompt
    <2>1. phase' = "running" /\ run'.pc = "prompt" /\ run'.pending # <<>> /\ SameCounts
      BY <1>6, <1>a DEF StartPrompt, NoRun, SameCounts, recovery, counters
    <2>2. Weak'
      BY <2>1, SameBounds DEF Counted
    <2>3. QED
      BY <2>1, <2>2 DEF Counted
  <1>7. CASE EndTurn
    <2>1. /\ phase = "running" /\ run.pc \in {"turn", "more"} /\ UNCHANGED phase /\ SameCounts
          /\ run'.pc \in {"ending", "deliver"} /\ (run'.pc = "ending" => run.pc = "turn")
      BY <1>7, <1>a DEF EndTurn, SameCounts, recovery, counters, RunShape
    <2>2. Weak' /\ Pardons' = Pardons /\ (Strong' <=> Strong) /\ last' = last /\ retry' = retry
      BY <2>1, SameBounds DEF Counted, SameCounts
    <2>3. CASE run'.pc = "ending"
      BY <1>a, <1>b, <2>1, <2>2, <2>3 DEF Counted
    <2>4. CASE run'.pc = "deliver"
      <3>1. run'.pending = <<>> => run.pc = "more"
        BY <1>7, <2>4, DrawsOrMore
      <3>2. run'.pending = <<>> => Strong'
        BY <2>2, <3>1, NoneInARow DEF Counted
      <3>3. phase' = "running"
        BY <2>1
      <3>4. QED
        BY <2>2, <2>4, <3>2, <3>3 DEF Counted
    <2>5. QED
      BY <2>1, <2>3, <2>4
  <1>8. CASE BackoffEnds
    <2>1. phase = "backoff" /\ phase' = "continuing" /\ run'.pc = "none" /\ SameCounts
      BY <1>8, <1>a DEF BackoffEnds, SameCounts, recovery, counters
    <2>2. Weak' /\ Strong'
      BY <2>1, SameBounds DEF Counted
    <2>3. QED
      BY <2>1, <2>2 DEF Counted
  <1>9. CASE Continue
    <2>1. phase = "continuing" /\ phase' = "running" /\ run'.pc = "prompt" /\ SameCounts
      BY <1>9, <1>a DEF Continue, NoRun, SameCounts, recovery, counters
    <2>2. Weak' /\ (Strong' <=> Strong)
      BY <2>1, SameBounds DEF Counted
    <2>3. run'.pending = <<>> => ~Word(transcript)
      BY <1>9, DrawsOrAsks
    <2>4. run'.pending = <<>> => Strong'
      BY <2>1, <2>2, <2>3 DEF Counted
    <2>5. QED
      BY <2>1, <2>2, <2>4 DEF Counted
  <1>10. QED
    BY <1>1, <1>2, <1>3, <1>4, <1>5, <1>6, <1>7, <1>8, <1>9 DEF QuietStep

LEMMA NoneThen ==
    ASSUME Typed', InARow' = 0
    PROVE  Strong' /\ Weak'
  <1>1. retry' \in 0 .. MaxRetries /\ aborts' \in Nat /\ overflowed' \in BOOLEAN
    BY DEF Typed, FlagTypes
  <1>2. Pardons' \in Nat
    <2>1. Pardons' = aborts' + 1 \/ Pardons' = aborts' + 0
      BY Zenon DEF Pardons
    <2>2. QED
      BY <1>1, <2>1
  <1>3. Quota(Pardons') \in Nat /\ Quota(Pardons' + 1) \in Nat
    BY <1>2, QuotaIs
  <1>4. QED
    BY <1>1, <1>3 DEF Strong, Weak

\* What has to be seen of a step after which the loop has no run.
LEMMA CountedAtRest ==
    ASSUME run'.pc = "none", Weak',
           phase' = "backoff" => Strong',
           phase' = "continuing" => Strong' \/ Word(transcript'),
           phase' = "compacting" => \/ compaction'.why \in {"prompt", "reprompt"}
                                    \/ Strong'
                                    \/ compaction'.why = "after" /\ LastWord'
    PROVE  Counted'
  BY DEF Counted

LEMMA CountedDeliver ==
    ASSUME Typed, Typed', Phases, Phases', Counted, BeginRun \/ Request
    PROVE  Counted'
  <1>1. /\ Deliver /\ phase = "running" /\ phase' = "running" /\ UNCHANGED <<aborts, retry, last>>
        /\ run.pc \in {"prompt", "deliver"} /\ run'.pc \in {"deliver", "asking"}
    BY DEF BeginRun, Request, Running, counters, Phases, OneRun, RunShape
  <1>2. Strong' /\ Weak'
    <2>1. CASE run.pending = <<>>
      <3>1. SameCounts
        BY <1>1, <2>1, DeliverRow DEF SameCounts
      <3>2. Strong /\ Weak
        BY <1>1, <2>1 DEF Counted
      <3>3. QED
        BY <3>1, <3>2, SameBounds
    <2>2. CASE run.pending # <<>>
      BY <1>1, <2>2, DeliverRow, NoneThen
    <2>3. QED
      BY <2>1, <2>2
  <1>3. QED
    BY <1>1, <1>2 DEF Counted

LEMMA CountedAnswer ==
    ASSUME Typed, Typed', Phases, Phases', Counted, Answer
    PROVE  Counted'
  <1>1. PICK answer \in Items :
              /\ answer.role = "assistant" /\ answer.note \in Stops(answer.n) /\ answer.note \in Stopping /\ answer.n \in 0 .. CallCount
              /\ transcript' = Append(transcript, answer) /\ entries' = Append(entries, answer)
              /\ last' = answer.note /\ overflowed' = (overflowed /\ answer.note \in Cut)
              /\ retry' = IF answer.note \in Failures THEN retry ELSE 0
              /\ InARow' = IF answer.n = 0 /\ answer.note \in Cut THEN InARow + 1 ELSE 0
              /\ run'.pc = IF answer.note \in Failures \cup {"aborted"} THEN "ending" ELSE IF answer.n > 0 THEN "tools" ELSE "turn"
              /\ answer.n > 0 => ~run.dead
    BY AnswerRow
  <1>2. phase' = "running" /\ phase = "running" /\ run.pc = "asking" /\ UNCHANGED aborts
    BY DEF Answer, Running, counters
  <1>3. run.pending = <<>>
    BY <1>2 DEF Typed, RunTypes
  <1>4. Strong
    BY <1>2, <1>3 DEF Counted
  <1>5. CASE answer.n = 0 /\ answer.note \in Cut
    <2>1. InARow' = InARow + 1 /\ run'.pc \in {"ending", "turn"}
      BY <1>1, <1>5 
    <2>2. overflowed' = overflowed
      BY <1>1, <1>5 DEF Typed, FlagTypes
    <2>3. Pardons' = Pardons
      BY <1>2, <2>2 DEF Pardons
    <2>4. InARow <= Quota(Pardons) + retry
      BY <1>4 DEF Strong
    <2>5. InARow' <= Quota(Pardons) + MaxRetries + 1 /\ InARow' <= Quota(Pardons) + retry + 1
      BY <2>1, <2>4, CountsAre
    <2>6. Weak'
      BY <2>3, <2>5, CountsAre DEF Weak
    <2>7. LastWord'
      <3>1. transcript \in Seq(Items) /\ entries \in Seq(Items)
        BY DEF Typed, TextTypes
      <3>2. Word(Append(transcript, answer)) /\ Word(Append(entries, answer))
        BY <1>1, <3>1 DEF Word
      <3>3. QED
        BY <1>1, <3>2 DEF LastWord, Word
    <2>8. last' \in Failures => InARow' <= Quota(Pardons') + retry' + 1
      BY <1>1, <2>3, <2>5
    <2>9. QED
      BY <1>2, <2>1, <2>6, <2>7, <2>8 DEF Counted
  <1>6. CASE ~(answer.n = 0 /\ answer.note \in Cut)
    <2>1. InARow' = 0
      BY <1>1, <1>6
    <2>2. Strong' /\ Weak'
      BY <2>1, NoneThen
    <2>3. QED
      BY <1>2, <2>1, <2>2 DEF Counted
  <1>7. QED
    BY <1>5, <1>6

LEMMA CountedBatch ==
    ASSUME Typed, Typed', Phases, Counted, EndBatch
    PROVE  Counted'
  <1>1. InARow' = 0 /\ phase' = "running"
    BY ResultsRow DEF EndBatch, Running
  <1>2. Strong' /\ Weak'
    BY <1>1, NoneThen
  <1>3. QED
    BY <1>1, <1>2 DEF Counted

LEMMA CountedBash ==
    ASSUME Typed, Phases, Counted, RecordBash
    PROVE  Counted'
  <1>1. SameCounts /\ UNCHANGED <<run, phase, active, compaction>> /\ InARow' = InARow
    BY QuietRow DEF RecordBash, SameCounts, recovery
  <1>2. Pardons' = Pardons /\ (Strong' <=> Strong) /\ (Weak' <=> Weak) /\ last' = last /\ retry' = retry
    BY <1>1, SameBounds DEF SameCounts
  <1>3. CASE active
    <2>1. UNCHANGED <<transcript, entries>>
      BY <1>3 DEF RecordBash
    <2>2. (LastWord' <=> LastWord) /\ (Word(transcript') <=> Word(transcript))
      BY <2>1 DEF LastWord, Word
    <2>3. QED
      BY <1>1, <1>2, <2>2 DEF Counted
  <1>4. CASE ~active
    <2>1. run.pc = "none" /\ phase \notin {"backoff", "continuing"} /\ (phase = "compacting" => compaction.why \in {"prompt", "reprompt"})
      BY <1>4 DEF Phases, AtWork, OneRun
    <2>2. Weak'
      BY <1>2 DEF Counted
    <2>3. QED
      BY <1>1, <2>1, <2>2, CountedAtRest
  <1>5. QED
    BY <1>3, <1>4

LEMMA CountedRunEnds ==
    ASSUME Typed, Typed', Phases, Phases', Counted, EndRun
    PROVE  Counted'
  <1>1. /\ run.pc = "ending" /\ run'.pc = "none" /\ UNCHANGED aborts /\ InARow' = InARow
        /\ Retries \/ Recovers \/ GoesOn
    BY QuietRow DEF EndRun, Running, NoRun, counters, AloneStep
  <1>2. InARow = 0 \/ (LastWord /\ (last \in Failures => InARow <= Quota(Pardons) + retry + 1))
    BY <1>1 DEF Counted
  <1>3. CASE Retries
    <2>1. last = "error" /\ phase' = "backoff" /\ retry' = retry + 1 /\ UNCHANGED overflowed
      BY <1>3 DEF Retries
    <2>2. Pardons' = Pardons
      BY <1>1, <2>1 DEF Pardons
    <2>3. InARow <= Quota(Pardons) + retry + 1
      BY <1>2, <2>1, CountsAre DEF Failures
    <2>4. Strong'
      BY <1>1, <2>1, <2>2, <2>3, CountsAre DEF Strong
    <2>5. Weak'
      BY <1>1, <2>2 DEF Weak, Counted
    <2>6. QED
      BY <1>1, <2>1, <2>4, <2>5, CountedAtRest
  <1>4. CASE Recovers
    <2>1. overflowed' = TRUE /\ ~overflowed /\ CompactOrResume("retry", WithoutAnswer(transcript))
      BY <1>4 DEF Recovers
    <2>2. Pardons' = Pardons + 1
      BY <1>1, <2>1, CountsAre DEF Pardons
    <2>3. InARow <= Quota(Pardons + 1)
      BY DEF Counted, Weak
    <2>4. retry' \in Nat
      BY DEF Typed, FlagTypes
    <2>5. Quota(Pardons + 1) \in Nat /\ Quota((Pardons + 1) + 1) = Quota(Pardons + 1) + MaxRetries + 1
      BY CountsAre, QuotaIs
    <2>6. Strong' /\ Weak'
      BY <1>1, <2>2, <2>3, <2>4, <2>5, CountsAre DEF Strong, Weak
    <2>7. phase' # "backoff"
      BY <2>1, CompactsOrResumesWith
    <2>8. QED
      BY <1>1, <2>6, CountedAtRest
  <1>5. CASE GoesOn
    <2>1. overflowed' = overflowed /\ (Resume(transcript, entries) \/ CompactOrResume("after", transcript))
      BY <1>5 DEF GoesOn
    <2>2. Pardons' = Pardons
      BY <1>1, <2>1 DEF Pardons
    <2>3. Weak'
      BY <1>1, <2>2 DEF Weak, Counted
    <2>4. \/ phase' = "idle"
          \/ phase' = "continuing" /\ transcript' = transcript
          \/ phase' = "compacting" /\ compaction'.why = "after" /\ transcript' = transcript /\ entries' = entries
      BY <2>1, ResumesWith, CompactsOrResumesWith
    <2>5. CASE InARow = 0
      BY <1>1, <2>3, <2>4, <2>5, NoneThen, CountedAtRest
    <2>6. CASE LastWord
      <3>1. transcript' = transcript => Word(transcript')
        BY <2>6 DEF LastWord, Word
      <3>2. transcript' = transcript /\ entries' = entries => LastWord'
        BY <2>6 DEF LastWord, Word
      <3>3. QED
        BY <1>1, <2>3, <2>4, <3>1, <3>2, CountedAtRest
    <2>7. QED
      BY <1>2, <2>5, <2>6
  <1>6. QED
    BY <1>1, <1>3, <1>4, <1>5

LEMMA CountedOthers ==
    ASSUME Typed, Typed', Phases, Phases', Counted, CompactFirst \/ CancelRetry \/ ContinueFails \/ NotSummarized
    PROVE  Counted'
  <1>1. InARow' = InARow /\ run' = run /\ phase # "running"
    BY QuietRow DEF CompactFirst, CancelRetry, ContinueFails, NotSummarized, AloneStep
  <1>2. run'.pc = "none"
    BY <1>1 DEF Phases, OneRun
  <1>3. CASE CompactFirst
    <2>1. phase' = "compacting" /\ UNCHANGED aborts /\ (overflowed' = overflowed \/ (~overflowed /\ overflowed' = TRUE))
      BY <1>3 DEF CompactFirst, Compacts, counters
    <2>1a. compaction'.why \in {"prompt", "reprompt"}
      <3>1. \E why \in {"prompt", "reprompt"}, cut \in Cuts : compaction' = [why |-> why, cut |-> cut]
        BY <1>3 DEF CompactFirst, Compacts
      <3>2. QED
        BY <3>1
    <2>2. Pardons' = Pardons \/ Pardons' = Pardons + 1
      <3>1. CASE overflowed' = overflowed
        BY <2>1, <3>1 DEF Pardons
      <3>2. CASE ~overflowed /\ overflowed' = TRUE
        BY <2>1, <3>2, CountsAre DEF Pardons
      <3>3. QED
        BY <2>1, <3>1, <3>2
    <2>3. Quota(Pardons + 1) \in Nat /\ Quota((Pardons + 1) + 1) = Quota(Pardons + 1) + MaxRetries + 1
      BY CountsAre, QuotaIs
    <2>4. Weak'
      BY <1>1, <2>2, <2>3, CountsAre DEF Weak, Counted
    <2>5. QED
      BY <1>2, <2>1, <2>1a, <2>4, CountedAtRest
  <1>4. CASE CancelRetry
    <2>1. phase = "backoff" /\ aborts' = aborts + 1 /\ retry' = 0 /\ overflowed' = overflowed
          /\ CompactOrResume("after", transcript)
      BY <1>4 DEF CancelRetry, Aborts
    <2>2. Pardons' = Pardons + 1
      BY <2>1, CountsAre DEF Pardons
    <2>3. InARow <= Quota(Pardons) + retry
      BY <2>1 DEF Counted, Strong
    <2>4. Quota(Pardons + 1) \in Nat /\ Quota((Pardons + 1) + 1) = Quota(Pardons + 1) + MaxRetries + 1
      BY CountsAre, QuotaIs
    <2>5. InARow' <= Quota(Pardons')
      BY <1>1, <2>2, <2>3, CountsAre
    <2>6. Strong' /\ Weak'
      BY <2>1, <2>2, <2>4, <2>5, CountsAre, <1>1 DEF Strong, Weak
    <2>7. QED
      BY <1>2, <2>6, CountedAtRest
  <1>5. CASE ContinueFails \/ NotSummarized
    <2>1. SameCounts
      BY <1>1, <1>5 DEF ContinueFails, NotSummarized, SameCounts, recovery, counters
    <2>2. (Strong' <=> Strong) /\ Weak'
      BY <2>1, SameBounds DEF Counted
    <2>3. CASE ContinueFails
      <3>1. phase' = "idle"
        BY <2>3 DEF ContinueFails, Settle
      <3>2. QED
        BY <1>2, <2>2, <3>1, CountedAtRest
    <2>4. CASE NotSummarized
      <3>1. CASE compaction.why \in {"prompt", "reprompt"}
        <4>1. phase' = "compacted"
          BY <2>4, <3>1 DEF NotSummarized
        <4>2. QED
          BY <1>2, <2>2, <4>1, CountedAtRest
      <3>2. CASE compaction.why \notin {"prompt", "reprompt"}
        <4>1. phase = "compacting" /\ Resume(transcript, entries) /\ compaction.why \in {"retry", "after"}
          BY <2>4, <3>2 DEF NotSummarized, Phases, Reasons
        <4>2. phase' = "idle" \/ (phase' = "continuing" /\ transcript' = transcript)
          BY <4>1, ResumesWith
        <4>3. Strong \/ Word(transcript)
          BY <4>1 DEF Counted, LastWord
        <4>4. transcript' = transcript => (Word(transcript') <=> Word(transcript))
          BY DEF Word
        <4>5. QED
          BY <1>2, <2>2, <4>2, <4>3, <4>4, CountedAtRest
      <3>3. QED
        BY <3>1, <3>2
    <2>5. QED
      BY <1>5, <2>3, <2>4
  <1>6. QED
    BY <1>3, <1>4, <1>5

LEMMA CountedSummary ==
    ASSUME Typed, Typed', Phases, Phases', Counted, Summarized
    PROVE  Counted'
  <1> DEFINE cut == compaction.cut
             kept == Kept(compaction.why, Rebuilt(cut))
             file == Filing(cut)
  <1>1. /\ InARow' = InARow /\ run' = run /\ phase = "compacting" /\ compaction.why \in {"prompt", "reprompt", "retry", "after"}
        /\ SameCounts
    BY QuietRow DEF Summarized, AloneStep, Phases, Reasons, SameCounts, counters
  <1>2. run'.pc = "none"
    BY <1>1 DEF Phases, OneRun
  <1>3. (Strong' <=> Strong) /\ Weak'
    BY <1>1, SameBounds DEF Counted
  <1>4. CASE compaction.why = "after"
    <2>1. Resume(kept, file) /\ kept = Rebuilt(cut)
      BY <1>4 DEF Summarized, Filing, Kept
    <2>2. phase' = "idle" \/ (phase' = "continuing" /\ transcript' = Rebuilt(cut))
      BY <2>1, ResumesWith
    <2>3. cut \in 1 .. Len(entries) /\ TextTypes
      BY <1>1 DEF Typed, CutTypes
    <2>4. Word(entries) => Word(Rebuilt(cut))
      BY <2>3, RebuiltWord
    <2>5. Strong \/ Word(entries)
      BY <1>1, <1>4 DEF Counted, LastWord
    <2>6. transcript' = Rebuilt(cut) => (Word(transcript') <=> Word(Rebuilt(cut)))
      BY DEF Word
    <2>7. QED
      BY <1>2, <1>3, <2>2, <2>4, <2>5, <2>6, CountedAtRest
  <1>5. CASE compaction.why = "retry"
    <2>1. phase' = "continuing"
      BY <1>5 DEF Summarized, ContinueWith
    <2>2. Strong
      BY <1>1, <1>5 DEF Counted
    <2>3. QED
      BY <1>2, <1>3, <2>1, <2>2, CountedAtRest
  <1>6. CASE compaction.why \in {"prompt", "reprompt"}
    <2>1. phase' = "compacted"
      BY <1>6 DEF Summarized
    <2>2. QED
      BY <1>2, <1>3, <2>1, CountedAtRest
  <1>7. QED
    BY <1>1, <1>4, <1>5, <1>6

LEMMA CountedStep == Typed /\ Typed' /\ Phases /\ Phases' /\ Counted /\ [Next]_vars => Counted'
  BY WhichStep, CountedQuiet, CountedDeliver, CountedAnswer, CountedBatch, CountedBash, CountedRunEnds, CountedOthers, CountedSummary

LEMMA CountedInit == Init => Counted
  <1> SUFFICES ASSUME Init PROVE Counted
    OBVIOUS
  <1>1. entries = <<>> /\ run.pc = "none" /\ phase = "idle"
    BY DEF Init, NoRun
  <1>2. Row(<<>>) = {}
    BY DEF Row
  <1>3. InARow = 0
    BY <1>1, <1>2, InARowIs, FS_EmptySet
  <1>4. Weak
    BY <1>3, NoneInARow, TypedInit
  <1>5. QED
    BY <1>1, <1>4 DEF Counted

(***************************************************************************)
(* However long the model fails, the session asks it no more often about   *)
(* the same thing than MaxRetries times after the first failure, as often  *)
(* again after the one compaction of a context that did not fit, and as    *)
(* often again for each abort of the user: no step but these, an answer    *)
(* and a message of the user lets _retryAttempt and                        *)
(* _overflowRecoveryAttempted start anew (agent-session.ts, prepareRetry,  *)
(* checkCompaction and abortRetry).                                        *)
(***************************************************************************)
THEOREM FailuresEnd == Spec => []FailuresBounded
  <1>1. Typed /\ Counted => FailuresBounded
    <2> SUFFICES ASSUME Typed, Counted PROVE FailuresBounded
      OBVIOUS
    <2>1. InARow <= Quota(Pardons + 1)
      BY DEF Counted, Weak
    <2>2. Pardons + 1 = aborts + 1 \/ Pardons + 1 = aborts + 2
      BY CountsAre DEF Pardons
    <2>3. /\ Quota(aborts + 1) \in Nat /\ Quota(aborts + 2) \in Nat /\ Quota(aborts + 2) = Quota(aborts + 1) + MaxRetries + 1
      <3>1. aborts + 1 \in Nat /\ aborts + 2 = (aborts + 1) + 1
        BY CountsAre
      <3>2. QED
        BY <3>1, QuotaIs
    <2>4. InARow <= Quota(aborts + 2)
      BY <2>1, <2>2, <2>3, CountsAre
    <2>5. aborts + 2 = 2 + aborts
      BY CountsAre
    <2>6. QED
      BY <2>4, <2>5 DEF Quota, FailuresBounded
  <1>2. QED
    BY <1>1, CountedInit, CountedStep, PhasesInit, PhasesStep, TypedInit, TypedStep, PTL DEF Spec


-----------------------------------------------------------------------------
(***************************************************************************)
(* Something to say to the model.                                          *)
(***************************************************************************)
LEMMA WithoutLast ==
    ASSUME NEW s \in Seq(Items), NEW e \in Items, e.role = "assistant"
    PROVE  WithoutAnswer(Append(s, e)) = s /\ Word(Append(s, e)) /\ Append(s, e) # <<>> /\ Append(s, e)[Len(Append(s, e))] = e
  <1> DEFINE t == Append(s, e)
  <1>1. /\ t \in Seq(Items) /\ Len(t) = Len(s) + 1 /\ t[Len(s) + 1] = e /\ t # <<>> /\ Len(s) \in Nat
        /\ \A i \in 1 .. Len(s) : t[i] = s[i]
    OBVIOUS
  <1>2. Len(t) - 1 = Len(s) /\ SubSeq(t, 1, Len(s)) = s
    BY <1>1
  <1> HIDE DEF t
  <1>3. WithoutAnswer(t) = SubSeq(t, 1, Len(t) - 1) /\ Word(t) /\ t[Len(t)] = e
    BY <1>1 DEF WithoutAnswer, Word
  <1>4. QED
    BY <1>1, <1>2, <1>3 DEF t

\* A step of the user or of the loop that keeps the place in the code.
LEMMA SpokenStays ==
    ASSUME Spoken, UNCHANGED <<transcript, entries, compaction, last, phase>>, InARow' = InARow,
           run'.pc = run.pc, run'.pending = run.pending,
           phase # "continuing" \/ UNCHANGED <<steering, followUps>>
    PROVE  Spoken'
  <1>1. /\ (Word(transcript') <=> Word(transcript)) /\ (Word(entries') <=> Word(entries))
        /\ WithoutAnswer(transcript') = WithoutAnswer(transcript) /\ WithoutAnswer(entries') = WithoutAnswer(entries)
    BY Zenon
  <1>2. (GoingOn' <=> GoingOn) /\ (IsLast("assistant")' <=> IsLast("assistant"))
    BY DEF GoingOn, IsLast
  <1>3. phase = "continuing" => (Queued' <=> Queued)
    BY DEF Queued
  <1>4. phase = "continuing" => (Continues' <=> Continues)
    BY <1>2, <1>3 DEF Continues
  <1>5. (Asks(transcript)' <=> Asks(transcript)) /\ (Asks(entries)' <=> Asks(entries))
        /\ (Asks(WithoutAnswer(transcript))' <=> Asks(WithoutAnswer(transcript)))
        /\ (Word(WithoutAnswer(entries))' <=> Word(WithoutAnswer(entries)))
    BY Zenon
  <1>6. QED
    BY <1>1, <1>2, <1>4, <1>5 DEF Spoken

\* What has to be seen of a step after which the session decides to go on.
LEMMA SpokenOn ==
    ASSUME run'.pc = "none",
           GoingOn' => (Word(entries') /\ ~Word(transcript') => InARow' > 0),
           phase' = "backoff" /\ InARow' <= 1 => Asks(transcript'),
           phase' = "compacting" /\ InARow' <= 1 /\ compaction'.why \notin {"prompt", "reprompt"} => transcript' # <<>>,
           phase' = "compacting" /\ compaction'.why = "retry" =>
              /\ Word(entries') => entries'[Len(entries')].note \in Cut
              /\ InARow' <= 1 => ~Word(WithoutAnswer(entries')),
           phase' = "continuing" /\ InARow' <= 1 => Continues'
    PROVE  Spoken'
  BY DEF Spoken

LEMMA SpokenQuiet ==
    ASSUME Typed, Typed', Phases, Phases', Spoken, QuietStep
    PROVE  Spoken'
  <1> USE DEF Phases, OneRun
  <1>a. UNCHANGED <<transcript, entries, compaction>> /\ InARow' = InARow
    BY QuietKeeps, QuietRow DEF Typed
  <1>b. (Word(transcript') <=> Word(transcript)) /\ (Word(entries') <=> Word(entries))
    BY <1>a DEF Word
  <1>1. ASSUME NEW m \in Messages, Steer(m) \/ FollowUp(m) \/ FilesRead(m) PROVE Spoken'
    BY <1>1, <1>a, SpokenStays DEF Steer, FollowUp, FilesRead, Sends, Free, recovery
  <1>2. ASSUME NEW m \in Messages, AskPrompt(m) PROVE Spoken'
    <2>1. phase' = "asked" /\ run'.pc = "none"
      BY <1>2 DEF AskPrompt, Working, AtWork
    <2>2. QED
      BY <2>1, SpokenOn DEF GoingOn
  <1>3. CASE ClearQueue \/ Settled \/ UNCHANGED vars
    BY <1>3, <1>a, SpokenStays DEF ClearQueue, Free, Settled, vars, queues, recovery
  <1>4. CASE PrepareCall
    BY <1>4, <1>a, SpokenStays DEF PrepareCall, Running, recovery, RunShape
  <1>5. ASSUME NEW k \in 1 .. CallCount, ExecuteCall(k) PROVE Spoken'
    BY <1>5, <1>a, SpokenStays DEF ExecuteCall, Running, recovery, RunShape
  <1>6. CASE Abort
    BY <1>6, <1>a, SpokenStays DEF Abort, Free, recovery, RunShape
  <1>7. CASE StartPrompt
    <2>1. phase' = "running" /\ run'.pc = "prompt" /\ run'.pending # <<>>
      BY <1>7 DEF StartPrompt, NoRun
    <2>2. QED
      BY <2>1 DEF Spoken, GoingOn
  <1>8. CASE EndTurn
    <2>1. /\ phase = "running" /\ run.pc \in {"turn", "more"} /\ UNCHANGED <<phase, last>>
          /\ run'.pc \in {"ending", "deliver"} /\ (run'.pc = "ending" => run.pc = "turn")
      BY <1>8 DEF EndTurn, recovery, RunShape
    <2>2. CASE run'.pc = "ending"
      <3>1. /\ WithoutAnswer(transcript') = WithoutAnswer(transcript) /\ WithoutAnswer(entries') = WithoutAnswer(entries)
            /\ (Asks(WithoutAnswer(transcript))' <=> Asks(WithoutAnswer(transcript)))
            /\ (Word(WithoutAnswer(entries))' <=> Word(WithoutAnswer(entries)))
        BY <1>a, Zenon
      <3>2. QED
        BY <1>a, <1>b, <2>1, <2>2, <3>1 DEF Spoken, GoingOn
    <2>3. CASE run'.pc = "deliver"
      <3>1. run'.pending = <<>> => run.pc = "more"
        BY <1>8, <2>3, DrawsOrMore
      <3>2. run'.pending = <<>> => transcript' # <<>> /\ ~Word(transcript') /\ ~Word(entries')
        BY <1>a, <1>b, <3>1 DEF Spoken, Asks
      <3>3. QED
        BY <2>1, <2>3, <3>2 DEF Spoken, GoingOn
    <2>4. QED
      BY <2>1, <2>2, <2>3
  <1>9. CASE BackoffEnds
    <2>1. phase = "backoff" /\ phase' = "continuing" /\ run'.pc = "none"
      BY <1>9 DEF BackoffEnds
    <2>2. Word(entries') /\ ~Word(transcript') => InARow' > 0
      BY <1>a, <1>b, <2>1 DEF Spoken, GoingOn
    <2>3. InARow' <= 1 => transcript' # <<>> /\ ~Word(transcript')
      BY <1>a, <1>b, <2>1 DEF Spoken, Asks
    <2>4. InARow' <= 1 => Continues'
      BY <2>3 DEF Continues, IsLast, Word
    <2>5. QED
      BY <2>1, <2>2, <2>4, SpokenOn
  <1>10. CASE Continue
    <2>1. phase = "continuing" /\ phase' = "running" /\ run'.pc = "prompt" /\ transcript # <<>>
      BY <1>10 DEF Continue, NoRun
    <2>2. run'.pending = <<>> => ~Word(transcript)
      BY <1>10, DrawsOrAsks
    <2>3. run'.pending = <<>> => transcript' # <<>> /\ (Word(transcript') \/ Word(entries') => InARow' > 0)
      BY <1>a, <1>b, <2>1, <2>2 DEF Spoken, GoingOn
    <2>4. QED
      BY <2>1, <2>3 DEF Spoken, GoingOn
  <1>11. QED
    BY <1>1, <1>2, <1>3, <1>4, <1>5, <1>6, <1>7, <1>8, <1>9, <1>10 DEF QuietStep


LEMMA SpokenRuns ==
    ASSUME Typed, Typed', Phases, Phases', Spoken, BeginRun \/ Request \/ EndBatch
    PROVE  Spoken'
  <1>1. phase = "running" /\ phase' = "running" /\ UNCHANGED <<last, compaction>>
    BY DEF BeginRun, Request, EndBatch, Running, recovery
  <1>2. CASE BeginRun \/ Request
    <2>1. Deliver /\ run.pc \in {"prompt", "deliver"} /\ run'.pc \in {"deliver", "asking"}
      BY <1>2 DEF BeginRun, Request, Running, Phases, OneRun, RunShape
    <2>2. transcript' # <<>> /\ (Word(transcript') \/ Word(entries') => InARow' > 0)
      <3>1. CASE run.pending = <<>>
        <4>1. UNCHANGED <<transcript, entries>> /\ InARow' = InARow
          BY <2>1, <3>1, DeliverRow
        <4>2. (Word(transcript') <=> Word(transcript)) /\ (Word(entries') <=> Word(entries))
          BY <4>1 DEF Word
        <4>3. QED
          BY <2>1, <3>1, <4>1, <4>2 DEF Spoken
      <3>2. CASE run.pending # <<>>
        BY <2>1, <3>2, DeliverRow
      <3>3. QED
        BY <3>1, <3>2
    <2>3. QED
      BY <1>1, <2>1, <2>2 DEF Spoken, GoingOn
  <1>3. CASE EndBatch
    <2>1. transcript' # <<>> /\ entries' # <<>> /\ ~Word(transcript') /\ ~Word(entries')
      BY <1>3, ResultsRow DEF Word
    <2>2. transcript' \in Seq(Items) /\ entries' \in Seq(Items)
      BY DEF Typed, TextTypes
    <2>3. WithoutAnswer(transcript') = transcript' /\ WithoutAnswer(entries') = entries'
      BY <2>1, <2>2, TrimmedTyped
    <2>4. run'.pc \in {"more", "turn"}
      BY <1>3 DEF EndBatch, Phases, OneRun, RunShape
    <2>5. Asks(transcript') /\ Asks(entries')
      BY <2>1 DEF Asks
    <2>6. Asks(WithoutAnswer(transcript')) /\ ~Word(WithoutAnswer(entries'))
      BY <2>1, <2>3, <2>5
    <2>7. QED
      BY <1>1, <2>1, <2>4, <2>5, <2>6 DEF Spoken, GoingOn
  <1>4. QED
    BY <1>2, <1>3

LEMMA SpokenAnswer ==
    ASSUME Typed, Typed', Phases, Phases', Spoken, Answer
    PROVE  Spoken'
  <1>1. PICK answer \in Items :
              /\ answer.role = "assistant" /\ answer.note \in Stops(answer.n) /\ answer.note \in Stopping /\ answer.n \in 0 .. CallCount
              /\ transcript' = Append(transcript, answer) /\ entries' = Append(entries, answer)
              /\ last' = answer.note /\ overflowed' = (overflowed /\ answer.note \in Cut)
              /\ retry' = IF answer.note \in Failures THEN retry ELSE 0
              /\ InARow' = IF answer.n = 0 /\ answer.note \in Cut THEN InARow + 1 ELSE 0
              /\ run'.pc = IF answer.note \in Failures \cup {"aborted"} THEN "ending" ELSE IF answer.n > 0 THEN "tools" ELSE "turn"
              /\ answer.n > 0 => ~run.dead
    BY AnswerRow
  <1>2. phase' = "running" /\ phase = "running" /\ run.pc = "asking"
    BY DEF Answer, Running
  <1>3. run.pending = <<>>
    BY <1>2 DEF Typed, RunTypes
  <1>4. transcript # <<>> /\ (Word(transcript) \/ Word(entries) => InARow > 0)
    BY <1>2, <1>3 DEF Spoken
  <1>5. run'.pc \in {"turn", "ending"} => answer.n = 0
    <2>1. CASE answer.n > 0
      <3>1. answer.note \in {"toolUse", "length"}
        BY <1>1, <2>1 DEF Stops
      <3>2. run'.pc = "tools"
        BY <1>1, <2>1, <3>1 DEF Failures
      <3>3. QED
        BY <3>2
    <2>2. QED
      BY <1>1, <2>1
  <1>6. transcript \in Seq(Items) /\ entries \in Seq(Items) /\ InARow \in Nat
    BY CountsAre DEF Typed, TextTypes
  <1>7. /\ WithoutAnswer(transcript') = transcript /\ WithoutAnswer(entries') = entries
        /\ Word(transcript') /\ Word(entries') /\ transcript' # <<>>
        /\ entries'[Len(entries')] = answer
    BY <1>1, <1>6, WithoutLast DEF Word
  <1>8. run'.pc \in {"turn", "ending"} /\ last' \in Cut => InARow' = InARow + 1
    BY <1>1, <1>5
  <1>9. run'.pc \in {"turn", "ending"} /\ last' \in Cut /\ InARow' <= 1 => Asks(WithoutAnswer(transcript')) /\ ~Word(WithoutAnswer(entries'))
    BY <1>4, <1>6, <1>7, <1>8 DEF Asks
  <1>10. run'.pc \in {"turn", "ending"} /\ last' \in Cut => InARow' > 0
    BY <1>6, <1>8
  <1>11. run'.pc \in {"ending", "tools", "turn"}
    BY <1>1
  <1>12. QED
    BY <1>1, <1>2, <1>7, <1>9, <1>10, <1>11 DEF Spoken, GoingOn

LEMMA SpokenBash ==
    ASSUME Typed, Typed', Phases, Phases', Spoken, RecordBash
    PROVE  Spoken'
  <1>1. UNCHANGED <<run, phase, active, compaction, last, steering, followUps>> /\ InARow' = InARow
    BY QuietRow DEF RecordBash, recovery, queues
  <1>2. CASE active
    <2>1. UNCHANGED <<transcript, entries>>
      BY <1>2 DEF RecordBash
    <2>2. QED
      BY <1>1, <2>1, SpokenStays
  <1>3. CASE ~active
    <2>1. run.pc = "none" /\ ~GoingOn /\ (phase = "compacting" => compaction.why \in {"prompt", "reprompt"})
      BY <1>3 DEF Phases, AtWork, OneRun, GoingOn
    <2>2. ~GoingOn' /\ phase' \notin {"backoff", "continuing"}
      BY <1>1, <2>1 DEF GoingOn
    <2>3. QED
      BY <1>1, <2>1, <2>2, SpokenOn
  <1>4. QED
    BY <1>2, <1>3

LEMMA SpokenRunEnds ==
    ASSUME Typed, Typed', Phases, Phases', Spoken, EndRun
    PROVE  Spoken'
  <1>1. /\ run.pc = "ending" /\ run'.pc = "none" /\ InARow' = InARow /\ UNCHANGED <<steering, followUps>>
        /\ Retries \/ Recovers \/ GoesOn
    BY QuietRow DEF EndRun, Running, NoRun, AloneStep, queues
  <1>2. /\ transcript # <<>>
        /\ Word(transcript) <=> Word(entries)
        /\ Word(entries) => entries[Len(entries)].note = last
        /\ last \in Cut /\ Word(entries) => InARow > 0
        /\ last \in Cut /\ InARow <= 1 => Asks(WithoutAnswer(transcript)) /\ ~Word(WithoutAnswer(entries))
    BY <1>1 DEF Spoken
  <1> DEFINE t == WithoutAnswer(transcript)
  <1>3. entries' = entries => /\ (Word(entries') <=> Word(entries))
                              /\ (Word(WithoutAnswer(entries')) <=> Word(WithoutAnswer(entries)))
    BY Zenon
  <1>4. CASE Retries
    <2>1. last \in Cut /\ phase' = "backoff" /\ transcript' = t /\ entries' = entries
      BY <1>4 DEF Retries, Cut, Failures
    <2>2. Asks(transcript') <=> Asks(t)
      BY <2>1, Zenon
    <2>3. QED
      BY <1>1, <1>2, <1>3, <2>1, <2>2, SpokenOn
  <1>5. CASE Recovers
    <2>1. last \in Cut /\ CompactOrResume("retry", t)
      BY <1>5 DEF Recovers, Cut, Failures
    <2>2. \/ phase' = "idle"
          \/ phase' = "continuing" /\ transcript' = t /\ entries' = entries /\ Queued
          \/ phase' = "compacting" /\ transcript' = t /\ entries' = entries /\ compaction'.why = "retry"
      BY <2>1, CompactsOrResumesWith
    <2>3. transcript' = t /\ InARow <= 1 => transcript' # <<>>
      BY <1>2, <2>1 DEF Asks
    <2>4. CASE phase' = "idle"
      BY <1>1, <2>4, SpokenOn DEF GoingOn
    <2>5. CASE phase' = "continuing"
      <3>1. Queued'
        BY <1>1, <2>2, <2>5 DEF Queued
      <3>2. InARow <= 1 => Continues'
        BY <2>2, <2>3, <2>5, <3>1 DEF Continues
      <3>3. QED
        BY <1>1, <1>2, <1>3, <2>1, <2>2, <2>5, <3>2, SpokenOn
    <2>6. CASE phase' = "compacting"
      <3>1. transcript' = t /\ entries' = entries /\ compaction'.why = "retry"
        BY <2>2, <2>6
      <3>2. Word(entries') => entries'[Len(entries')].note \in Cut
        BY <1>2, <1>3, <2>1, <3>1
      <3>3. InARow' <= 1 => ~Word(WithoutAnswer(entries'))
        BY <1>1, <1>2, <1>3, <2>1, <3>1
      <3>4. Word(entries') => InARow' > 0
        BY <1>1, <1>2, <1>3, <2>1, <3>1
      <3>5. QED
        BY <1>1, <2>3, <2>6, <3>1, <3>2, <3>3, <3>4, SpokenOn
    <2>7. QED
      BY <2>2, <2>4, <2>5, <2>6
  <1>6. CASE GoesOn
    <2>1. Resume(transcript, entries) \/ CompactOrResume("after", transcript)
      BY <1>6 DEF GoesOn
    <2>2. \/ phase' = "idle"
          \/ phase' = "continuing" /\ transcript' = transcript /\ entries' = entries /\ Queued
          \/ phase' = "compacting" /\ transcript' = transcript /\ entries' = entries /\ compaction'.why = "after"
      BY <2>1, ResumesWith, CompactsOrResumesWith
    <2>3. CASE phase' = "idle"
      BY <1>1, <2>3, SpokenOn DEF GoingOn
    <2>4. CASE phase' # "idle"
      <3>1. phase' \in {"continuing", "compacting"} /\ transcript' = transcript /\ entries' = entries
        BY <2>2, <2>4
      <3>2. (Word(entries') <=> Word(transcript')) /\ transcript' # <<>>
        BY <1>2, <3>1 DEF Word
      <3>3. phase' = "continuing" => Continues'
        BY <1>1, <2>2, <3>2 DEF Continues, Queued
      <3>4. phase' = "compacting" => compaction'.why = "after"
        BY <2>2
      <3>5. QED
        BY <1>1, <3>1, <3>2, <3>3, <3>4, SpokenOn
    <2>5. QED
      BY <2>3, <2>4
  <1>7. QED
    BY <1>1, <1>4, <1>5, <1>6


LEMMA SpokenOthers ==
    ASSUME Typed, Typed', Phases, Phases', Spoken, CompactFirst \/ CancelRetry \/ ContinueFails \/ NotSummarized
    PROVE  Spoken'
  <1>1. InARow' = InARow /\ run' = run /\ phase # "running" /\ UNCHANGED <<steering, followUps>>
    BY QuietRow DEF CompactFirst, CancelRetry, ContinueFails, NotSummarized, AloneStep, queues
  <1>2. run'.pc = "none"
    BY <1>1 DEF Phases, OneRun
  <1>3. CASE CompactFirst
    <2>1. phase' = "compacting"
      BY <1>3 DEF CompactFirst, Compacts
    <2>2. \E why \in {"prompt", "reprompt"}, cut \in Cuts : compaction' = [why |-> why, cut |-> cut]
      BY <1>3 DEF CompactFirst, Compacts
    <2>3. compaction'.why \in {"prompt", "reprompt"}
      BY <2>2
    <2>4. QED
      BY <1>2, <2>1, <2>3, SpokenOn DEF GoingOn
  <1>4. CASE ContinueFails
    <2>1. phase' = "idle"
      BY <1>4 DEF ContinueFails, Settle
    <2>2. QED
      BY <1>2, <2>1, SpokenOn DEF GoingOn
  <1>5. CASE NotSummarized /\ compaction.why \in {"prompt", "reprompt"}
    <2>1. phase' = "compacted"
      BY <1>5 DEF NotSummarized
    <2>2. QED
      BY <1>2, <2>1, SpokenOn DEF GoingOn
  <1>6. CASE CancelRetry \/ (NotSummarized /\ compaction.why \notin {"prompt", "reprompt"})
    <2>1. GoingOn /\ (Resume(transcript, entries) \/ CompactOrResume("after", transcript))
      BY <1>6 DEF CancelRetry, NotSummarized, GoingOn
    <2>2. InARow <= 1 => transcript # <<>>
      BY <1>6 DEF CancelRetry, NotSummarized, Spoken, Asks
    <2>3. \/ phase' = "idle"
          \/ phase' = "continuing" /\ transcript' = transcript /\ entries' = entries /\ Queued
          \/ phase' = "compacting" /\ transcript' = transcript /\ entries' = entries /\ compaction'.why = "after"
      BY <2>1, ResumesWith, CompactsOrResumesWith
    <2>4. CASE phase' = "idle"
      BY <1>2, <2>4, SpokenOn DEF GoingOn
    <2>5. CASE phase' # "idle"
      <3>1. phase' \in {"continuing", "compacting"} /\ transcript' = transcript /\ entries' = entries
        BY <2>3, <2>5
      <3>2. Word(entries') /\ ~Word(transcript') => InARow' > 0
        BY <1>1, <2>1, <3>1 DEF Spoken, Word
      <3>3. phase' = "continuing" /\ InARow' <= 1 => Continues'
        BY <1>1, <2>2, <2>3, <3>1 DEF Continues, Queued
      <3>4. phase' = "compacting" => compaction'.why = "after"
        BY <2>3
      <3>5. QED
        BY <1>1, <1>2, <2>2, <3>1, <3>2, <3>3, <3>4, SpokenOn
    <2>6. QED
      BY <2>4, <2>5
  <1>7. QED
    BY <1>3, <1>4, <1>5, <1>6

\* What is rebuilt before a retry does not end with an answer once the failed
\* answer has been removed again.
LEMMA RetryAsks ==
    ASSUME Typed, phase = "compacting",
           Word(entries) => entries[Len(entries)].note \in Cut,
           ~Word(WithoutAnswer(entries))
    PROVE  Asks(Kept("retry", Rebuilt(compaction.cut)))
  <1> DEFINE cut == compaction.cut
             t == Rebuilt(cut)
             N == Len(entries)
             L == Len(t)
  <1>1. entries \in Seq(Items) /\ TextTypes /\ cut \in 1 .. N /\ N \in Nat
    BY DEF Typed, TextTypes, CutTypes
  <1>2. /\ t \in Seq(Items) /\ L = N - cut + 2 /\ t[1].role = "compaction"
        /\ \A i \in 2 .. L : t[i] = entries[i + cut - 2]
    BY <1>1, RebuiltIs
  <1>3. (Word(t) <=> Word(entries)) /\ t # <<>> /\ t[L] = entries[N]
    BY <1>1, RebuiltWord
  <1>4. CASE Word(entries)
    <2>1. t[L].note \in Cut /\ Word(t)
      BY <1>3, <1>4
    <2>2. Kept("retry", t) = WithoutAnswer(t)
      BY <2>1 DEF Kept, Cut
    <2> DEFINE u == WithoutAnswer(t)
               w == WithoutAnswer(entries)
    <2>3. /\ u \in Seq(Items) /\ Len(u) = L - 1 /\ L \in Nat
          /\ \A i \in 1 .. L - 1 : u[i] = t[i]
      BY <1>2, <2>1, TrimmedTyped
    <2>4. /\ w \in Seq(Items) /\ Len(w) = N - 1
          /\ \A i \in 1 .. N - 1 : w[i] = entries[i]
      BY <1>1, <1>4, TrimmedTyped
    <2>5. ~Word(w)
      OBVIOUS
    <2> HIDE DEF cut, t, N, L, u, w
    <2>6. L - 1 \in Nat /\ L - 1 >= 1 /\ cut \in Nat /\ cut >= 1 /\ cut <= N
      BY <1>1, <1>2
    <2>7. u # <<>> /\ Len(u) \in 1 .. L - 1
      BY <2>3, <2>6
    <2>8. u[Len(u)] = t[L - 1]
      BY <2>3, <2>6
    <2>9. t[L - 1].role # "assistant"
      <3>1. CASE L - 1 = 1
        BY <1>2, <3>1
      <3>2. CASE L - 1 # 1
        <4>1. L - 1 \in 2 .. L /\ (L - 1) + cut - 2 = N - 1 /\ N - 1 \in 1 .. N - 1 /\ N - 1 >= 1
          BY <1>1, <1>2, <2>6, <3>2
        <4>2. t[L - 1] = entries[(L - 1) + cut - 2]
          BY <1>2, <4>1
        <4>3. t[L - 1] = w[N - 1]
          BY <2>4, <4>1, <4>2
        <4>4. w # <<>>
          BY <2>4, <4>1
        <4>5. w[Len(w)].role # "assistant"
          BY <2>5, <4>4 DEF Word
        <4>6. QED
          BY <2>4, <4>3, <4>5
      <3>3. QED
        BY <3>1, <3>2
    <2>10. Asks(u)
      BY <2>7, <2>8, <2>9 DEF Asks, Word
    <2>11. QED
      BY <2>2, <2>10 DEF u, t, cut
  <1>5. CASE ~Word(entries)
    <2>1. ~Word(t) /\ WithoutAnswer(t) = t
      BY <1>2, <1>3, <1>5, TrimmedTyped
    <2>2. Kept("retry", t) = t
      BY <2>1 DEF Kept
    <2>3. QED
      BY <1>3, <2>1, <2>2 DEF Asks
  <1>6. QED
    BY <1>4, <1>5

LEMMA SpokenSummary ==
    ASSUME Typed, Typed', Phases, Phases', Spoken, Summarized
    PROVE  Spoken'
  <1> DEFINE cut == compaction.cut
             kept == Kept(compaction.why, Rebuilt(cut))
             file == Filing(cut)
  <1>1. /\ InARow' = InARow /\ run' = run /\ phase = "compacting" /\ compaction.why \in {"prompt", "reprompt", "retry", "after"}
        /\ UNCHANGED <<steering, followUps>>
    BY QuietRow DEF Summarized, AloneStep, Phases, Reasons, queues
  <1>2. run'.pc = "none"
    BY <1>1 DEF Phases, OneRun
  <1>3. cut \in 1 .. Len(entries) /\ TextTypes
    BY <1>1 DEF Typed, CutTypes
  <1>4. ~Word(file)
    <2>1. Len(file) = Len(entries) + 1 /\ file[Len(entries) + 1].role = "compaction"
      BY <1>3, FilingIs
    <2> HIDE DEF file
    <2>2. QED
      BY <2>1 DEF Word
  <1>5. entries' = file => ~Word(entries')
    BY <1>4 DEF Word
  <1>6. CASE compaction.why = "after"
    <2>1. Resume(kept, file) /\ kept = Rebuilt(cut)
      BY <1>6 DEF Summarized, Filing, Kept
    <2>2. phase' = "idle" \/ (phase' = "continuing" /\ transcript' = Rebuilt(cut) /\ entries' = file /\ Queued)
      BY <2>1, ResumesWith
    <2>3. Rebuilt(cut) # <<>>
      BY <1>3, RebuiltWord
    <2>4. CASE phase' = "idle"
      BY <1>2, <2>4, SpokenOn DEF GoingOn
    <2>5. CASE phase' = "continuing"
      <3>1. Continues'
        BY <1>1, <2>2, <2>3, <2>5 DEF Continues, Queued
      <3>2. ~Word(entries')
        BY <1>5, <2>2, <2>5
      <3>3. QED
        BY <1>2, <2>5, <3>1, <3>2, SpokenOn
    <2>6. QED
      BY <2>2, <2>4, <2>5
  <1>7. CASE compaction.why = "retry"
    <2>1. phase' = "continuing" /\ transcript' = Kept("retry", Rebuilt(cut)) /\ entries' = file
      BY <1>7 DEF Summarized, ContinueWith, Filing
    <2>2. InARow' <= 1 => Asks(Kept("retry", Rebuilt(cut)))
      BY <1>1, <1>7, RetryAsks DEF Spoken
    <2>3. InARow' <= 1 => Continues'
      BY <2>1, <2>2 DEF Asks, Word, Continues, IsLast
    <2>4. QED
      BY <1>2, <1>5, <2>1, <2>3, SpokenOn
  <1>8. CASE compaction.why \in {"prompt", "reprompt"}
    <2>1. phase' = "compacted"
      BY <1>8 DEF Summarized
    <2>2. QED
      BY <1>2, <2>1, SpokenOn DEF GoingOn
  <1>9. QED
    BY <1>1, <1>6, <1>7, <1>8

LEMMA SpokenStep == Typed /\ Typed' /\ Phases /\ Phases' /\ Spoken /\ [Next]_vars => Spoken'
  BY WhichStep, SpokenQuiet, SpokenRuns, SpokenAnswer, SpokenBash, SpokenRunEnds, SpokenOthers, SpokenSummary

(***************************************************************************)
(* agent.continue does not throw unless more than one failure in a row is  *)
(* in the session file: after the last answer failed, or none did, there is*)
(* a message the model has not answered, or one that waits, whenever the   *)
(* session decides to go on - through aborts, retries, compactions and     *)
(* what the user does meanwhile (agent-session.ts, handlePostAgentRun and  *)
(* runAutoCompaction; agent.ts, continue).                                 *)
(***************************************************************************)
THEOREM GoesOnAfterOneFailure == Spec => []ContinuesAfterOne
  <1>1. Init => Spoken
    BY DEF Init, NoRun, Spoken, GoingOn
  <1>2. Spoken => ContinuesAfterOne
    BY DEF Spoken, ContinuesAfterOne
  <1>3. QED
    BY <1>1, <1>2, SpokenStep, PhasesInit, PhasesStep, TypedInit, TypedStep, PTL DEF Spec

-----------------------------------------------------------------------------
(***************************************************************************)
(* The transcript and the file.                                            *)
(***************************************************************************)
\* What lasts among the first i messages, and how much there is of it.
LastingUpTo(messages, i) == {k \in 1 .. i : Lasts(messages[k])}
LastingAll(messages) == Rank(messages, Len(messages))

\* The same messages last.
Agree(s, t) == Lasting(s) = Lasting(t) /\ LastingAll(s) = LastingAll(t)

Agreed == Agree(transcript, Reread)

Shifted(n, views) == {<<n + v[1], v[2], v[3], v[4]>> : v \in views}

LEMMA RankIs ==
    ASSUME NEW s, NEW i \in Nat
    PROVE  Rank(s, i) = Cardinality(LastingUpTo(s, i)) /\ IsFiniteSet(LastingUpTo(s, i)) /\ Rank(s, i) \in Nat
  <1>1. LastingUpTo(s, i) \in SUBSET (1 .. i) /\ Rank(s, i) = Cardinality(LastingUpTo(s, i))
    BY DEF LastingUpTo, Rank
  <1>2. IsFiniteSet(1 .. i)
    BY FS_Interval
  <1>3. IsFiniteSet(LastingUpTo(s, i))
    BY <1>1, <1>2, FS_Subset
  <1>4. QED
    BY <1>1, <1>3, FS_CardinalityType

\* Moving a set of numbers along keeps its size.
LEMMA MovedSize ==
    ASSUME NEW N \in Nat, NEW A \in SUBSET Nat, IsFiniteSet(A)
    PROVE  IsFiniteSet({N + a : a \in A}) /\ Cardinality({N + a : a \in A}) = Cardinality(A)
  <1> DEFINE B == {N + a : a \in A}
             f == [a \in A |-> N + a]
  <1>1. f \in Bijection(A, B)
    <2>1. f \in [A -> B]
      OBVIOUS
    <2>2. \A a, b \in A : f[a] = f[b] => a = b
      OBVIOUS
    <2>3. \A b \in B : \E a \in A : f[a] = b
      OBVIOUS
    <2>4. QED
      BY <2>1, <2>2, <2>3 DEF Bijection, Injection, Surjection, IsInjective
  <1>2. ExistsBijection(A, B)
    BY <1>1 DEF ExistsBijection
  <1>3. QED
    BY <1>2, FS_Bijection

\* The ranks in a concatenation.
LEMMA RankConcat ==
    ASSUME NEW s \in Seq(Items), NEW t \in Seq(Items)
    PROVE  /\ \A i \in 1 .. Len(s) : Rank(s \o t, i) = Rank(s, i)
           /\ \A i \in 0 .. Len(t) : Rank(s \o t, Len(s) + i) = LastingAll(s) + Rank(t, i)
  <1> DEFINE N == Len(s)
             u == s \o t
  <1>1. /\ N \in Nat /\ Len(t) \in Nat
        /\ \A k \in 1 .. N : u[k] = s[k]
        /\ \A k \in 1 .. Len(t) : u[N + k] = t[k]
    OBVIOUS
  <1> HIDE DEF N, u
  <1>2. ASSUME NEW i \in 1 .. N PROVE Rank(u, i) = Rank(s, i)
    <2>1. \A k \in 1 .. i : u[k] = s[k]
      BY <1>1
    <2>2. {k \in 1 .. i : Lasts(u[k])} = {k \in 1 .. i : Lasts(s[k])}
      BY <2>1
    <2>3. QED
      BY <2>2 DEF Rank
  <1>3. ASSUME NEW i \in 0 .. Len(t) PROVE Rank(u, N + i) = Rank(s, N) + Rank(t, i)
    <2> DEFINE A == LastingUpTo(s, N)
               B == LastingUpTo(t, i)
               C == {N + b : b \in B}
    <2>1. i \in Nat /\ N + i \in Nat
      BY <1>1
    <2>2. LastingUpTo(u, N + i) = A \cup C
      <3>1. ASSUME NEW k \in LastingUpTo(u, N + i) PROVE k \in A \cup C
        <4>1. k \in 1 .. N + i /\ Lasts(u[k])
          BY <3>1 DEF LastingUpTo
        <4>2. CASE k \in 1 .. N
          BY <1>1, <4>1, <4>2 DEF LastingUpTo
        <4>3. CASE k \notin 1 .. N
          <5>1. k - N \in 1 .. i /\ k = N + (k - N) /\ k - N \in 1 .. Len(t)
            BY <1>1, <2>1, <4>1, <4>3
          <5>2. u[k] = t[k - N]
            BY <1>1, <5>1
          <5>3. k - N \in B
            BY <4>1, <5>1, <5>2 DEF LastingUpTo
          <5>4. QED
            BY <5>1, <5>3
        <4>4. QED
          BY <4>2, <4>3
      <3>2. ASSUME NEW k \in A PROVE k \in LastingUpTo(u, N + i)
        <4>1. k \in 1 .. N /\ Lasts(s[k])
          BY <3>2 DEF LastingUpTo
        <4>2. k \in 1 .. N + i /\ Lasts(u[k])
          BY <1>1, <2>1, <4>1
        <4>3. QED
          BY <4>2 DEF LastingUpTo
      <3>3. ASSUME NEW b \in B PROVE N + b \in LastingUpTo(u, N + i)
        <4>1. b \in 1 .. i /\ Lasts(t[b]) /\ b \in 1 .. Len(t)
          BY <1>1, <3>3 DEF LastingUpTo
        <4>2. N + b \in 1 .. N + i /\ u[N + b] = t[b]
          BY <1>1, <2>1, <4>1
        <4>3. QED
          BY <4>1, <4>2 DEF LastingUpTo
      <3> HIDE DEF A, B
      <3>4. QED
        BY <3>1, <3>2, <3>3
    <2>3. A \cap C = {}
      BY <1>1, <2>1 DEF LastingUpTo
    <2>4. B \in SUBSET Nat
      BY DEF LastingUpTo
    <2>5. /\ Rank(s, N) = Cardinality(A) /\ IsFiniteSet(A) /\ Rank(s, N) \in Nat
          /\ Rank(t, i) = Cardinality(B) /\ IsFiniteSet(B) /\ Rank(t, i) \in Nat
          /\ Rank(u, N + i) = Cardinality(LastingUpTo(u, N + i))
      BY <1>1, <2>1, RankIs
    <2> HIDE DEF A, B
    <2>6. IsFiniteSet(C) /\ Cardinality(C) = Cardinality(B)
      BY <1>1, <2>4, <2>5, MovedSize
    <2>7. Cardinality(A \cup C) = Cardinality(A) + Cardinality(C)
      <3> HIDE DEF C
      <3>1. Cardinality(A \cup C) = Cardinality(A) + Cardinality(C) - Cardinality(A \cap C)
        BY <2>5, <2>6, FS_Union
      <3>2. Cardinality(A \cap C) = 0
        BY <2>3, FS_EmptySet
      <3>3. Cardinality(C) \in Nat
        BY <2>5, <2>6
      <3>4. QED
        BY <2>5, <3>1, <3>2, <3>3
    <2>8. QED
      BY <2>2, <2>5, <2>6, <2>7
  <1>4. QED
    BY <1>2, <1>3 DEF LastingAll, N, u

View(s, i) == <<Rank(s, i), s[i].role, s[i].of, s[i].note>>

LEMMA LastingIs ==
    ASSUME NEW s \in Seq(Items)
    PROVE  Lasting(s) = {View(s, i) : i \in {k \in 1 .. Len(s) : Lasts(s[k])}}
  <1>1. DOMAIN s = 1 .. Len(s)
    OBVIOUS
  <1>2. QED
    BY <1>1 DEF Lasting, View

\* What lasts of a concatenation is what lasts of its parts.
LEMMA LastingConcat ==
    ASSUME NEW s \in Seq(Items), NEW t \in Seq(Items)
    PROVE  /\ Lasting(s \o t) = Lasting(s) \cup Shifted(LastingAll(s), Lasting(t))
           /\ LastingAll(s \o t) = LastingAll(s) + LastingAll(t)
  <1> DEFINE N == Len(s)
             M == Len(t)
             u == s \o t
             all == LastingAll(s)
  <1>1. /\ N \in Nat /\ M \in Nat /\ u \in Seq(Items) /\ Len(u) = N + M
        /\ \A k \in 1 .. N : u[k] = s[k]
        /\ \A k \in 1 .. M : u[N + k] = t[k]
    OBVIOUS
  <1>2. /\ \A i \in 1 .. N : Rank(u, i) = Rank(s, i)
        /\ \A i \in 0 .. M : Rank(u, N + i) = all + Rank(t, i)
    BY RankConcat
  <1>3. /\ Lasting(s) = {View(s, i) : i \in {k \in 1 .. N : Lasts(s[k])}}
        /\ Lasting(t) = {View(t, i) : i \in {k \in 1 .. M : Lasts(t[k])}}
        /\ Lasting(u) = {View(u, i) : i \in {k \in 1 .. Len(u) : Lasts(u[k])}}
    BY <1>1, LastingIs
  <1> HIDE DEF N, M, u, all
  <1>4. \A i \in 1 .. N : View(u, i) = View(s, i)
    BY <1>1, <1>2 DEF View
  <1>5. \A i \in 1 .. M : View(u, N + i) = <<all + View(t, i)[1], View(t, i)[2], View(t, i)[3], View(t, i)[4]>>
    <2> SUFFICES ASSUME NEW i \in 1 .. M
                 PROVE  View(u, N + i) = <<all + View(t, i)[1], View(t, i)[2], View(t, i)[3], View(t, i)[4]>>
      OBVIOUS
    <2>1. u[N + i] = t[i] /\ Rank(u, N + i) = all + Rank(t, i)
      BY <1>1, <1>2
    <2>2. View(u, N + i) = <<all + Rank(t, i), t[i].role, t[i].of, t[i].note>>
      BY <2>1 DEF View
    <2>3. QED
      BY <2>2 DEF View
  <1>6. ASSUME NEW v \in Lasting(u) PROVE v \in Lasting(s) \cup Shifted(all, Lasting(t))
    <2>1. PICK k \in 1 .. Len(u) : v = View(u, k) /\ Lasts(u[k])
      BY <1>3
    <2>2. CASE k \in 1 .. N
      <3>1. v = View(s, k) /\ Lasts(s[k])
        BY <1>1, <1>4, <2>1, <2>2
      <3>2. QED
        BY <1>3, <2>2, <3>1
    <2>3. CASE k \notin 1 .. N
      <3>1. k - N \in 1 .. M /\ k = N + (k - N)
        BY <1>1, <2>3
      <3>2. PICK j \in 1 .. M : k = N + j
        BY <3>1
      <3>3. Lasts(t[j]) /\ v = <<all + View(t, j)[1], View(t, j)[2], View(t, j)[3], View(t, j)[4]>>
        BY <1>1, <1>5, <2>1, <3>2
      <3>4. View(t, j) \in Lasting(t)
        BY <1>3, <3>3
      <3>5. QED
        BY <3>3, <3>4 DEF Shifted
    <2>4. QED
      BY <2>2, <2>3
  <1>7. ASSUME NEW v \in Lasting(s) PROVE v \in Lasting(u)
    <2>1. PICK k \in 1 .. N : v = View(s, k) /\ Lasts(s[k])
      BY <1>3
    <2>2. v = View(u, k) /\ Lasts(u[k]) /\ k \in 1 .. Len(u)
      BY <1>1, <1>4, <2>1
    <2>3. QED
      BY <1>3, <2>2
  <1>8. ASSUME NEW v \in Shifted(all, Lasting(t)) PROVE v \in Lasting(u)
    <2>1. PICK w \in Lasting(t) : v = <<all + w[1], w[2], w[3], w[4]>>
      BY <1>8 DEF Shifted
    <2>2. PICK j \in 1 .. M : w = View(t, j) /\ Lasts(t[j])
      BY <1>3
    <2>3. v = View(u, N + j) /\ Lasts(u[N + j]) /\ N + j \in 1 .. Len(u)
      BY <1>1, <1>5, <2>1, <2>2
    <2>4. QED
      BY <1>3, <2>3
  <1>9. Lasting(u) = Lasting(s) \cup Shifted(all, Lasting(t))
    BY <1>6, <1>7, <1>8
  <1>10. LastingAll(u) = all + LastingAll(t)
    BY <1>1, <1>2 DEF LastingAll, M
  <1>11. QED
    BY <1>9, <1>10 DEF u, all

LEMMA AgreeConcat ==
    ASSUME NEW s \in Seq(Items), NEW s2 \in Seq(Items), Agree(s, s2),
           NEW t \in Seq(Items), NEW t2 \in Seq(Items), Agree(t, t2)
    PROVE  Agree(s \o t, s2 \o t2)
  <1>1. /\ Lasting(s \o t) = Lasting(s) \cup Shifted(LastingAll(s), Lasting(t))
        /\ LastingAll(s \o t) = LastingAll(s) + LastingAll(t)
        /\ Lasting(s2 \o t2) = Lasting(s2) \cup Shifted(LastingAll(s2), Lasting(t2))
        /\ LastingAll(s2 \o t2) = LastingAll(s2) + LastingAll(t2)
    BY LastingConcat
  <1>2. QED
    BY <1>1 DEF Agree

\* Messages alike but for their references last alike.
LEMMA AlikeAgree ==
    ASSUME NEW s \in Seq(Items), NEW t \in Seq(Items), Len(s) = Len(t),
           \A i \in 1 .. Len(s) : s[i].role = t[i].role /\ s[i].of = t[i].of /\ s[i].note = t[i].note
    PROVE  Agree(s, t)
  <1> DEFINE N == Len(s)
  <1>1. N \in Nat
    OBVIOUS
  <1>2. \A i \in 1 .. N : Lasts(s[i]) <=> Lasts(t[i])
    BY DEF Lasts
  <1>3. \A i \in 0 .. N : Rank(s, i) = Rank(t, i)
    <2> SUFFICES ASSUME NEW i \in 0 .. N PROVE Rank(s, i) = Rank(t, i)
      OBVIOUS
    <2> HIDE DEF N
    <2>1. {k \in 1 .. i : Lasts(s[k])} = {k \in 1 .. i : Lasts(t[k])}
      BY <1>1, <1>2
    <2>2. QED
      BY <2>1 DEF Rank
  <1>4. \A i \in 1 .. N : View(s, i) = View(t, i)
    BY <1>3 DEF View
  <1>5. Lasting(s) = {View(s, i) : i \in {k \in 1 .. N : Lasts(s[k])}}
    BY LastingIs
  <1>6. Lasting(t) = {View(t, i) : i \in {k \in 1 .. N : Lasts(t[k])}}
    BY LastingIs
  <1>7. {k \in 1 .. N : Lasts(s[k])} = {k \in 1 .. N : Lasts(t[k])}
    BY <1>2
  <1>8. Lasting(s) = Lasting(t)
    <2> HIDE DEF N
    <2>1. QED
      BY <1>4, <1>5, <1>6, <1>7
  <1>9. QED
    BY <1>1, <1>3, <1>8 DEF Agree, LastingAll

\* A message that does not last may be left out at the end.
LEMMA NothingLasts ==
    ASSUME NEW e \in Items, ~Lasts(e)
    PROVE  Agree(<<e>>, <<>>)
  <1> DEFINE s == <<e>>
             t == <<>>
  <1>1. s \in Seq(Items) /\ Len(s) = 1 /\ s[1] = e /\ t \in Seq(Items) /\ Len(t) = 0
    OBVIOUS
  <1> HIDE DEF s, t
  <1>2. {k \in 1 .. Len(s) : Lasts(s[k])} = {} /\ {k \in 1 .. Len(t) : Lasts(t[k])} = {}
    BY <1>1
  <1>3. Lasting(s) = {} /\ Lasting(t) = {}
    BY <1>1, <1>2, LastingIs
  <1>4. LastingAll(s) = LastingAll(t)
    BY <1>2 DEF LastingAll, Rank
  <1>5. QED
    BY <1>3, <1>4 DEF Agree, s, t

LEMMA TrimmedAgrees ==
    ASSUME NEW s \in Seq(Items), Word(s) => s[Len(s)].note \in Cut
    PROVE  Agree(WithoutAnswer(s), s)
  <1>1. CASE ~Word(s)
    BY <1>1, TrimmedTyped DEF Agree
  <1>2. CASE Word(s)
    <2> DEFINE w == WithoutAnswer(s)
               N == Len(s)
               e == s[N]
    <2>1. /\ w \in Seq(Items) /\ N \in Nat \ {0} /\ Len(w) = N - 1
          /\ \A i \in 1 .. N - 1 : w[i] = s[i]
      BY <1>2, TrimmedTyped
    <2>2. e \in Items /\ ~Lasts(e)
      BY <1>2, <2>1 DEF Word, Lasts, Cut
    <2> HIDE DEF w
    <2>3. w \o <<e>> = s /\ w \o <<>> = w
      BY <2>1, <2>2
    <2>4. Agree(w, w)
      BY DEF Agree
    <2>5. <<e>> \in Seq(Items) /\ <<>> \in Seq(Items)
      BY <2>2
    <2>6. Agree(w \o <<e>>, w \o <<>>)
      BY <2>1, <2>2, <2>4, <2>5, NothingLasts, AgreeConcat
    <2>7. QED
      BY <2>3, <2>6 DEF Agree, w
  <1>3. QED
    BY <1>1, <1>2

\* Sequences put together.
LEMMA Together ==
    ASSUME NEW a \in Seq(Items), NEW b \in Seq(Items), NEW c \in Seq(Items)
    PROVE  a \o (b \o c) = (a \o b) \o c
  OBVIOUS

LEMMA PartKept ==
    ASSUME NEW s \in Seq(Items), NEW Y \in Seq(Items), NEW m \in Nat \ {0}, NEW n \in 0 .. Len(s)
    PROVE  SubSeq(s \o Y, m, n) = SubSeq(s, m, n) /\ SubSeq(s, m, n) \in Seq(Items)
  <1>1. \A i \in 1 .. Len(s) : (s \o Y)[i] = s[i] /\ s[i] \in Items
    OBVIOUS
  <1>2. \A i \in m .. n : (s \o Y)[i] = s[i] /\ s[i] \in Items
    BY <1>1
  <1>3. SubSeq(s \o Y, m, n) = SubSeq(s, m, n)
    BY <1>2
  <1>4. SubSeq(s, m, n) \in Seq(Items)
    BY <1>2
  <1>5. QED
    BY <1>3, <1>4

LEMMA PartGrows ==
    ASSUME NEW s \in Seq(Items), NEW Y \in Seq(Items), NEW m \in 1 .. Len(s) + 1
    PROVE  /\ SubSeq(s \o Y, m, Len(s \o Y)) = SubSeq(s, m, Len(s)) \o Y
           /\ SubSeq(s, m, Len(s)) \in Seq(Items)
  <1>1. SubSeq(s, m, Len(s)) \in Seq(Items)
    OBVIOUS
  <1>2. SubSeq(s \o Y, m, Len(s \o Y)) = SubSeq(s, m, Len(s)) \o Y
    BY SMTT(30)
  <1>3. QED
    BY <1>1, <1>2

LEMMA NothingLeft ==
    ASSUME NEW s \in Seq(Items)
    PROVE  SubSeq(s, Len(s) + 1, Len(s)) = <<>>
  OBVIOUS

LEMMA JoinedIs ==
    ASSUME NEW s \in Seq(Items), NEW Y \in Seq(Items)
    PROVE  /\ s \o Y \in Seq(Items) /\ Len(s \o Y) = Len(s) + Len(Y) /\ DOMAIN (s \o Y) = 1 .. Len(s) + Len(Y)
           /\ \A i \in 1 .. Len(s) : (s \o Y)[i] = s[i]
           /\ \A i \in 1 .. Len(Y) : (s \o Y)[Len(s) + i] = Y[i]
  OBVIOUS

LEMMA BoundaryIs ==
    ASSUME entries \in Seq(Items)
    PROVE  /\ Boundaries \in SUBSET (1 .. Len(entries))
           /\ KeptFrom \in Nat \ {0}
           /\ Boundary = 0 <=> Boundaries = {}
           /\ Boundary # 0 => Boundary \in 1 .. Len(entries)
  <1>1. Len(entries) \in Nat /\ DOMAIN entries = 1 .. Len(entries)
    OBVIOUS
  <1>2. Boundaries \in SUBSET (1 .. Len(entries))
    BY <1>1 DEF Boundaries
  <1>3. CASE Boundaries = {}
    BY <1>2, <1>3 DEF KeptFrom, Boundary
  <1>4. CASE Boundaries # {}
    <2>1. \E m \in Boundaries : \A k \in Boundaries : k <= m
      BY <1>1, <1>2, <1>4, Largest
    <2>2. Boundary \in Boundaries
      BY <1>4, <2>1 DEF Boundary
    <2>3. entries[Boundary] \in Items /\ entries[Boundary].role = "compaction" /\ Boundary \in 1 .. Len(entries)
      BY <1>1, <1>2, <2>2 DEF Boundaries
    <2>4. Boundary # 0
      BY <2>3
    <2>5. QED
      BY <1>2, <1>4, <2>3, <2>4, CompactionIs DEF KeptFrom
  <1>5. QED
    BY <1>3, <1>4

LEMMA RereadTyped ==
    ASSUME entries \in Seq(Items)
    PROVE  Reread \in Seq(Items)
  <1>1. CASE Boundary = 0
    BY <1>1 DEF Reread
  <1>2. CASE Boundary # 0
    <2>1. Boundary \in 1 .. Len(entries) /\ KeptFrom \in Nat \ {0}
      BY <1>2, BoundaryIs
    <2>2. /\ <<entries[Boundary]>> \in Seq(Items)
          /\ SubSeq(entries, KeptFrom, Boundary - 1) \in Seq(Items)
          /\ SubSeq(entries, Boundary + 1, Len(entries)) \in Seq(Items)
      <3>1. entries[Boundary] \in Items /\ Boundary - 1 \in 0 .. Len(entries) /\ Boundary + 1 \in 1 .. Len(entries) + 1
        BY <2>1
      <3>2. <<>> \in Seq(Items)
        OBVIOUS
      <3>3. QED
        BY <2>1, <3>1, <3>2, PartKept, PartGrows
    <2>3. QED
      BY <1>2, <2>2 DEF Reread
  <1>3. QED
    BY <1>1, <1>2

LEMMA RereadStays ==
    ASSUME UNCHANGED entries
    PROVE  Reread' = Reread
  <1>1. Boundary' = Boundary
    BY DEF Boundary, Boundaries
  <1>2. KeptFrom' = KeptFrom
    BY <1>1 DEF KeptFrom
  <1>3. QED
    BY <1>1, <1>2 DEF Reread

LEMMA AgreedStays ==
    ASSUME Agreed, UNCHANGED <<transcript, entries>>
    PROVE  Agreed'
  BY RereadStays DEF Agreed

NoSummary(s) == \A i \in 1 .. Len(s) : s[i].role # "compaction"

\* What is added to the file after its last summary is read after the rest.
LEMMA RereadGrows ==
    ASSUME entries \in Seq(Items), NEW Y \in Seq(Items), NoSummary(Y), entries' = entries \o Y
    PROVE  Reread' = Reread \o Y
  <1> DEFINE N == Len(entries)
             M == Len(Y)
             b == Boundary
             k == KeptFrom
  <1>1. /\ N \in Nat /\ M \in Nat /\ DOMAIN entries = 1 .. N /\ DOMAIN entries' = 1 .. N + M /\ Len(entries') = N + M
        /\ \A i \in 1 .. N : entries'[i] = entries[i]
        /\ \A i \in 1 .. M : entries'[N + i] = Y[i]
    OBVIOUS
  <1>2. Boundaries' = Boundaries
    <2>1. ASSUME NEW i \in 1 .. N + M, entries'[i].role = "compaction" PROVE i \in 1 .. N
      <3> SUFFICES ASSUME i \notin 1 .. N PROVE FALSE
        OBVIOUS
      <3>1. PICK j \in 1 .. M : i = N + j
        <4>1. i - N \in 1 .. M /\ i = N + (i - N)
          BY <1>1
        <4>2. QED
          BY <4>1
      <3>2. QED
        BY <1>1, <2>1, <3>1 DEF NoSummary
    <2> HIDE DEF N, M
    <2>2. QED
      BY <1>1, <2>1 DEF Boundaries
  <1>3. Boundary' = Boundary
    BY <1>2 DEF Boundary
  <1>4. CASE b = 0
    BY <1>3, <1>4 DEF Reread
  <1>5. CASE b # 0
    <2>1. b \in 1 .. N /\ k \in Nat \ {0}
      BY <1>5, BoundaryIs
    <2>2. entries'[b] = entries[b] /\ KeptFrom' = k
      BY <1>1, <1>3, <1>5, <2>1 DEF KeptFrom
    <2> DEFINE A == <<entries[b]>>
               B == SubSeq(entries, k, b - 1)
               C == SubSeq(entries, b + 1, N)
    <2>3. Reread = (A \o B) \o C
      BY <1>5 DEF Reread
    <2>4. Reread' = (A \o SubSeq(entries', k, b - 1)) \o SubSeq(entries', b + 1, Len(entries'))
      BY <1>3, <1>5, <2>2 DEF Reread
    <2> HIDE DEF b, k
    <2>5. b - 1 \in 0 .. Len(entries) /\ b + 1 \in 1 .. Len(entries) + 1 /\ entries[b] \in Items
      BY <2>1
    <2>6. SubSeq(entries', k, b - 1) = B /\ B \in Seq(Items)
      BY <2>1, <2>5, PartKept
    <2>7. SubSeq(entries', b + 1, Len(entries')) = C \o Y /\ C \in Seq(Items)
      BY <2>5, PartGrows
    <2>8. A \in Seq(Items)
      BY <2>5
    <2> HIDE DEF A, B, C
    <2>9. A \o B \in Seq(Items)
      BY <2>6, <2>8
    <2>10. (A \o B) \o (C \o Y) = ((A \o B) \o C) \o Y
      BY <2>7, <2>9, Together
    <2>11. QED
      BY <2>3, <2>4, <2>6, <2>7, <2>10
  <1>6. QED
    BY <1>4, <1>5

\* A summary is read first, then what it keeps, then what comes after it.
LEMMA RereadSummary ==
    ASSUME entries \in Seq(Items), NEW cut \in 1 .. Len(entries),
           NEW Y \in Seq(Items), NoSummary(Y), entries' = Filing(cut) \o Y
    PROVE  Reread' = Rebuilt(cut) \o Y
  <1> DEFINE N == Len(entries)
             M == Len(Y)
             e == Item("compaction", cut, 0, "none")
             file == Filing(cut)
  <1>1. cut \in Nat \ {0} /\ N \in Nat /\ M \in Nat
    OBVIOUS
  <1>2. e \in Items /\ e.role = "compaction" /\ e.of = cut
    BY <1>1, ItemsTyped DEF Item
  <1>3. file = entries \o <<e>> /\ <<e>> \in Seq(Items)
    <2> HIDE DEF e
    <2>1. QED
      BY <1>2 DEF Filing, e
  <1> HIDE DEF e, file
  <1>4. /\ file \in Seq(Items) /\ Len(file) = N + 1 /\ file[N + 1] = e
        /\ \A i \in 1 .. N : file[i] = entries[i]
    BY <1>2, <1>3
  <1>5. entries' = file \o Y
    BY DEF file
  <1>6. /\ entries' \in Seq(Items) /\ Len(entries') = N + 1 + M /\ DOMAIN entries' = 1 .. N + 1 + M
        /\ entries'[N + 1] = e
        /\ \A i \in 1 .. M : entries'[N + 1 + i] = Y[i]
    <2>1. N + 1 \in 1 .. Len(file)
      BY <1>1, <1>4
    <2>2. /\ file \o Y \in Seq(Items) /\ Len(file \o Y) = Len(file) + M /\ DOMAIN (file \o Y) = 1 .. Len(file) + M
          /\ \A i \in 1 .. Len(file) : (file \o Y)[i] = file[i]
          /\ \A i \in 1 .. M : (file \o Y)[Len(file) + i] = Y[i]
      BY <1>4, JoinedIs DEF M
    <2>3. QED
      BY <1>4, <1>5, <2>1, <2>2
  <1> HIDE DEF N, M
  <1>7. N + 1 \in Boundaries'
    BY <1>1, <1>2, <1>6 DEF Boundaries
  <1>8. \A i \in Boundaries' : i \in 1 .. N + 1
    <2> SUFFICES ASSUME NEW i \in Boundaries', i \notin 1 .. N + 1 PROVE FALSE
      OBVIOUS
    <2>1. i \in 1 .. N + 1 + M /\ entries'[i].role = "compaction"
      BY <1>6 DEF Boundaries
    <2>2. i - (N + 1) \in 1 .. M /\ i = N + 1 + (i - (N + 1))
      BY <1>1, <2>1
    <2>3. PICK j \in 1 .. M : i = N + 1 + j
      BY <2>2
    <2>4. QED
      BY <1>6, <2>1, <2>3 DEF NoSummary, M
  <1>9. Boundary' = N + 1
    <2>1. \A i \in Boundaries' : (\A k \in Boundaries' : k <= i) => i = N + 1
      BY <1>1, <1>7, <1>8
    <2>2. \A k \in Boundaries' : k <= N + 1
      BY <1>1, <1>8
    <2>3. QED
      BY <1>7, <2>1, <2>2 DEF Boundary
  <1>10. Boundary' # 0 /\ KeptFrom' = cut
    BY <1>1, <1>2, <1>6, <1>9 DEF KeptFrom
  <1>11. Reread' = (<<e>> \o SubSeq(entries', cut, N)) \o SubSeq(entries', N + 2, Len(entries'))
    <2>1. (N + 1) - 1 = N /\ (N + 1) + 1 = N + 2
      BY <1>1
    <2>2. QED
      BY <1>6, <1>9, <1>10, <2>1 DEF Reread
  <1>12. SubSeq(entries', cut, N) = SubSeq(entries, cut, N) /\ SubSeq(entries, cut, N) \in Seq(Items)
    <2>1. entries' = entries \o (<<e>> \o Y)
      BY <1>3, <1>5, Together
    <2>2. <<e>> \o Y \in Seq(Items)
      BY <1>3
    <2>3. N \in 0 .. Len(entries)
      BY <1>1 DEF N
    <2>4. QED
      BY <1>1, <2>1, <2>2, <2>3, PartKept
  <1>13. SubSeq(entries', N + 2, Len(entries')) = Y
    <2>1. N + 2 \in 1 .. Len(file) + 1
      BY <1>1, <1>4
    <2>2. SubSeq(entries', N + 2, Len(entries')) = SubSeq(file, N + 2, Len(file)) \o Y
      BY <1>4, <1>5, <2>1, PartGrows
    <2>3. N + 2 = Len(file) + 1
      BY <1>1, <1>4
    <2>4. SubSeq(file, N + 2, Len(file)) = <<>>
      BY <1>4, <2>3, NothingLeft
    <2>5. Y = <<>> \o Y
      OBVIOUS
    <2>6. QED
      BY <2>2, <2>4, <2>5
  <1>14. Rebuilt(cut) = <<e>> \o SubSeq(entries, cut, N)
    BY DEF Rebuilt, e, N
  <1>15. QED
    BY <1>11, <1>12, <1>13, <1>14

\* How the run ended is known from its last answer.
Said ==
    run.pc \in {"turn", "ending"} =>
        (Word(transcript) => transcript[Len(transcript)].note = last)

LEMMA SaidStep ==
    ASSUME Typed, Phases, Said, [Next]_vars
    PROVE  Said'
  <1>1. CASE run'.pc \notin {"turn", "ending"}
    BY <1>1 DEF Said
  <1>2. CASE run'.pc \in {"turn", "ending"} /\ UNCHANGED <<transcript, last>> /\ run.pc \in {"turn", "ending"}
    BY <1>2 DEF Said, Word
  <1>3. CASE Answer
    <2>1. PICK answer \in Items : transcript' = Append(transcript, answer) /\ last' = answer.note
      BY <1>3, AnswerWrites DEF Answered, Typed
    <2>2. transcript'[Len(transcript')] = answer
      BY <2>1 DEF Typed, TextTypes
    <2>3. QED
      BY <2>1, <2>2 DEF Said
  <1>4. CASE EndBatch
    <2>1. PICK n \in 1 .. Len(run.calls) :
             /\ Results \in Seq(Items) /\ Len(Results) = n /\ Len(run.calls) \in 1 .. CallCount
             /\ \A k \in 1 .. n : Results[k].role = "result"
      BY <1>4, ResultsAre DEF Typed
    <2>2. transcript' = transcript \o Results /\ transcript \in Seq(Items)
      BY <1>4 DEF EndBatch, Typed, TextTypes
    <2>3. n >= 1 /\ n \in Nat
      BY <2>1
    <2>4. transcript'[Len(transcript')] = Results[n]
      BY <2>1, <2>2, <2>3
    <2>5. ~Word(transcript')
      BY <2>1, <2>3, <2>4 DEF Word
    <2>6. QED
      BY <2>5 DEF Said
  <1>5. CASE EndTurn
    <2>1. UNCHANGED <<transcript, last>> /\ run.pc \in {"turn", "more"}
      BY <1>5 DEF EndTurn, recovery
    <2>2. run.pc = "more" => run'.pc = "deliver"
      BY <1>5 DEF EndTurn, Phases, OneRun, RunShape
    <2>3. QED
      BY <1>1, <1>2, <2>1, <2>2
  <1>6. CASE PrepareCall \/ \E k \in 1 .. CallCount : ExecuteCall(k)
    BY <1>1, <1>6 DEF PrepareCall, ExecuteCall, Running, Phases, OneRun, RunShape
  <1>7. CASE BeginRun \/ Request
    BY <1>1, <1>7 DEF BeginRun, Request, Phases, OneRun, RunShape
  <1>8. CASE StartPrompt \/ Continue
    BY <1>1, <1>8 DEF StartPrompt, Continue, NoRun
  <1>9. CASE OtherStep /\ run'.pc # "none"
    <2>1. UNCHANGED transcript /\ run.pc # "none" /\ phase = "running"
      BY <1>9, OtherStepKeeps DEF Phases, OneRun
    <2>2. run'.pc = run.pc /\ last' = last
      <3> USE DEF Phases, AtWork, OneRun, RunShape, Working, queues, session, recovery, counters
      <3>1. CASE UserStep
        <4>1. ASSUME NEW m \in Messages, AskPrompt(m) PROVE UNCHANGED <<run, last>>
          BY <4>1 DEF AskPrompt
        <4>2. ASSUME NEW m \in Messages, Steer(m) \/ FollowUp(m)
              PROVE  UNCHANGED <<run, last>>
          BY <4>2 DEF Steer, FollowUp
        <4>3. CASE ClearQueue \/ RecordBash
          BY <4>3 DEF ClearQueue, RecordBash
        <4>4. CASE Abort
          BY <4>4 DEF Abort
        <4>5. ASSUME CancelRetry PROVE FALSE
          BY <2>1, <4>5 DEF CancelRetry
        <4>6. QED
          BY <3>1, <4>1, <4>2, <4>3, <4>4, <4>5 DEF UserStep
      <3>2. ASSUME CompactFirst \/ ContinueFails \/ Summarized \/ NotSummarized PROVE FALSE
        BY <2>1, <3>2 DEF CompactFirst, ContinueFails, Summarized, NotSummarized
      <3>3. ASSUME EndRun PROVE FALSE
        BY <1>9, <3>3 DEF EndRun, NoRun
      <3>4. CASE BackoffEnds \/ Settled \/ UNCHANGED vars
        BY <3>4 DEF BackoffEnds, Settled, vars
      <3>5. ASSUME NEW m \in Messages, FilesRead(m) PROVE UNCHANGED <<run, last>>
        BY <3>5 DEF FilesRead
      <3>6. QED
        BY <1>9, <3>1, <3>2, <3>3, <3>4, <3>5 DEF OtherStep
    <2>3. QED
      BY <1>1, <1>2, <2>1, <2>2
  <1>10. CASE OtherStep /\ run'.pc = "none"
    BY <1>1, <1>10
  <1>11. QED
    BY <1>3, <1>4, <1>5, <1>6, <1>7, <1>8, <1>9, <1>10, NextSteps DEF RunStep

\* What is added to both.
LEMMA AddedAgrees ==
    ASSUME TextTypes, Agreed, NEW Y \in Seq(Items), NEW Z \in Seq(Items), NoSummary(Z), Agree(Y, Z),
           transcript' = transcript \o Y, entries' = entries \o Z
    PROVE  Agreed'
  <1>1. transcript \in Seq(Items) /\ entries \in Seq(Items) /\ Reread \in Seq(Items)
    BY RereadTyped DEF TextTypes
  <1>2. Reread' = Reread \o Z
    BY <1>1, RereadGrows
  <1>3. Agree(transcript \o Y, Reread \o Z)
    BY <1>1, AgreeConcat DEF Agreed
  <1>4. QED
    BY <1>2, <1>3 DEF Agreed, Agree

LEMMA SelfAgrees == \A s : Agree(s, s)
  BY DEF Agree

LEMMA BashesNoSummary ==
    ASSUME TextTypes
    PROVE  bashes \in Seq(Items) /\ NoSummary(bashes)
  <1>1. bashes \in Seq(Bashes) /\ bashes \in Seq(Items)
    BY BashesTyped DEF TextTypes
  <1>2. \A i \in 1 .. Len(bashes) : bashes[i] \in Bashes
    BY <1>1
  <1>3. QED
    BY <1>1, <1>2, BashIs DEF NoSummary

LEMMA LeavesAgrees ==
    ASSUME TextTypes, NEW messages \in Seq(Items), Agree(messages, Reread), Leaves(messages, entries)
    PROVE  Agreed'
  <1>1. entries \in Seq(Items) /\ Reread \in Seq(Items) /\ bashes \in Seq(Items) /\ NoSummary(bashes)
    BY RereadTyped, BashesNoSummary DEF TextTypes
  <1>2. CASE transcript' = messages /\ entries' = entries
    <2>1. Reread' = Reread
      BY <1>2, RereadStays
    <2>2. QED
      BY <1>2, <2>1 DEF Agreed, Agree
  <1>3. CASE transcript' = messages \o bashes /\ entries' = entries \o bashes
    <2>1. Reread' = Reread \o bashes
      BY <1>1, <1>3, RereadGrows
    <2>2. Agree(messages \o bashes, Reread \o bashes)
      BY <1>1, SelfAgrees, AgreeConcat
    <2>3. QED
      BY <1>3, <2>1, <2>2 DEF Agreed, Agree
  <1>4. QED
    BY <1>2, <1>3 DEF Leaves

LEMMA SummaryAgrees ==
    ASSUME TextTypes, NEW cut \in 1 .. Len(entries), NEW messages \in Seq(Items),
           Agree(messages, Rebuilt(cut)), Leaves(messages, Filing(cut))
    PROVE  Agreed'
  <1>1. entries \in Seq(Items) /\ Rebuilt(cut) \in Seq(Items) /\ Filing(cut) \in Seq(Items)
    BY RebuiltIs, FilingIs DEF TextTypes
  <1>2. bashes \in Seq(Items) /\ NoSummary(bashes)
    BY BashesNoSummary
  <1>3. CASE transcript' = messages /\ entries' = Filing(cut)
    <2> DEFINE none == <<>>
    <2>1. none \in Seq(Items) /\ NoSummary(none) /\ Filing(cut) \o none = Filing(cut) /\ Rebuilt(cut) \o none = Rebuilt(cut)
      BY <1>1 DEF NoSummary
    <2> HIDE DEF none
    <2>2. entries' = Filing(cut) \o none
      BY <1>3, <2>1
    <2>3. Reread' = Rebuilt(cut)
      BY <1>1, <2>1, <2>2, RereadSummary
    <2>4. QED
      BY <1>3, <2>3 DEF Agreed, Agree
  <1>4. CASE transcript' = messages \o bashes /\ entries' = Filing(cut) \o bashes
    <2>1. Reread' = Rebuilt(cut) \o bashes
      BY <1>1, <1>2, <1>4, RereadSummary
    <2>2. Agree(messages \o bashes, Rebuilt(cut) \o bashes)
      BY <1>1, <1>2, SelfAgrees, AgreeConcat
    <2>3. QED
      BY <1>4, <2>1, <2>2 DEF Agreed, Agree
  <1>5. QED
    BY <1>3, <1>4 DEF Leaves

\* A failed answer that leaves the transcript was not to last.
LEMMA DroppedAgrees ==
    ASSUME TextTypes, Agreed, Word(transcript) => transcript[Len(transcript)].note \in Cut
    PROVE  Agree(WithoutAnswer(transcript), Reread) /\ WithoutAnswer(transcript) \in Seq(Items)
  BY TrimmedAgrees, TrimmedTyped DEF TextTypes, Agreed, Agree

LEMMA DeliveredAgrees ==
    ASSUME RunTypes, FlagTypes
    PROVE  Agree(Delivered, Filed) /\ NoSummary(Filed) /\ Delivered \in Seq(Items) /\ Filed \in Seq(Items)
  <1>1. /\ Delivered \in Seq(Items) /\ Len(Delivered) = Len(run.pending)
        /\ Filed \in Seq(Items) /\ Len(Filed) = Len(run.pending)
        /\ \A i \in 1 .. Len(run.pending) :
              /\ Delivered[i].role = "user" /\ Delivered[i].of = run.pending[i]
              /\ Filed[i].role = "user" /\ Filed[i].of = run.pending[i]
    BY DeliveredIs
  <1>2. \A e \in Items : e.role = "user" => e.note = "none"
    BY DEF Items
  <1>3. \A i \in 1 .. Len(run.pending) : Delivered[i] \in Items /\ Filed[i] \in Items
    BY <1>1
  <1>4. \A i \in 1 .. Len(run.pending) : Delivered[i].note = Filed[i].note
    BY <1>1, <1>2, <1>3
  <1>5. Agree(Delivered, Filed)
    BY <1>1, <1>4, AlikeAgree
  <1>6. QED
    BY <1>1, <1>5 DEF NoSummary

LEMMA AgreedStep ==
    ASSUME Typed, Phases, Said, Agreed, [Next]_vars
    PROVE  Agreed'
  <1>1. TextTypes /\ transcript \in Seq(Items) /\ entries \in Seq(Items) /\ Reread \in Seq(Items)
    BY RereadTyped DEF Typed, TextTypes
  <1>2. CASE QuietStep
    <2>1. UNCHANGED <<transcript, entries>>
      BY <1>1, <1>2, QuietKeeps
    <2>2. QED
      BY <2>1, AgreedStays
  <1>3. CASE BeginRun \/ Request
    <2>1. transcript' = transcript \o Delivered /\ entries' = entries \o Filed
      BY <1>3 DEF BeginRun, Request, Deliver
    <2>2. QED
      BY <1>1, <2>1, DeliveredAgrees, AddedAgrees DEF Typed
  <1>4. ASSUME NEW e \in Items, e.role # "compaction",
               transcript' = Append(transcript, e), entries' = Append(entries, e)
        PROVE  Agreed'
    <2> DEFINE Y == <<e>>
    <2>1. Y \in Seq(Items) /\ Len(Y) = 1 /\ Y[1] = e
      OBVIOUS
    <2>2. transcript' = transcript \o Y /\ entries' = entries \o Y
      <3>1. \A s \in Seq(Items) : Append(s, e) = s \o <<e>>
        OBVIOUS
      <3>2. QED
        BY <1>1, <1>4, <3>1
    <2> HIDE DEF Y
    <2>3. NoSummary(Y)
      BY <1>4, <2>1 DEF NoSummary
    <2>4. QED
      BY <1>1, <2>1, <2>2, <2>3, SelfAgrees, AddedAgrees
  <1>5. CASE Answer
    <2>1. PICK answer \in Items :
             answer.role = "assistant" /\ transcript' = Append(transcript, answer) /\ entries' = Append(entries, answer)
      BY <1>1, <1>5, AnswerWrites DEF Answered
    <2>2. QED
      BY <1>4, <2>1
  <1>6. CASE EndBatch
    <2>1. transcript' = transcript \o Results /\ entries' = entries \o Results
      BY <1>6 DEF EndBatch
    <2>2. Results \in Seq(Items) /\ NoSummary(Results)
      BY <1>6, ResultsAre DEF Typed, NoSummary
    <2>3. QED
      BY <1>1, <2>1, <2>2, SelfAgrees, AddedAgrees
  <1>7. CASE RecordBash
    <2>1. PICK b \in Bashes :
             \/ UNCHANGED <<transcript, entries>>
             \/ transcript' = Append(transcript, b) /\ entries' = Append(entries, b)
      BY <1>1, <1>7, RecordBashWrites
    <2>2. CASE UNCHANGED <<transcript, entries>>
      BY <2>2, AgreedStays
    <2>3. CASE transcript' = Append(transcript, b) /\ entries' = Append(entries, b)
      <3>1. b \in Items /\ b.role = "bash"
        BY BashesTyped, BashIs
      <3>2. QED
        BY <1>4, <2>3, <3>1
    <2>4. QED
      BY <2>1, <2>2, <2>3
  <1>8. CASE CompactFirst
    <2>1. UNCHANGED entries
      BY <1>8 DEF CompactFirst
    <2>2. Reread' = Reread
      BY <2>1, RereadStays
    <2>3. CASE UNCHANGED transcript
      BY <2>2, <2>3 DEF Agreed
    <2>4. CASE LastAnswer.note \in {"overflow", "length"} /\ transcript' = WithoutAnswer(transcript)
      <3>1. Word(transcript) => transcript[Len(transcript)].note \in Cut
        <4> SUFFICES ASSUME Word(transcript) PROVE transcript[Len(transcript)].note \in Cut
          OBVIOUS
        <4> DEFINE n == Len(transcript)
        <4>1. n \in Nat \ {0} /\ DOMAIN transcript = 1 .. n
          BY <1>1 DEF Word
        <4>2. n \in Answers(transcript) /\ \A k \in Answers(transcript) : k \in 1 .. n
          BY <4>1 DEF Answers, Word
        <4>3. \A i \in Answers(transcript) : (\A k \in Answers(transcript) : k <= i) => i = n
          BY <4>1, <4>2
        <4>4. \A k \in Answers(transcript) : k <= n
          BY <4>1, <4>2
        <4> HIDE DEF n
        <4>5. (CHOOSE i \in Answers(transcript) : \A k \in Answers(transcript) : k <= i) = n
          BY <4>2, <4>3, <4>4
        <4>6. LastAnswer = transcript[n]
          BY <4>5 DEF LastAnswer
        <4>7. QED
          BY <2>4, <4>6 DEF n, Cut, Failures
      <3>2. Agree(WithoutAnswer(transcript), Reread)
        BY <1>1, <3>1, DroppedAgrees
      <3>3. QED
        BY <2>2, <2>4, <3>2 DEF Agreed
    <2>5. QED
      BY <1>8, <2>3, <2>4 DEF CompactFirst
  <1>9. CASE EndRun
    <2>1. Agree(transcript, Reread)
      BY DEF Agreed
    <2>2. run.pc = "ending" /\ (Retries \/ Recovers \/ GoesOn)
      BY <1>9 DEF EndRun, Running
    <2>3. CASE GoesOn
      <3>1. Leaves(transcript, entries)
        BY <2>3, CompactOrResumeLeaves, ResumeLeaves DEF GoesOn
      <3>2. QED
        BY <1>1, <2>1, <3>1, LeavesAgrees
    <2>4. CASE Retries \/ Recovers
      <3>1. Leaves(WithoutAnswer(transcript), entries) /\ last \in Cut
        BY <2>4, CompactOrResumeLeaves DEF Retries, Recovers, Leaves, Cut, Failures
      <3>2. Word(transcript) => transcript[Len(transcript)].note \in Cut
        BY <2>2, <3>1 DEF Said
      <3>3. QED
        BY <1>1, <3>1, <3>2, DroppedAgrees, LeavesAgrees
    <2>5. QED
      BY <2>2, <2>3, <2>4
  <1>10. CASE CancelRetry \/ ContinueFails \/ NotSummarized
    BY <1>1, <1>10, OthersLeave, LeavesAgrees DEF Agreed
  <1>11. CASE Summarized
    <2> DEFINE cut == compaction.cut
               kept == Kept(compaction.why, Rebuilt(cut))
    <2>1. cut \in 1 .. Len(entries)
      BY <1>11 DEF Summarized, Typed, CutTypes
    <2>2. Rebuilt(cut) \in Seq(Items)
      BY <1>1, <2>1, RebuiltIs
    <2>3. Leaves(kept, Filing(cut))
      <3>1. CASE compaction.why = "after"
        <4>1. Resume(kept, Filing(cut))
          BY <1>11, <3>1 DEF Summarized, Filing
        <4>2. QED
          BY <4>1, ResumeLeaves
      <3>2. CASE compaction.why = "retry"
        <4>1. ContinueWith(kept, Filing(cut))
          BY <1>11, <3>2 DEF Summarized, Filing
        <4>2. QED
          BY <4>1, ResumeLeaves
      <3>3. CASE compaction.why \notin {"after", "retry"}
        BY <1>11, <3>3 DEF Summarized, Filing, Leaves
      <3>4. QED
        BY <3>1, <3>2, <3>3
    <2>4. kept \in Seq(Items) /\ Agree(kept, Rebuilt(cut))
      <3> DEFINE t == Rebuilt(cut)
      <3>1. CASE kept = t
        BY <2>2, <3>1, SelfAgrees
      <3>2. CASE kept = WithoutAnswer(t) /\ t[Len(t)].note \in Cut
        BY <2>2, <3>2, TrimmedAgrees, TrimmedTyped
      <3>3. kept = t \/ (kept = WithoutAnswer(t) /\ t[Len(t)].note \in Cut)
        BY DEF Kept, Cut
      <3>4. QED
        BY <3>1, <3>2, <3>3
    <2> HIDE DEF cut, kept
    <2>5. QED
      BY <1>1, <2>1, <2>3, <2>4, SummaryAgrees
  <1>12. QED
    BY <1>2, <1>3, <1>5, <1>6, <1>7, <1>8, <1>9, <1>10, <1>11, WhichStep

(***************************************************************************)
(* Whatever the loop, retries, compactions, aborts and the user's commands *)
(* do, the session file reads as the transcript, message for message, but  *)
(* for answers that failed or were cut off (agent-session.ts, message_end, *)
(* _runAutoCompaction and recordBashResult; session-manager.ts,            *)
(* buildSessionContext).                                                   *)
(***************************************************************************)
THEOREM FileReadsAsTranscript == Spec => []FileAgrees
  <1>1. Init => Said
    BY DEF Init, NoRun, Said
  <1>2. Init => Agreed
    <2> SUFFICES ASSUME Init PROVE Agreed
      OBVIOUS
    <2>1. transcript = <<>> /\ entries = <<>>
      BY DEF Init
    <2>2. Boundaries = {}
      BY <2>1 DEF Boundaries
    <2>3. Reread = entries
      BY <2>2 DEF Reread, Boundary
    <2>4. QED
      BY <2>1, <2>3, SelfAgrees DEF Agreed
  <1>3. Agreed => FileAgrees
    BY DEF Agreed, Agree, FileAgrees
  <1>4. QED
    BY <1>1, <1>2, <1>3, SaidStep, AgreedStep, PhasesInit, PhasesStep, TypedInit, TypedStep, PTL DEF Spec

=============================================================================
