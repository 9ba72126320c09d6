----------------------------- MODULE LiveSpeech -----------------------------
(***************************************************************************)
(* Reading an answer aloud while the agent writes it: on the server the    *)
(* manager's jobs, each with its utterance queue and its deferred response,*)
(* and in the browser the page's one playback controller.                  *)
(*                                                                         *)
(* An action is the code between two awaits.  What happens inside the      *)
(* process without waiting (a queue that settles, the sink it closes, the  *)
(* job that becomes terminal and its events) is one action; the agent, the *)
(* Voice Service, the response, the event stream and the user are apart.   *)
(* A text delta is what the segmenter makes of it, an utterance or nothing;*)
(* a source of another audio format is a source that fails.                *)
(***************************************************************************)
EXTENDS Naturals, Sequences

CONSTANTS
    JobCount,       \* bound: prompts with speech, one after the other
    UtteranceCount, \* bound: utterances of the answer of each job
    ChunkCount,     \* bound: chunks of audio of one utterance
    MaxQueued,      \* limits.maxQueuedUtterances
    PlayedBefore,   \* whether the page may have played a job before these
    None

Jobs == 1 .. JobCount

ASSUME LiveSpeechAssumption ==
    /\ JobCount \in Nat /\ UtteranceCount \in [Jobs -> Nat] /\ ChunkCount \in Nat
    /\ MaxQueued \in Nat \ {0} /\ PlayedBefore \in BOOLEAN /\ None \notin Nat

VARIABLES
    prompt,    \* where the prompt of each job is
    job,       \* LiveSpeechRun: status, claimed and terminal
    queue,     \* UtteranceQueue: pending, current, stage, closed, completed
    committed, \* utterances the segmenter has committed
    emitted,   \* history: chunks read from the source of each utterance
    response,  \* the browser's response as the sink sees it
    body,      \* the chunks written to it, <<utterance, chunk>>
    events,    \* job events and prompt results on their way to the page
    cancels,   \* jobs whose cancel_live_speech is on its way
    aborted,   \* jobs whose response the page has closed
    page,      \* LivePlaybackController
    bound      \* attachedJobIdRef: the last job bound to the controller

server == <<prompt, job, queue, committed, emitted, response, body>>
client == <<page, bound, cancels, aborted>>
vars == <<prompt, job, queue, committed, emitted, response, body, events,
          cancels, aborted, page, bound>>

Idle == [pending |-> <<>>, current |-> 0, stage |-> "idle", closed |-> FALSE, completed |-> 0]

NoPage == [state |-> "idle", job |-> None, stream |-> "none", heard |-> 0, eof |-> FALSE, deaf |-> FALSE]

\* A page just loaded, or one that has played a job before these.
Init ==
    /\ prompt = [j \in Jobs |-> "none"]
    /\ job = [j \in Jobs |-> [status |-> "none", claimed |-> FALSE, terminal |-> FALSE]]
    /\ queue = [j \in Jobs |-> Idle]
    /\ committed = [j \in Jobs |-> 0]
    /\ emitted = [j \in Jobs |-> [u \in 1 .. UtteranceCount[j] |-> 0]]
    /\ response = [j \in Jobs |-> "none"] /\ body = [j \in Jobs |-> <<>>]
    /\ events = <<>> /\ cancels = {} /\ aborted = {}
    /\ page = NoPage \/ (PlayedBefore /\ page = [NoPage EXCEPT !.state = "ended"])
    /\ bound = None

Event(kind, j, status) == [kind |-> kind, job |-> j, status |-> status]

\* setStatus: a change is published at once, the throttled events say nothing new.
Publish(j, status) ==
    /\ job' = [job EXCEPT ![j].status = status]
    /\ events' = IF job[j].status = status THEN events ELSE Append(events, Event("job", j, status))

Active(j) == job[j].status # "none" /\ ~job[j].terminal

-----------------------------------------------------------------------------
(***************************************************************************)
(* The sink.  Until the browser claims the stream there is no response; the*)
(* headers wait for the first chunk.                                       *)
(***************************************************************************)
\* applyClose and applyFail.
AppliedClose(r) == CASE r = "waiting" -> "empty" [] r = "flowing" -> "ended" [] OTHER -> r
AppliedFailAfterHeaders(r) == IF r = "flowing" THEN "destroyed" ELSE r

AppliedFail(r) == CASE r = "waiting" -> "error" [] r = "flowing" -> "destroyed" [] OTHER -> r

(***************************************************************************)
(* The queue.  Its stages are those of the one utterance it works on:      *)
(* opening while synthesize is awaited, reading the source, parked in the  *)
(* sink before the claim, draining when the response pushes back.          *)
(***************************************************************************)
\* step: the next utterance, one at a time.
SteppedWithoutShift(q) ==
    IF q.stage # "idle" \/ q.pending = <<>> THEN q
    ELSE [q EXCEPT !.current = Head(q.pending), !.stage = "opening"]

Stepped(q) ==
    IF q.stage # "idle" \/ q.pending = <<>> THEN q
    ELSE [q EXCEPT !.current = Head(q.pending), !.pending = Tail(@), !.stage = "opening"]

DrainedEarly(q) == q.pending = <<>> /\ q.closed
Drained(q) == q.stage = "idle" /\ q.pending = <<>> /\ q.closed

\* checkBacklog counts the utterance being generated and the new one.
Full(q) == Len(q.pending) + (IF q.stage = "idle" THEN 0 ELSE 1) >= MaxQueued

\* settled: what is pending is discarded, what is read or written is aborted;
\* a source that is still being opened is closed when it comes.
SettledStillReading(q) == [q EXCEPT !.pending = <<>>]

Settled(q) == [q EXCEPT !.pending = <<>>, !.stage = IF @ = "opening" THEN @ ELSE "idle"]

(***************************************************************************)
(* Every way a job ends: the run becomes terminal and the queue settles,   *)
(* whichever came first, the sink closes or fails, and the owner is told.  *)
(***************************************************************************)
Ends(j, q, status, r) ==
    /\ queue' = [queue EXCEPT ![j] = Settled(q)]
    /\ job' = [job EXCEPT ![j].status = status, ![j].terminal = TRUE]
    /\ response' = [response EXCEPT ![j] = r]
    /\ events' = Append(events, Event("job", j, status))

\* The queue fails and with it the job, or a timer fails the job.
Fails(j) == Ends(j, queue[j], "failed", AppliedFail(response[j]))

\* The queue has drained: completed, or failed if the bytes do not make samples.
Completes(j, q) ==
    \/ Ends(j, q, "completed", AppliedClose(response[j]))
    \/ body[j] # <<>> /\ Ends(j, q, "failed", AppliedClose(response[j]))

\* run.cancel
Cancels(j) == Ends(j, queue[j], "cancelled", AppliedFail(response[j]))

-----------------------------------------------------------------------------
(***************************************************************************)
(* The prompt.  The page asks again when it knows how the last one ended.  *)
(***************************************************************************)
Terminal(state) == state \in {"idle", "ended", "stopped", "error"}

\* teardownPlayback: the controller lets go of its job and of its response.
Closed == IF page.job # None /\ response[page.job] \in {"waiting", "flowing"} THEN aborted \cup {page.job} ELSE aborted

Leave(state) ==
    /\ page' = [NoPage EXCEPT !.state = state]
    /\ aborted' = Closed

\* arbiter.stop: only a playback that is not over is stopped and cancelled.
StopPlayback ==
    IF Terminal(page.state) THEN UNCHANGED <<page, aborted, cancels>>
    ELSE Leave("stopped") /\ cancels' = cancels \cup {page.job}

AskPrompt(j) ==
    /\ prompt[j] = "none" /\ \A i \in Jobs : i < j => prompt[i] = "over"
    /\ prompt' = [prompt EXCEPT ![j] = "sent"]
    /\ StopPlayback
    /\ UNCHANGED <<job, queue, committed, emitted, response, body, events, bound>>

\* prepare: one job at a time for the connection and for the session.
RefusePrompt(j) ==
    /\ prompt[j] = "sent" /\ cancels = {} /\ \E i \in Jobs : Active(i)
    /\ prompt' = [prompt EXCEPT ![j] = "failed"]
    /\ events' = Append(events, Event("failure", j, "none"))
    /\ UNCHANGED <<job, queue, committed, emitted, response, body, client>>

\* prepare, runtime.prompt and announce: the owner is told of the job before
\* the prompt has been accepted.
StartPrompt(j) ==
    /\ prompt[j] = "sent" /\ cancels = {} /\ \A i \in Jobs : ~Active(i)
    /\ prompt' = [prompt EXCEPT ![j] = "running"]
    /\ job' = [job EXCEPT ![j].status = "waiting_for_text"]
    /\ events' = Append(events, Event("job", j, "waiting_for_text"))
    /\ UNCHANGED <<queue, committed, emitted, response, body, client>>

\* The prompt succeeds when its turn is over; the result carries the job.
PromptReturns(j) ==
    /\ prompt[j] = "running" /\ (committed[j] = 0 \/ queue[j].closed \/ job[j].terminal)
    /\ prompt' = [prompt EXCEPT ![j] = "returned"]
    /\ events' = Append(events, Event("result", j, "none"))
    /\ UNCHANGED <<job, queue, committed, emitted, response, body, client>>

\* rollback: the job is dropped and nobody is told.
PromptFails(j) ==
    /\ prompt[j] = "running"
    /\ prompt' = [prompt EXCEPT ![j] = "failed"]
    /\ IF job[j].terminal THEN UNCHANGED <<job, queue, response>>
       ELSE /\ job' = [job EXCEPT ![j].status = "dropped", ![j].terminal = TRUE]
            /\ queue' = [queue EXCEPT ![j] = Settled(@)]
            /\ response' = [response EXCEPT ![j] = AppliedFail(@)]
    /\ events' = Append(events, Event("failure", j, "none"))
    /\ UNCHANGED <<committed, emitted, body, client>>

-----------------------------------------------------------------------------
(***************************************************************************)
(* The agent's answer.                                                     *)
(***************************************************************************)
\* safeEnqueue of the next utterance.
Enqueues(j, closed) ==
    LET q == queue[j] IN
    /\ committed[j] < UtteranceCount[j]
    /\ committed' = [committed EXCEPT ![j] = @ + 1]
    /\ IF Full(q) THEN Fails(j)
       ELSE /\ queue' = [queue EXCEPT ![j] =
                             [Stepped([q EXCEPT !.pending = Append(@, committed[j] + 1)]) EXCEPT !.closed = closed]]
            /\ Publish(j, IF q.stage = "idle" \/ job[j].status = "waiting_for_text" THEN "generating" ELSE job[j].status)
            /\ UNCHANGED response
    /\ UNCHANGED <<prompt, emitted, body, client>>

Speaking(j) == prompt[j] = "running" /\ ~job[j].terminal /\ ~queue[j].closed

\* A delta or an idle tick commits an utterance.
Commit(j) == Speaking(j) /\ Enqueues(j, FALSE)

\* finishTurnNormal: what is left is flushed and the input is closed.
FinishTurn(j) ==
    /\ Speaking(j)
    /\ \/ Enqueues(j, TRUE)
       \/ /\ LET q == [queue[j] EXCEPT !.closed = TRUE] IN
             IF Drained(q) THEN Completes(j, q)
             ELSE queue' = [queue EXCEPT ![j] = q] /\ UNCHANGED <<job, response, events>>
          /\ UNCHANGED <<prompt, committed, emitted, body, client>>

-----------------------------------------------------------------------------
(***************************************************************************)
(* The Voice Service and the response.                                     *)
(***************************************************************************)
SourceOpens(j) ==
    /\ queue[j].stage = "opening"
    /\ queue' = [queue EXCEPT ![j].stage = IF job[j].terminal THEN "idle" ELSE "reading"]
    /\ UNCHANGED <<prompt, job, committed, emitted, response, body, events, client>>

SourceFails(j) ==
    /\ queue[j].stage \in {"opening", "reading"} /\ ~job[j].terminal
    /\ Fails(j)
    /\ UNCHANGED <<prompt, committed, emitted, body, client>>

\* write: a chunk goes to the response, with the headers if it is the first.
Writes(j, chunk) ==
    /\ body' = [body EXCEPT ![j] = Append(@, chunk)]
    /\ response' = [response EXCEPT ![j] = "flowing"]
    /\ Publish(j, IF response[j] = "flowing" THEN job[j].status ELSE "streaming")
    /\ \E stage \in {"reading", "draining"} : queue' = [queue EXCEPT ![j].stage = stage]

SourceChunk(j) ==
    LET u == queue[j].current IN
    /\ queue[j].stage = "reading" /\ emitted[j][u] < ChunkCount
    /\ emitted' = [emitted EXCEPT ![j][u] = @ + 1]
    /\ IF response[j] = "none"
       THEN queue' = [queue EXCEPT ![j].stage = "parked"] /\ UNCHANGED <<job, body, response, events>>
       ELSE Writes(j, <<u, emitted[j][u] + 1>>)
    /\ UNCHANGED <<prompt, committed, client>>

ResponseDrains(j) ==
    /\ queue[j].stage = "draining"
    /\ queue' = [queue EXCEPT ![j].stage = "reading"]
    /\ UNCHANGED <<prompt, job, committed, emitted, response, body, events, client>>

\* End of the source: the next utterance, or the end of the queue.
SourceEndsAsleep(j) ==
    /\ queue[j].stage = "reading"
    /\ LET q == [queue[j] EXCEPT !.stage = "idle", !.completed = @ + 1] IN
       IF Drained(q) THEN Completes(j, q)
       ELSE queue' = [queue EXCEPT ![j] = q] /\ UNCHANGED <<job, response, events>>
    /\ UNCHANGED <<prompt, committed, emitted, body, client>>

SourceEnds(j) ==
    /\ queue[j].stage = "reading"
    /\ LET q == [queue[j] EXCEPT !.stage = "idle", !.completed = @ + 1] IN
       IF Drained(q) THEN Completes(j, q)
       ELSE /\ queue' = [queue EXCEPT ![j] = Stepped(q)]
            /\ Publish(j, IF q.pending = <<>> THEN job[j].status ELSE "generating")
            /\ UNCHANGED response
    /\ UNCHANGED <<prompt, committed, emitted, body, client>>

\* claimStream and attach, when the page's request arrives.  A job that ended
\* without a byte may still be claimed.
Claimable(j) == ~job[j].claimed /\ (job[j].terminal => job[j].status = "completed" /\ body[j] = <<>>)

Requested(j) == page.job = j /\ page.stream = "opening" /\ response[j] = "none"

ClaimLosingParked(j) ==
    /\ Requested(j) /\ Claimable(j)
    /\ job' = [job EXCEPT ![j].claimed = TRUE]
    /\ response' = [response EXCEPT ![j] = IF job[j].terminal THEN "empty" ELSE "waiting"]
    /\ queue' = [queue EXCEPT ![j].stage = IF @ = "parked" THEN "reading" ELSE @]
    /\ UNCHANGED <<prompt, committed, emitted, body, events, client>>

Claim(j) ==
    /\ Requested(j) /\ Claimable(j)
    /\ IF queue[j].stage = "parked"
       THEN /\ body' = [body EXCEPT ![j] = Append(@, <<queue[j].current, emitted[j][queue[j].current]>>)]
            /\ response' = [response EXCEPT ![j] = "flowing"]
            /\ job' = [job EXCEPT ![j].claimed = TRUE, ![j].status = "streaming"]
            /\ events' = Append(events, Event("job", j, "streaming"))
            /\ \E stage \in {"reading", "draining"} : queue' = [queue EXCEPT ![j].stage = stage]
       ELSE /\ job' = [job EXCEPT ![j].claimed = TRUE]
            /\ response' = [response EXCEPT ![j] = IF job[j].terminal THEN "empty" ELSE "waiting"]
            /\ UNCHANGED <<queue, body, events>>
    /\ UNCHANGED <<prompt, committed, emitted, client>>

RefuseClaim(j) ==
    /\ Requested(j) /\ ~Claimable(j)
    /\ page' = [page EXCEPT !.stream = "refused"]
    /\ UNCHANGED <<server, events, bound, cancels, aborted>>

-----------------------------------------------------------------------------
(***************************************************************************)
(* What ends a job from outside.                                           *)
(***************************************************************************)
\* abort, steer, detach, disconnect, disposal, or the answer is aborted.
SessionCancels(j) ==
    /\ Active(j)
    /\ Cancels(j)
    /\ UNCHANGED <<prompt, committed, emitted, body, client>>

\* The timers for the claim, for the first text and for the whole job: run.fail.
TimesOut(j) ==
    /\ Active(j)
    /\ Fails(j)
    /\ UNCHANGED <<prompt, committed, emitted, body, client>>

\* cancel_live_speech
CancelArrives(j) ==
    /\ j \in cancels
    /\ cancels' = cancels \ {j}
    /\ IF Active(j) THEN Cancels(j) ELSE UNCHANGED <<job, queue, response, events>>
    /\ UNCHANGED <<prompt, committed, emitted, body, page, bound, aborted>>

\* onDownstreamClosed: the response closes before its end.
BrowserCloses(j) ==
    /\ j \in aborted /\ response[j] \in {"waiting", "flowing"}
    /\ Ends(j, queue[j], "cancelled", "gone")
    /\ UNCHANGED <<prompt, committed, emitted, body, client>>

-----------------------------------------------------------------------------
(***************************************************************************)
(* The page.                                                               *)
(***************************************************************************)
\* #fail, which a controller that is over ignores; the request is settled.
PageFails(stream) ==
    IF Terminal(page.state) THEN page' = [page EXCEPT !.stream = stream] /\ UNCHANGED aborted
    ELSE Leave("error")

\* ensureStream: one request for a job.
Ensured(p) ==
    IF p.stream # "none" THEN p
    ELSE [p EXCEPT !.stream = "opening", !.state = IF @ = "idle" THEN "waiting" ELSE @]

\* handleJob when the job is completed: a stream on the way is heard to its end.
CompletedDropsStream ==
    IF page.state = "waiting" THEN Leave("ended")
    ELSE /\ page' = [page EXCEPT !.state = IF @ = "streaming" THEN "draining" ELSE @]
         /\ UNCHANGED aborted

Completed ==
    IF page.state = "waiting" /\ page.stream = "none" THEN Leave("ended")
    ELSE /\ page' = [page EXCEPT !.state = IF @ = "streaming" THEN "draining" ELSE @]
         /\ UNCHANGED aborted

HandleJob(status) ==
    CASE status \in {"failed", "cancelled"} -> PageFails(page.stream)
      [] status = "completed" -> Completed
      [] OTHER -> page' = Ensured(page) /\ UNCHANGED aborted

HeadIs(kind) == events # <<>> /\ Head(events).kind = kind

\* A job event; the first one of a job binds it to the controller, which drops
\* what it had.  Its state stays as the last playback left it.
ReceiveJob ==
    /\ HeadIs("job")
    /\ LET j == Head(events).job IN
       IF bound # j
       THEN /\ bound' = j
            /\ page' = Ensured([NoPage EXCEPT !.state = page.state, !.job = j])
            /\ aborted' = Closed
       ELSE /\ IF page.job = j /\ ~page.deaf THEN HandleJob(Head(events).status)
               ELSE UNCHANGED <<page, aborted>>
            /\ UNCHANGED bound
    /\ events' = Tail(events)
    /\ UNCHANGED <<server, cancels>>

\* The result registers a new handle for the job, and the events that follow go
\* to that one; the controller keeps the old.
ReceiveResult ==
    /\ HeadIs("result") \/ HeadIs("failure")
    /\ LET j == Head(events).job IN
       /\ prompt' = [prompt EXCEPT ![j] = "over"]
       /\ page' = [page EXCEPT !.deaf = @ \/ (HeadIs("result") /\ page.job = j)]
    /\ events' = Tail(events)
    /\ UNCHANGED <<job, queue, committed, emitted, response, body, bound, cancels, aborted>>

\* The answer to the request: audio, nothing to say, or an error.
StreamOpens ==
    /\ page.stream = "opening" /\ body[page.job] # <<>>
    /\ page' = [page EXCEPT !.stream = "reading"]
    /\ UNCHANGED <<server, events, bound, cancels, aborted>>

NothingToSay ==
    /\ page.stream = "opening" /\ response[page.job] = "empty"
    /\ Leave("ended")
    /\ UNCHANGED <<server, events, bound, cancels>>

StreamRefused ==
    /\ page.stream = "refused" \/ (page.stream = "opening" /\ response[page.job] = "error")
    /\ PageFails("none")
    /\ UNCHANGED <<server, events, bound, cancels>>

\* The pump: a chunk is played, the body ends, or it breaks off.
Hear ==
    /\ page.stream = "reading" /\ ~page.eof /\ page.heard < Len(body[page.job])
    /\ page' = [page EXCEPT !.heard = @ + 1, !.state = IF page.heard = 0 THEN "streaming" ELSE @]
    /\ UNCHANGED <<server, events, bound, cancels, aborted>>

BodyEnds ==
    /\ page.stream = "reading" /\ ~page.eof
    /\ response[page.job] = "ended" /\ page.heard = Len(body[page.job])
    /\ page' = [page EXCEPT !.eof = TRUE, !.state = IF @ = "streaming" THEN "draining" ELSE @]
    /\ UNCHANGED <<server, events, bound, cancels, aborted>>

BodyBreaks ==
    /\ page.stream = "reading" /\ response[page.job] = "destroyed"
    /\ PageFails("broken")
    /\ UNCHANGED <<server, events, bound, cancels>>

\* handlePlaybackFinished, which a controller that is stopped or failed ignores.
Played ==
    /\ page.eof /\ page.state \notin {"stopped", "error"}
    /\ Leave("ended")
    /\ UNCHANGED <<server, events, bound, cancels>>

UserStops ==
    /\ page.job # None
    /\ StopPlayback
    /\ UNCHANGED <<server, events, bound>>

-----------------------------------------------------------------------------
AnswerStep(j) == Commit(j) \/ FinishTurn(j) \/ PromptReturns(j) \/ PromptFails(j)

SourceStep(j) == SourceOpens(j) \/ SourceChunk(j) \/ SourceEnds(j) \/ ResponseDrains(j)

ServerStep(j) ==
    \/ RefusePrompt(j) \/ StartPrompt(j) \/ Claim(j) \/ RefuseClaim(j)
    \/ CancelArrives(j) \/ BrowserCloses(j)

PageStep ==
    \/ ReceiveJob \/ ReceiveResult \/ StreamOpens \/ NothingToSay \/ StreamRefused
    \/ Hear \/ BodyEnds \/ BodyBreaks \/ Played

Next ==
    \/ \E j \in Jobs :
          \/ AskPrompt(j) \/ AnswerStep(j) \/ SourceStep(j) \/ SourceFails(j) \/ ServerStep(j)
          \/ SessionCancels(j) \/ TimesOut(j)
    \/ PageStep \/ UserStops

Spec == Init /\ [][Next]_vars

\* Sources go on, messages and requests arrive, and the page reads; the agent,
\* the user and the timers are free.
FairSpec ==
    /\ Spec
    /\ \A j \in Jobs : WF_vars(SourceStep(j)) /\ WF_vars(ServerStep(j))
    /\ WF_vars(PageStep)

-----------------------------------------------------------------------------
Statuses == {"none", "waiting_for_text", "generating", "streaming", "completed", "failed", "cancelled", "dropped"}

TypeOK ==
    /\ prompt \in [Jobs -> {"none", "sent", "running", "returned", "failed", "over"}]
    /\ job \in [Jobs -> [status : Statuses, claimed : BOOLEAN, terminal : BOOLEAN]]
    /\ DOMAIN queue = Jobs
    /\ \A j \in Jobs :
          /\ queue[j].stage \in {"idle", "opening", "reading", "parked", "draining"}
          /\ queue[j].closed \in BOOLEAN
          \* what waits follows, without a gap, the utterance that is worked on
          /\ queue[j].current + Len(queue[j].pending) <= committed[j]
          /\ \A i \in DOMAIN queue[j].pending : queue[j].pending[i] = queue[j].current + i
          /\ committed[j] <= UtteranceCount[j]
    /\ response \in [Jobs -> {"none", "waiting", "flowing", "ended", "empty", "error", "destroyed", "gone"}]
    /\ page.state \in {"idle", "waiting", "streaming", "draining", "ended", "stopped", "error"}
    /\ page.stream \in {"none", "opening", "refused", "reading", "broken"}
    /\ page.job \in Jobs \cup {None} /\ bound \in Jobs \cup {None}

(***************************************************************************)
(* While a job lives, what it has taken on and not finished stays within   *)
(* the backlog limit.                                                      *)
(***************************************************************************)
Backlog ==
    \A j \in Jobs : ~job[j].terminal =>
        Len(queue[j].pending) + (IF queue[j].stage = "idle" THEN 0 ELSE 1) <= MaxQueued

(***************************************************************************)
(* The response carries the chunks of the utterances in their order: none  *)
(* twice, and none left out before one that is there.                      *)
(***************************************************************************)
Before(a, b) == a[1] < b[1] \/ (a[1] = b[1] /\ a[2] < b[2])

Chunks(j) == UNION {{<<u, c>> : c \in 1 .. emitted[j][u]} : u \in DOMAIN emitted[j]}

InOrder ==
    \A j \in Jobs :
        /\ \A i \in DOMAIN body[j] : \A k \in 1 .. i - 1 : Before(body[j][k], body[j][i])
        /\ \A i \in DOMAIN body[j] : \A a \in Chunks(j) :
              Before(a, body[j][i]) => \E k \in DOMAIN body[j] : body[j][k] = a

(***************************************************************************)
(* A completed job has spoken: its answer was over, every utterance was    *)
(* synthesized, and every chunk went to a response that ended cleanly.     *)
(***************************************************************************)
CompletedIsWhole ==
    \A j \in Jobs : job[j].status = "completed" =>
        /\ queue[j].closed /\ queue[j].completed = committed[j]
        /\ \A a \in Chunks(j) : \E k \in DOMAIN body[j] : body[j][k] = a
        /\ response[j] \in {"none", "empty", "ended"}

(***************************************************************************)
(* A job that has ended stays ended, whatever was being opened, read or    *)
(* written when it did: nothing more is written to its response, its status*)
(* does not change, the Voice Service is asked for no other utterance, and *)
(* a source that is still being opened is never read.                      *)
(***************************************************************************)
StaysOver(j) ==
    /\ body'[j] = body[j] /\ job'[j].status = job[j].status
    /\ queue'[j].current = queue[j].current /\ queue'[j].stage \in {queue[j].stage, "idle"}

SilentOnceOver == [][\A j \in Jobs : job[j].terminal => StaysOver(j)]_vars

(***************************************************************************)
(* When the page calls the playback of a completed job ended, it has played*)
(* all of it, also when the job completed before the stream had opened.    *)
(***************************************************************************)
EndedIsHeard ==
    [][page.job # None /\ page'.job = None /\ page'.state = "ended" /\ job[page.job].status = "completed" =>
           page.heard = Len(body[page.job])]_vars

(***************************************************************************)
(* A stream that the page holds on to ends: once the answer is over, the   *)
(* job of a claimed stream is settled.                                     *)
(***************************************************************************)
ClaimedEnds == \A j \in Jobs : job[j].claimed /\ queue[j].closed ~> job[j].terminal

(***************************************************************************)
(* Once a job has ended the page's playback of it ends, though the job's   *)
(* events no longer reach the controller after the prompt's result.        *)
(***************************************************************************)
PlaybackEnds == \A j \in Jobs : job[j].terminal /\ page.job = j ~> page.job # j \/ page.stream \in {"none", "broken"}

(***************************************************************************)
(* While the controller opens or plays a stream its state says so; Stop, a *)
(* failure and the next prompt end a playback only if it does.             *)
(***************************************************************************)
PlayingIsShown == page.stream \in {"opening", "reading"} => ~Terminal(page.state)
=============================================================================
