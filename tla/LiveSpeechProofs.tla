--------------------------- MODULE LiveSpeechProofs ---------------------------
(***************************************************************************)
(* Theorems about reading an answer aloud, for any number of jobs, of      *)
(* utterances and of chunks: a job that has ended stays silent, a job that *)
(* lives stays within its backlog, what it writes is in order, what it     *)
(* calls completed has been spoken and what the page calls ended has been  *)
(* heard.                                                                  *)
(***************************************************************************)
EXTENDS LiveSpeech, TLAPS

USE LiveSpeechAssumption

LEMMA BoundIsNat == MaxQueued \in Nat
  BY DEF LiveSpeechAssumption

Stages == {"idle", "opening", "reading", "parked", "draining"}

Runs == [status : Statuses, claimed : BOOLEAN, terminal : BOOLEAN]

Queues == [pending : Seq(Nat), current : Nat, stage : Stages, closed : BOOLEAN, completed : Nat]

Typed ==
    /\ job \in [Jobs -> Runs] /\ queue \in [Jobs -> Queues]
    /\ committed \in [Jobs -> Nat]
    /\ response \in [Jobs -> {"none", "waiting", "flowing", "ended", "empty", "error", "destroyed", "gone"}]
    /\ prompt \in [Jobs -> {"none", "sent", "running", "returned", "failed", "over"}]
    /\ DOMAIN body = Jobs

\* The parts of the records, and their changes.
LEMMA RunEnded ==
    ASSUME NEW run \in Runs, NEW status \in Statuses
    PROVE  [run EXCEPT !.status = status, !.terminal = TRUE] \in Runs
  BY DEF Runs

LEMMA QueueParts ==
    ASSUME NEW q \in Queues
    PROVE  /\ q.pending \in Seq(Nat) /\ Len(q.pending) \in Nat
           /\ q.current \in Nat /\ q.completed \in Nat /\ q.stage \in Stages /\ q.closed \in BOOLEAN
  BY DEF Queues

\* A sequence and one more.
LEMMA AppendIs ==
    ASSUME NEW S, NEW s \in Seq(S), NEW e \in S
    PROVE  /\ Append(s, e) \in Seq(S) /\ Append(s, e) # <<>>
           /\ Len(Append(s, e)) = Len(s) + 1 /\ DOMAIN Append(s, e) = 1 .. Len(s) + 1
           /\ \A i \in 1 .. Len(s) : Append(s, e)[i] = s[i]
           /\ Append(s, e)[Len(s) + 1] = e
  OBVIOUS

LEMMA DomainIs ==
    ASSUME NEW S, NEW s \in Seq(S)
    PROVE  DOMAIN s = 1 .. Len(s) /\ Len(s) \in Nat
  OBVIOUS

LEMMA OneMore ==
    ASSUME NEW n \in Nat
    PROVE  1 .. n + 1 = 1 .. n \cup {n + 1}
  OBVIOUS

-----------------------------------------------------------------------------
(***************************************************************************)
(* Nothing is known of a job before its prompt is taken: no event of it is *)
(* on its way, the page does not have it, and nothing of it has started.   *)
(***************************************************************************)
Pages == [state : {"idle", "waiting", "streaming", "draining", "ended", "stopped", "error"},
          job : Jobs \cup {None}, stream : {"none", "opening", "refused", "reading", "broken"},
          heard : Nat, eof : BOOLEAN, deaf : BOOLEAN]

Early(j) == prompt[j] \in {"none", "sent"}

USE DEF Early

Fresh(j) == job[j].status = "none" /\ queue[j].stage = "idle" /\ response[j] = "none"

Events == [kind : {"job", "result", "failure"}, job : Jobs, status : Statuses]

Begun ==
    /\ events \in Seq(Events) /\ page \in Pages
    /\ \A i \in 1 .. Len(events) : ~Early(events[i].job)
    /\ page.job \in Jobs => ~Early(page.job)
    /\ \A j \in Jobs : Early(j) => Fresh(j)

\* A job has started, by what is known of it.
LEMMA Started ==
    ASSUME Begun, NEW j \in Jobs, ~Fresh(j) \/ page.job = j \/ Active(j) \/ queue[j].stage # "idle"
    PROVE  ~Early(j)
  BY DEF Begun, Fresh, Active

\* A step of a started job, or one that starts it.
LEMMA BegunOne ==
    ASSUME Begun, NEW j \in Jobs, ~Early(j)', UNCHANGED page,
           \A i \in Jobs \ {j} : /\ job'[i].status = job[i].status /\ queue'[i].stage = queue[i].stage
                                 /\ response'[i] = response[i] /\ prompt'[i] = prompt[i],
           events' = events \/ \E e \in Events : e.job = j /\ events' = Append(events, e)
    PROVE  Begun'
  <1>1. events' \in Seq(Events)
    BY DEF Begun
  <1>2. \A i \in Jobs : Early(i)' => Early(i) /\ Fresh(i)'
    BY DEF Begun, Early, Fresh
  <1>3. ASSUME NEW i \in 1 .. Len(events') PROVE (~Early(events[i].job))'
    <2>1. CASE events' = events
      <3>1. events[i] \in Events /\ ~Early(events[i].job)
        BY <2>1, <1>3 DEF Begun
      <3>2. QED
        BY <2>1, <3>1, <1>2 DEF Events
    <2>2. ASSUME NEW e \in Events, e.job = j, events' = Append(events, e) PROVE (~Early(events[i].job))'
      <3>1. events \in Seq(Events) /\ Len(events') = Len(events) + 1
        BY <2>2 DEF Begun
      <3>2. CASE i = Len(events) + 1
        BY <2>2, <3>1, <3>2
      <3>3. CASE i # Len(events) + 1
        <4>1. i \in 1 .. Len(events) /\ events'[i] = events[i]
          BY <2>2, <3>1, <3>3
        <4>2. events[i] \in Events /\ ~Early(events[i].job)
          BY <3>1, <4>1 DEF Begun
        <4>3. QED
          BY <4>1, <4>2, <1>2 DEF Events
      <3>4. QED
        BY <3>2, <3>3
    <2>3. QED
      BY <2>1, <2>2
  <1>4. QED
    BY <1>1, <1>2, <1>3 DEF Begun

\* A step of the page.
LEMMA BegunPage ==
    ASSUME Begun, UNCHANGED <<job, queue, response>>,
           \A i \in Jobs : Early(i)' => Early(i),
           events' = events \/ (events # <<>> /\ events' = Tail(events)),
           page' \in Pages,
           page'.job \in {page.job, None} \/ (events # <<>> /\ page'.job = Head(events).job)
    PROVE  Begun'
  <1>1. events' \in Seq(Events)
    BY DEF Begun
  <1>2. ASSUME NEW i \in 1 .. Len(events') PROVE (~Early(events[i].job))'
    <2>1. PICK k \in 1 .. Len(events) : events'[i] = events[k]
      <3>1. events \in Seq(Events)
        BY DEF Begun
      <3>2. CASE events' = events
        BY <3>2, <1>2
      <3>3. CASE events # <<>> /\ events' = Tail(events)
        <4>1. i + 1 \in 1 .. Len(events) /\ events'[i] = events[i + 1]
          BY <3>1, <3>3, <1>2
        <4>2. QED
          BY <4>1
      <3>4. QED
        BY <3>2, <3>3
    <2>2. events[k] \in Events
      BY DEF Begun
    <2>3. QED
      BY <2>1, <2>2 DEF Begun, Events
  <1>3. (page.job \in Jobs => ~Early(page.job))'
    <2>1. None \notin Jobs
      BY DEF LiveSpeechAssumption, Jobs
    <2>2. events # <<>> => Head(events) = events[1] /\ 1 \in 1 .. Len(events)
      BY DEF Begun
    <2>3. QED
      BY <2>1, <2>2 DEF Begun
  <1>4. QED
    BY <1>1, <1>2, <1>3 DEF Begun, Fresh

-----------------------------------------------------------------------------
(***************************************************************************)
(* The inductive invariant, for one job.  A job ends with nothing being    *)
(* read or written and with its response settled, so no source, drain,     *)
(* claim or close that comes later can touch it; and it has not ended      *)
(* before its prompt was taken.                                            *)
(***************************************************************************)
Over(j) == job[j].terminal =>
    /\ queue[j].stage \in {"idle", "opening"}
    /\ response[j] \notin {"waiting", "flowing"}
    /\ ~Early(j)

Load(q) == Len(q.pending) + (IF q.stage = "idle" THEN 0 ELSE 1)

Within(j) == ~job[j].terminal => Load(queue[j]) =< MaxQueued

Good == Typed /\ \A j \in Jobs : Over(j) /\ Within(j)

\* A job keeps its record, its queue and its response.
Keeps(i) ==
    /\ job'[i] = job[i] /\ queue'[i] = queue[i] /\ response'[i] = response[i]
    /\ prompt'[i] = prompt[i] /\ body'[i] = body[i]

\* Nothing more is asked, read or written for a job that had ended.
Silent(j) == job[j].terminal => StaysOver(j)

USE DEF StaysOver

\* What every step does: it keeps all jobs, or all but one.
Moves(j) == Typed' /\ Over(j)' /\ Within(j)' /\ Silent(j) /\ \A i \in Jobs \ {j} : Keeps(i)

Kept == Good' /\ \A i \in Jobs : Silent(i)

LEMMA GoodInit == Init => Good
  <1> SUFFICES ASSUME Init PROVE Good
    OBVIOUS
  <1>1. Idle \in Queues
    BY DEF Idle, Queues, Stages
  <1>2. [status |-> "none", claimed |-> FALSE, terminal |-> FALSE] \in Runs
    BY DEF Runs, Statuses
  <1>3. Typed
    BY <1>1, <1>2 DEF Init, Typed
  <1>4. \A j \in Jobs : ~job[j].terminal /\ queue[j] = Idle
    BY DEF Init
  <1>5. Load(Idle) = 0
    BY DEF Load, Idle
  <1>6. QED
    BY <1>3, <1>4, <1>5 DEF Good, Over, Within

LEMMA MovesKeep == ASSUME Good, NEW j \in Jobs, Moves(j) PROVE Good' /\ \A i \in Jobs : Silent(i)
  <1>1. ASSUME NEW i \in Jobs PROVE (Over(i) /\ Within(i))' /\ Silent(i)
    <2>1. CASE i = j
      BY <2>1 DEF Moves
    <2>2. CASE i # j
      BY <2>2 DEF Moves, Keeps, Silent, Good, Over, Within
    <2>3. QED
      BY <2>1, <2>2
  <1>2. QED
    BY <1>1 DEF Moves, Good

-----------------------------------------------------------------------------
(***************************************************************************)
(* The ways a job ends.                                                    *)
(***************************************************************************)
LEMMA SettledTyped ==
    ASSUME NEW q \in Queues
    PROVE  Settled(q) \in Queues /\ Settled(q).stage \in {"idle", "opening"}
  <1>1. <<>> \in Seq(Nat)
    OBVIOUS
  <1>2. CASE q.stage = "opening"
    <2>1. Settled(q) = [q EXCEPT !.pending = <<>>, !.stage = "opening"]
      BY <1>2 DEF Settled, Queues
    <2>2. QED
      BY <1>1, <2>1 DEF Queues, Stages
  <1>3. CASE q.stage # "opening"
    <2>1. Settled(q) = [q EXCEPT !.pending = <<>>, !.stage = "idle"]
      BY <1>3 DEF Settled, Queues
    <2>2. QED
      BY <1>1, <2>1 DEF Queues, Stages
  <1>4. QED
    BY <1>2, <1>3

LEMMA EndMoves ==
    ASSUME Good, NEW j \in Jobs, ~job[j].terminal, NEW q \in Queues,
           NEW status \in Statuses, NEW r \in {"ended", "empty", "error", "destroyed", "gone", "none"},
           ~Early(j), UNCHANGED <<prompt, body>>,
           committed' \in [Jobs -> Nat],
           Ends(j, q, status, r)
    PROVE  Moves(j)
  <1>1. /\ queue' = [queue EXCEPT ![j] = Settled(q)] /\ response' = [response EXCEPT ![j] = r]
        /\ job' = [job EXCEPT ![j] = [job[j] EXCEPT !.status = status, !.terminal = TRUE]]
    BY DEF Ends
  <1>2. [job[j] EXCEPT !.status = status, !.terminal = TRUE] \in Runs
    BY RunEnded DEF Good, Typed
  <1>3. Typed'
    BY <1>1, <1>2, SettledTyped DEF Good, Typed
  <1>4. job'[j].terminal = TRUE /\ queue'[j] = Settled(q) /\ response'[j] = r
    BY <1>1 DEF Good, Typed, Runs
  <1>5. QED
    BY <1>1, <1>3, <1>4, SettledTyped DEF Moves, Keeps, Over, Within, Silent, Good, Typed

LEMMA ResponseOver ==
    ASSUME Good, NEW j \in Jobs
    PROVE  /\ AppliedFail(response[j]) \in {"ended", "empty", "error", "destroyed", "gone", "none"}
           /\ AppliedClose(response[j]) \in {"ended", "empty", "error", "destroyed", "gone", "none"}
  BY DEF Good, Typed, AppliedFail, AppliedClose

LEMMA FailMoves ==
    ASSUME Good, NEW j \in Jobs, ~job[j].terminal, ~Early(j),
           UNCHANGED <<prompt, body>>, committed' \in [Jobs -> Nat],
           Fails(j) \/ Cancels(j) \/ \E q \in Queues : Completes(j, q)
    PROVE  Moves(j)
  <1>1. queue[j] \in Queues /\ {"failed", "cancelled", "completed"} \subseteq Statuses
    BY DEF Good, Typed, Statuses
  <1>2. \E q \in Queues, status \in Statuses, r \in {"ended", "empty", "error", "destroyed", "gone", "none"} :
            Ends(j, q, status, r)
    BY <1>1, ResponseOver DEF Fails, Cancels, Completes
  <1>3. QED
    BY <1>2, EndMoves

-----------------------------------------------------------------------------
(***************************************************************************)
(* The queue takes an utterance on, goes to the next, and works on one.    *)
(***************************************************************************)
LEMMA SteppedTyped ==
    ASSUME NEW q \in Queues
    PROVE  Stepped(q) \in Queues /\ (q.stage = "idle" => Load(Stepped(q)) =< Len(q.pending) + 0)
           /\ (q.stage # "idle" => Stepped(q) = q)
  <1>1. CASE q.stage # "idle"
    BY <1>1 DEF Stepped
  <1>2. CASE q.stage = "idle" /\ q.pending = <<>>
    <2>1. Stepped(q) = q
      BY <1>2 DEF Stepped
    <2>2. QED
      BY <1>2, <2>1 DEF Load
  <1>3. CASE q.stage = "idle" /\ q.pending # <<>>
    <2>1. q.pending \in Seq(Nat)
      BY DEF Queues
    <2>2. Head(q.pending) \in Nat /\ Tail(q.pending) \in Seq(Nat) /\ Len(Tail(q.pending)) = Len(q.pending) - 1
      BY <1>3, <2>1
    <2>3. Stepped(q) = [q EXCEPT !.current = Head(q.pending), !.pending = Tail(q.pending), !.stage = "opening"]
      BY <1>3 DEF Stepped
    <2>4. Stepped(q) \in Queues
      BY <2>2, <2>3 DEF Queues, Stages
    <2>5. Stepped(q).pending = Tail(q.pending) /\ Stepped(q).stage = "opening"
      BY <2>3 DEF Queues
    <2>6. Load(Stepped(q)) = Len(Tail(q.pending)) + 1
      BY <2>5 DEF Load
    <2>7. Len(q.pending) \in Nat /\ Len(Tail(q.pending)) \in Nat
      BY <2>1, <2>2
    <2>8. QED
      BY <1>3, <2>2, <2>4, <2>6, <2>7
  <1>4. QED
    BY <1>1, <1>2, <1>3

LEMMA NotFull ==
    ASSUME NEW q \in Queues, ~Full(q)
    PROVE  Len(q.pending) + (IF q.stage = "idle" THEN 0 ELSE 1) < MaxQueued
  <1>1. q.pending \in Seq(Nat)
    BY DEF Queues
  <1>2. Len(q.pending) \in Nat
    BY <1>1
  <1>3. ~(Len(q.pending) + (IF q.stage = "idle" THEN 0 ELSE 1) >= MaxQueued)
    BY DEF Full
  <1>4. CASE q.stage = "idle"
    BY <1>2, <1>3, <1>4, BoundIsNat
  <1>5. CASE q.stage # "idle"
    BY <1>2, <1>3, <1>5, BoundIsNat
  <1>6. QED
    BY <1>4, <1>5

\* The status that a living job publishes.
LEMMA PublishTyped ==
    ASSUME Good, NEW j \in Jobs, NEW status \in Statuses, Publish(j, status)
    PROVE  /\ job' \in [Jobs -> Runs] /\ job'[j].terminal = job[j].terminal
           /\ \A i \in Jobs \ {j} : job'[i] = job[i]
  <1>1. job' = [job EXCEPT ![j] = [job[j] EXCEPT !.status = status]]
    BY DEF Publish
  <1>2. QED
    BY <1>1 DEF Good, Typed, Runs

\* A step of a living job that leaves it living.
LEMMA LiveMoves ==
    ASSUME Good, NEW j \in Jobs, NEW q \in Queues, ~job[j].terminal, ~job'[j].terminal,
           queue' = [queue EXCEPT ![j] = q], Load(q) =< MaxQueued,
           job' \in [Jobs -> Runs], \A i \in Jobs \ {j} : job'[i] = job[i],
           \E r \in {"none", "waiting", "flowing", "empty"} :
               response' = response \/ response' = [response EXCEPT ![j] = r],
           \E chunk : body' = body \/ body' = [body EXCEPT ![j] = chunk],
           committed' \in [Jobs -> Nat],
           prompt' \in [Jobs -> {"none", "sent", "running", "returned", "failed", "over"}],
           \A i \in Jobs \ {j} : prompt'[i] = prompt[i]
    PROVE  Moves(j)
  <1>1. response' \in [Jobs -> {"none", "waiting", "flowing", "ended", "empty", "error", "destroyed", "gone"}]
        /\ \A i \in Jobs \ {j} : response'[i] = response[i]
    BY DEF Good, Typed
  <1>2. DOMAIN body' = Jobs /\ \A i \in Jobs \ {j} : body'[i] = body[i]
    BY DEF Good, Typed
  <1>3. queue' \in [Jobs -> Queues] /\ queue'[j] = q /\ \A i \in Jobs \ {j} : queue'[i] = queue[i]
    BY DEF Good, Typed
  <1>4. Typed'
    BY <1>1, <1>2, <1>3 DEF Typed
  <1>5. QED
    BY <1>1, <1>2, <1>3, <1>4 DEF Moves, Keeps, Over, Within, Silent

\* A step that leaves the jobs alone, and at most takes a prompt further.
LEMMA QuietKeeps ==
    ASSUME Good, NEW j, UNCHANGED <<job, queue, response, body, committed>>,
           NEW p \in {"sent", "running", "returned", "failed", "over"},
           p = "sent" => prompt[j] = "none",
           prompt' = prompt \/ prompt' = [prompt EXCEPT ![j] = p]
    PROVE  Kept
  <1>1. Typed'
    BY DEF Good, Typed
  <1>2. ASSUME NEW i \in Jobs PROVE (Over(i) /\ Within(i))' /\ Silent(i)
    <2>1. prompt'[i] \in {"none", "sent"} => prompt[i] \in {"none", "sent"}
      BY DEF Good, Typed
    <2>2. QED
      BY <2>1 DEF Good, Over, Within, Silent, Load
  <1>3. QED
    BY <1>1, <1>2 DEF Good, Kept

-----------------------------------------------------------------------------
(***************************************************************************)
(* The steps of one job.                                                   *)
(***************************************************************************)
\* A job whose prompt is not running yet has not ended.
LEMMA StartKeeps == ASSUME Good, NEW j \in Jobs, StartPrompt(j) PROVE Kept
  <1>1. /\ prompt[j] = "sent" /\ prompt' = [prompt EXCEPT ![j] = "running"]
        /\ job' = [job EXCEPT ![j] = [job[j] EXCEPT !.status = "waiting_for_text"]]
        /\ UNCHANGED <<queue, committed, response, body>>
    BY DEF StartPrompt
  <1>2. ~job[j].terminal /\ job[j] \in Runs /\ queue[j] \in Queues
    BY <1>1 DEF Good, Over, Early, Typed
  <1>3. [job[j] EXCEPT !.status = "waiting_for_text"] \in Runs
    BY <1>2 DEF Runs, Statuses
  <1>4. /\ job' \in [Jobs -> Runs] /\ ~job'[j].terminal /\ \A i \in Jobs \ {j} : job'[i] = job[i]
    BY <1>1, <1>2, <1>3 DEF Good, Typed, Runs
  <1>5. Load(queue[j]) =< MaxQueued /\ queue' = [queue EXCEPT ![j] = queue[j]]
    BY <1>1, <1>2 DEF Good, Within, Typed
  <1>6. /\ committed' \in [Jobs -> Nat] /\ \A i \in Jobs \ {j} : prompt'[i] = prompt[i]
        /\ prompt' \in [Jobs -> {"none", "sent", "running", "returned", "failed", "over"}]
    BY <1>1 DEF Good, Typed
  <1>7. Moves(j)
    BY <1>1, <1>2, <1>4, <1>5, <1>6, LiveMoves
  <1>8. QED
    BY <1>7, MovesKeep DEF Kept

LEMMA PromptFailsKeeps == ASSUME Good, NEW j \in Jobs, PromptFails(j) PROVE Kept
  <1>1. prompt[j] = "running" /\ prompt' = [prompt EXCEPT ![j] = "failed"] /\ UNCHANGED <<committed, body>>
    BY DEF PromptFails
  <1>2. CASE job[j].terminal
    BY <1>1, <1>2, QuietKeeps DEF PromptFails
  <1>3. CASE ~job[j].terminal
    <2>1. /\ job' = [job EXCEPT ![j] = [job[j] EXCEPT !.status = "dropped", !.terminal = TRUE]]
          /\ queue' = [queue EXCEPT ![j] = Settled(queue[j])]
          /\ response' = [response EXCEPT ![j] = AppliedFail(response[j])]
      BY <1>3 DEF PromptFails
    <2>2. [job[j] EXCEPT !.status = "dropped", !.terminal = TRUE] \in Runs /\ Settled(queue[j]) \in Queues
          /\ Settled(queue[j]).stage \in {"idle", "opening"}
      <3>1. job[j] \in Runs /\ queue[j] \in Queues /\ "dropped" \in Statuses
        BY DEF Good, Typed, Statuses
      <3>2. QED
        BY <3>1, RunEnded, SettledTyped
    <2>3. Typed'
      BY <1>1, <2>1, <2>2, ResponseOver DEF Good, Typed
    <2>4. /\ job'[j].terminal = TRUE /\ queue'[j] = Settled(queue[j])
          /\ response'[j] = AppliedFail(response[j]) /\ prompt'[j] = "failed"
      BY <1>1, <2>1 DEF Good, Typed, Runs
    <2>5. Over(j)' /\ Within(j)' /\ Silent(j)
      BY <1>1, <1>3, <2>2, <2>4, ResponseOver DEF Over, Within, Silent
    <2>6. \A i \in Jobs \ {j} : Keeps(i)
      BY <1>1, <2>1 DEF Keeps, Good, Typed
    <2>7. QED
      BY <2>3, <2>5, <2>6, MovesKeep DEF Moves, Kept
  <1>4. QED
    BY <1>2, <1>3

LEMMA EnqueuesKeeps ==
    ASSUME Good, NEW j \in Jobs, NEW closed \in BOOLEAN, Speaking(j), Enqueues(j, closed)
    PROVE  Kept
  <1> DEFINE q == queue[j]
             more == [q EXCEPT !.pending = Append(@, committed[j] + 1)]
             next == [Stepped(more) EXCEPT !.closed = closed]
  <1>1. prompt[j] = "running" /\ ~job[j].terminal /\ UNCHANGED <<prompt, body>>
        /\ committed' = [committed EXCEPT ![j] = @ + 1]
    BY DEF Speaking, Enqueues, client
  <1>2. committed' \in [Jobs -> Nat]
    BY <1>1 DEF Good, Typed
  <1>3. CASE Full(q)
    <2>1. Fails(j)
      BY <1>3 DEF Enqueues
    <2>2. QED
      BY <1>1, <1>2, <2>1, FailMoves, MovesKeep DEF Kept
  <1>4. CASE ~Full(q)
    <2>1. queue' = [queue EXCEPT ![j] = next] /\ response' = response
          /\ Publish(j, IF q.stage = "idle" \/ job[j].status = "waiting_for_text" THEN "generating" ELSE job[j].status)
      BY <1>4 DEF Enqueues
    <2>2. q \in Queues /\ committed[j] + 1 \in Nat /\ job[j].status \in Statuses /\ "generating" \in Statuses
      BY DEF Good, Typed, Runs, Statuses
    <2>3. q.pending \in Seq(Nat) /\ Len(q.pending) \in Nat
      BY <2>2 DEF Queues
    <2>4. Append(q.pending, committed[j] + 1) \in Seq(Nat)
          /\ Len(Append(q.pending, committed[j] + 1)) = Len(q.pending) + 1
      BY <2>2, <2>3
    <2>5. more \in Queues /\ more.pending = Append(q.pending, committed[j] + 1) /\ more.stage = q.stage
      BY <2>2, <2>4 DEF Queues
    <2>6. Len(q.pending) + (IF q.stage = "idle" THEN 0 ELSE 1) < MaxQueued
      BY <1>4, <2>2, NotFull
    <2> HIDE DEF more
    <2>7. Stepped(more) \in Queues
      BY <2>5, SteppedTyped
    <2>8. Load(Stepped(more)) =< MaxQueued
      <3>1. CASE q.stage = "idle"
        <4>1. Load(Stepped(more)) =< Len(q.pending) + 1
          BY <3>1, <2>4, <2>5, SteppedTyped
        <4>2. Len(q.pending) < MaxQueued
          BY <3>1, <2>6, <2>3
        <4>3. Load(Stepped(more)) \in Nat
          BY <2>7 DEF Load, Queues
        <4>4. QED
          BY <4>1, <4>2, <4>3, <2>3, BoundIsNat
      <3>2. CASE q.stage # "idle"
        <4>1. Load(Stepped(more)) = Len(q.pending) + 1 + 1
          BY <3>2, <2>4, <2>5, SteppedTyped DEF Load
        <4>2. QED
          BY <3>2, <4>1, <2>3, <2>6, BoundIsNat
      <3>3. QED
        BY <3>1, <3>2
    <2>9. next \in Queues /\ Load(next) =< MaxQueued
      BY <2>7, <2>8 DEF Queues, Load
    <2> HIDE DEF next, q
    <2>10. PICK status \in Statuses : Publish(j, status)
      BY <2>1, <2>2
    <2>11. /\ job' \in [Jobs -> Runs] /\ ~job'[j].terminal /\ \A i \in Jobs \ {j} : job'[i] = job[i]
      BY <1>1, <2>10, PublishTyped
    <2>12. prompt' \in [Jobs -> {"none", "sent", "running", "returned", "failed", "over"}]
           /\ \A i \in Jobs \ {j} : prompt'[i] = prompt[i]
      BY <1>1 DEF Good, Typed
    <2>13. Moves(j)
      BY <1>1, <1>2, <2>1, <2>9, <2>11, <2>12, LiveMoves
    <2>14. QED
      BY <2>13, MovesKeep DEF Kept
  <1>5. QED
    BY <1>3, <1>4

LEMMA FinishKeeps == ASSUME Good, NEW j \in Jobs, FinishTurn(j) PROVE Kept
  <1>1. Speaking(j) /\ prompt[j] = "running" /\ ~job[j].terminal /\ TRUE \in BOOLEAN
    BY DEF FinishTurn, Speaking
  <1>2. CASE Enqueues(j, TRUE)
    BY <1>1, <1>2, EnqueuesKeeps
  <1>3. CASE ~Enqueues(j, TRUE)
    <2> DEFINE q == [queue[j] EXCEPT !.closed = TRUE]
    <2>1. UNCHANGED <<prompt, committed, body>>
      BY <1>3 DEF FinishTurn, client
    <2>2. q \in Queues /\ Load(q) = Load(queue[j]) /\ committed' \in [Jobs -> Nat]
      <3>1. queue[j] \in Queues /\ committed' \in [Jobs -> Nat]
        BY <2>1 DEF Good, Typed
      <3>2. QED
        BY <3>1 DEF Queues, Load
    <2>3. CASE Completes(j, q)
      BY <1>1, <2>1, <2>2, <2>3, FailMoves, MovesKeep DEF Kept
    <2>4. CASE ~Completes(j, q)
      <3>1. queue' = [queue EXCEPT ![j] = q] /\ UNCHANGED <<job, response>>
        BY <1>3, <2>4 DEF FinishTurn
      <3>2. Load(q) =< MaxQueued
        BY <1>1, <2>2 DEF Good, Within
      <3>3. /\ job' \in [Jobs -> Runs] /\ ~job'[j].terminal /\ \A i \in Jobs \ {j} : job'[i] = job[i]
            /\ prompt' \in [Jobs -> {"none", "sent", "running", "returned", "failed", "over"}]
            /\ \A i \in Jobs \ {j} : prompt'[i] = prompt[i]
        BY <1>1, <2>1, <3>1 DEF Good, Typed
      <3> HIDE DEF q
      <3>4. Moves(j)
        BY <1>1, <2>1, <2>2, <3>1, <3>2, <3>3, LiveMoves
      <3>5. QED
        BY <3>4, MovesKeep DEF Kept
    <2>5. QED
      BY <2>3, <2>4
  <1>4. QED
    BY <1>2, <1>3

\* A job that has ended has at most a source that is still being opened.
LEMMA OpensKeeps == ASSUME Good, NEW j \in Jobs, SourceOpens(j) \/ ResponseDrains(j) PROVE Kept
  <1>1. PICK stage \in {"idle", "reading"} :
            /\ queue' = [queue EXCEPT ![j] = [queue[j] EXCEPT !.stage = stage]]
            /\ (stage = "idle") <=> job[j].terminal
    <2>1. CASE SourceOpens(j)
      <3>1. CASE job[j].terminal
        BY <2>1, <3>1 DEF SourceOpens
      <3>2. CASE ~job[j].terminal
        BY <2>1, <3>2 DEF SourceOpens
      <3>3. QED
        BY <3>1, <3>2
    <2>2. CASE ResponseDrains(j)
      <3>1. ~job[j].terminal
        BY <2>2 DEF ResponseDrains, Good, Over
      <3>2. QED
        BY <2>2, <3>1 DEF ResponseDrains
    <2>3. QED
      BY <2>1, <2>2
  <1>2. UNCHANGED <<prompt, job, committed, response, body>>
    BY DEF SourceOpens, ResponseDrains
  <1>3. queue[j] \in Queues /\ queue[j].stage # "idle"
    BY DEF SourceOpens, ResponseDrains, Good, Typed
  <1>4. [queue[j] EXCEPT !.stage = stage] \in Queues
    BY <1>3 DEF Queues, Stages
  <1>5. Typed'
    BY <1>1, <1>2, <1>4 DEF Good, Typed
  <1>6. queue'[j].stage = stage /\ queue'[j].pending = queue[j].pending /\ queue'[j].current = queue[j].current
    BY <1>1, <1>3 DEF Good, Typed, Queues
  <1>7. Over(j)' /\ Within(j)' /\ Silent(j)
    BY <1>1, <1>2, <1>3, <1>6 DEF Good, Over, Within, Load, Silent
  <1>8. \A i \in Jobs \ {j} : Keeps(i)
    BY <1>1, <1>2 DEF Keeps, Good, Typed
  <1>9. QED
    BY <1>5, <1>7, <1>8, MovesKeep DEF Moves, Kept

\* What is read and written belongs to a job that lives.
LEMMA ChunkKeeps == ASSUME Good, NEW j \in Jobs, SourceChunk(j) PROVE Kept
  <1>1. ~job[j].terminal /\ queue[j] \in Queues /\ queue[j].stage = "reading"
    BY DEF SourceChunk, Good, Over, Typed
  <1>2. committed' \in [Jobs -> Nat] /\ UNCHANGED prompt
        /\ prompt' \in [Jobs -> {"none", "sent", "running", "returned", "failed", "over"}]
    BY DEF SourceChunk, Good, Typed
  <1>3. ASSUME NEW stage \in {"parked", "reading", "draining"}
        PROVE  /\ [queue[j] EXCEPT !.stage = stage] \in Queues
               /\ Load([queue[j] EXCEPT !.stage = stage]) =< MaxQueued
    BY <1>1 DEF Queues, Stages, Load, Good, Within
  <1>4. CASE response[j] = "none"
    <2>1. queue' = [queue EXCEPT ![j] = [queue[j] EXCEPT !.stage = "parked"]]
          /\ UNCHANGED <<job, body, response>>
      BY <1>4 DEF SourceChunk
    <2>2. job' \in [Jobs -> Runs] /\ ~job'[j].terminal /\ \A i \in Jobs \ {j} : job'[i] = job[i]
      BY <1>1, <2>1 DEF Good, Typed
    <2>3. Moves(j)
      BY <1>1, <1>2, <1>3, <2>1, <2>2, LiveMoves
    <2>4. QED
      BY <2>3, MovesKeep DEF Kept
  <1>5. CASE response[j] # "none"
    <2>1. PICK chunk : Writes(j, chunk)
      BY <1>5 DEF SourceChunk
    <2>2. PICK stage \in {"reading", "draining"} : queue' = [queue EXCEPT ![j] = [queue[j] EXCEPT !.stage = stage]]
      BY <2>1 DEF Writes
    <2>3. /\ response' = [response EXCEPT ![j] = "flowing"]
          /\ body' = [body EXCEPT ![j] = Append(body[j], chunk)]
      BY <2>1 DEF Writes
    <2>4. \E status \in Statuses : Publish(j, status)
      BY <1>1, <2>1 DEF Writes, Good, Typed, Runs, Statuses
    <2>5. job' \in [Jobs -> Runs] /\ ~job'[j].terminal /\ \A i \in Jobs \ {j} : job'[i] = job[i]
      BY <1>1, <2>4, PublishTyped
    <2>6. Moves(j)
      BY <1>1, <1>2, <1>3, <2>2, <2>3, <2>5, LiveMoves
    <2>7. QED
      BY <2>6, MovesKeep DEF Kept
  <1>6. QED
    BY <1>4, <1>5

LEMMA SourceEndsKeeps == ASSUME Good, Begun, NEW j \in Jobs, SourceEnds(j) PROVE Kept
  <1> DEFINE q == [queue[j] EXCEPT !.stage = "idle", !.completed = @ + 1]
  <1>0. ~Early(j)
    BY Started DEF SourceEnds
  <1>1. ~job[j].terminal /\ queue[j] \in Queues /\ queue[j].stage = "reading"
    BY DEF SourceEnds, Good, Over, Typed
  <1>2. /\ committed' \in [Jobs -> Nat] /\ UNCHANGED <<prompt, body>>
        /\ prompt' \in [Jobs -> {"none", "sent", "running", "returned", "failed", "over"}]
    BY DEF SourceEnds, Good, Typed, client
  <1>3. q \in Queues /\ q.stage = "idle" /\ q.pending = queue[j].pending
    <2>1. queue[j].completed + 1 \in Nat
      BY <1>1 DEF Queues
    <2>2. q = [queue[j] EXCEPT !.stage = "idle", !.completed = queue[j].completed + 1]
      OBVIOUS
    <2> HIDE DEF q
    <2>3. QED
      BY <1>1, <2>1, <2>2 DEF Queues, Stages
  <1>4. Len(q.pending) + 1 =< MaxQueued /\ Len(q.pending) \in Nat
    <2>1. Load(queue[j]) =< MaxQueued /\ Load(queue[j]) = Len(queue[j].pending) + 1
      BY <1>1 DEF Good, Within, Load
    <2>2. queue[j].pending \in Seq(Nat)
      BY <1>1 DEF Queues
    <2> HIDE DEF q
    <2>3. QED
      BY <1>3, <2>1, <2>2
  <1>5. CASE Drained(q)
    <2>1. Completes(j, q)
      BY <1>5 DEF SourceEnds
    <2>2. QED
      BY <1>0, <1>1, <1>2, <1>3, <2>1, FailMoves, MovesKeep DEF Kept
  <1>6. CASE ~Drained(q)
    <2>1. /\ queue' = [queue EXCEPT ![j] = Stepped(q)] /\ response' = response
          /\ Publish(j, IF q.pending = <<>> THEN job[j].status ELSE "generating")
      BY <1>6 DEF SourceEnds
    <2> HIDE DEF q
    <2>2. Stepped(q) \in Queues /\ Load(Stepped(q)) =< Len(q.pending) + 0
      BY <1>3, SteppedTyped
    <2>3. Load(Stepped(q)) =< MaxQueued
      <3>1. Load(Stepped(q)) \in Nat
        BY <2>2 DEF Load, Queues
      <3>2. QED
        BY <1>4, <2>2, <3>1, BoundIsNat
    <2>4. \E status \in Statuses : Publish(j, status)
      BY <1>1, <2>1 DEF Good, Typed, Runs, Statuses
    <2>5. job' \in [Jobs -> Runs] /\ ~job'[j].terminal /\ \A i \in Jobs \ {j} : job'[i] = job[i]
      BY <1>1, <2>4, PublishTyped
    <2>6. Moves(j)
      BY <1>1, <1>2, <2>1, <2>2, <2>3, <2>5, LiveMoves
    <2>7. QED
      BY <2>6, MovesKeep DEF Kept
  <1>7. QED
    BY <1>5, <1>6

LEMMA ClaimKeeps == ASSUME Good, NEW j \in Jobs, Claim(j) PROVE Kept
  <1>1. queue[j] \in Queues /\ job[j] \in Runs
    BY DEF Good, Typed
  <1>2. /\ committed' \in [Jobs -> Nat] /\ UNCHANGED prompt
        /\ prompt' \in [Jobs -> {"none", "sent", "running", "returned", "failed", "over"}]
    BY DEF Claim, Good, Typed
  <1>3. CASE queue[j].stage = "parked"
    <2>1. ~job[j].terminal
      BY <1>3 DEF Good, Over
    <2>2. PICK stage \in {"reading", "draining"} : queue' = [queue EXCEPT ![j] = [queue[j] EXCEPT !.stage = stage]]
      BY <1>3 DEF Claim
    <2>3. /\ response' = [response EXCEPT ![j] = "flowing"]
          /\ body' = [body EXCEPT ![j] = Append(body[j], <<queue[j].current, emitted[j][queue[j].current]>>)]
          /\ job' = [job EXCEPT ![j] = [job[j] EXCEPT !.claimed = TRUE, !.status = "streaming"]]
      BY <1>3 DEF Claim
    <2>4. /\ [queue[j] EXCEPT !.stage = stage] \in Queues
          /\ Load([queue[j] EXCEPT !.stage = stage]) =< MaxQueued
      BY <1>1, <1>3, <2>1 DEF Queues, Stages, Load, Good, Within
    <2>5. job' \in [Jobs -> Runs] /\ ~job'[j].terminal /\ \A i \in Jobs \ {j} : job'[i] = job[i]
      BY <1>1, <2>1, <2>3 DEF Good, Typed, Runs, Statuses
    <2>6. \E chunk : body' = [body EXCEPT ![j] = chunk]
      BY <2>3
    <2>7. Moves(j)
      BY <1>2, <2>1, <2>2, <2>3, <2>4, <2>5, <2>6, LiveMoves
    <2>8. QED
      BY <2>7, MovesKeep DEF Kept
  <1>4. CASE queue[j].stage # "parked"
    <2>1. /\ job' = [job EXCEPT ![j] = [job[j] EXCEPT !.claimed = TRUE]]
          /\ response' = [response EXCEPT ![j] = IF job[j].terminal THEN "empty" ELSE "waiting"]
          /\ UNCHANGED <<queue, body>>
      BY <1>4 DEF Claim
    <2>2. [job[j] EXCEPT !.claimed = TRUE] \in Runs
      BY <1>1 DEF Runs
    <2>3. Typed'
      BY <1>2, <2>1, <2>2 DEF Good, Typed
    <2>4. job'[j].terminal = job[j].terminal /\ job'[j].status = job[j].status
      BY <1>1, <2>1 DEF Good, Typed, Runs
    <2>5. response'[j] = IF job[j].terminal THEN "empty" ELSE "waiting"
      BY <2>1 DEF Good, Typed
    <2>6. Over(j)' /\ Within(j)' /\ Silent(j)
      <3>1. Over(j)'
        BY <1>2, <2>1, <2>4, <2>5 DEF Good, Over
      <3>2. Within(j)' /\ Silent(j)
        BY <2>1, <2>4 DEF Good, Within, Load, Silent
      <3>3. QED
        BY <3>1, <3>2
    <2>7. \A i \in Jobs \ {j} : Keeps(i)
      BY <1>2, <2>1 DEF Keeps, Good, Typed
    <2>8. QED
      BY <2>3, <2>6, <2>7, MovesKeep DEF Moves, Kept
  <1>5. QED
    BY <1>3, <1>4

\* What ends a living job from outside.
LEMMA OutsideKeeps ==
    ASSUME Good, Begun, NEW j \in Jobs,
           SourceFails(j) \/ SessionCancels(j) \/ TimesOut(j) \/ CancelArrives(j) \/ BrowserCloses(j)
    PROVE  Kept
  <1>1. UNCHANGED <<prompt, committed, body>> /\ committed' \in [Jobs -> Nat]
    BY DEF SourceFails, SessionCancels, TimesOut, CancelArrives, BrowserCloses, client, Good, Typed
  <1>2. CASE SourceFails(j) \/ SessionCancels(j) \/ TimesOut(j) \/ (CancelArrives(j) /\ Active(j))
    <2>1. ~job[j].terminal /\ (Fails(j) \/ Cancels(j))
      BY <1>2 DEF SourceFails, SessionCancels, TimesOut, CancelArrives, Active
    <2>2. ~Early(j)
      BY <1>2, Started DEF SourceFails, SessionCancels, TimesOut
    <2>3. QED
      BY <1>1, <2>1, <2>2, FailMoves, MovesKeep DEF Kept
  <1>3. CASE CancelArrives(j) /\ ~Active(j)
    <2>1. UNCHANGED <<job, queue, response, body, committed, prompt>>
      BY <1>3 DEF CancelArrives
    <2>2. QED
      BY <2>1, QuietKeeps
  <1>4. CASE BrowserCloses(j)
    <2>1. ~job[j].terminal /\ Ends(j, queue[j], "cancelled", "gone") /\ queue[j] \in Queues /\ "cancelled" \in Statuses
      BY <1>4 DEF BrowserCloses, Good, Over, Typed, Statuses
    <2>2. ~Early(j)
      BY <1>4, Started DEF BrowserCloses, Fresh
    <2>3. QED
      BY <1>1, <2>1, <2>2, EndMoves, MovesKeep DEF Kept
  <1>5. QED
    BY <1>2, <1>3, <1>4

-----------------------------------------------------------------------------
(***************************************************************************)
(* A step that takes a job on knows that it has started.                   *)
(***************************************************************************)
LEMMA EventTyped ==
    ASSUME NEW kind \in {"job", "result", "failure"}, NEW j \in Jobs, NEW status \in Statuses
    PROVE  Event(kind, j, status) \in Events /\ Event(kind, j, status).job = j
  BY DEF Event, Events

\* An end, or a publication, says so to the owner.
LEMMA EndBegun ==
    ASSUME Begun, Good, NEW j \in Jobs, ~Early(j), UNCHANGED <<prompt, page>>,
           NEW q, NEW r, NEW status \in Statuses, Ends(j, q, status, r)
    PROVE  Begun'
  <1>1. /\ \A i \in Jobs \ {j} : job'[i] = job[i] /\ queue'[i] = queue[i] /\ response'[i] = response[i]
        /\ events' = Append(events, Event("job", j, status))
    BY DEF Ends, Good, Typed
  <1>2. QED
    BY <1>1, EventTyped, BegunOne

LEMMA OverBegun ==
    ASSUME Begun, Good, NEW j \in Jobs, ~Early(j), UNCHANGED <<prompt, page>>,
           Fails(j) \/ Cancels(j) \/ \E q : Completes(j, q)
    PROVE  Begun'
  <1>1. {"failed", "cancelled", "completed"} \subseteq Statuses
    BY DEF Statuses
  <1>2. QED
    BY <1>1, EndBegun DEF Fails, Cancels, Completes

LEMMA PublishBegun ==
    ASSUME Begun, Good, NEW j \in Jobs, ~Early(j), UNCHANGED <<prompt, page>>,
           \E status \in Statuses : Publish(j, status),
           \E q : queue' = [queue EXCEPT ![j] = q],
           \E r : response' = response \/ response' = [response EXCEPT ![j] = r]
    PROVE  Begun'
  <1>1. PICK status \in Statuses : Publish(j, status)
    OBVIOUS
  <1>2. \A i \in Jobs \ {j} : job'[i] = job[i] /\ queue'[i] = queue[i] /\ response'[i] = response[i]
    BY <1>1 DEF Publish, Good, Typed
  <1>3. events' = events \/ events' = Append(events, Event("job", j, status))
    BY <1>1 DEF Publish
  <1>4. QED
    BY <1>2, <1>3, EventTyped, BegunOne

LEMMA AnswerBegun ==
    ASSUME Begun, Good, NEW j \in Jobs, Commit(j) \/ FinishTurn(j)
    PROVE  Begun'
  <1>1. ~Early(j) /\ UNCHANGED <<prompt, page>> /\ job[j].status \in Statuses
        /\ {"generating", "failed", "completed"} \subseteq Statuses
    BY DEF Commit, FinishTurn, Enqueues, Speaking, client, Good, Typed, Runs, Statuses
  <1>2. ASSUME NEW closed, Enqueues(j, closed) PROVE Begun'
    <2>1. CASE Full(queue[j])
      BY <1>1, <1>2, <2>1, OverBegun DEF Enqueues
    <2>2. CASE ~Full(queue[j])
      <3>1. /\ \E q : queue' = [queue EXCEPT ![j] = q]
            /\ \E status \in Statuses : Publish(j, status)
            /\ response' = response
        BY <1>1, <1>2, <2>2 DEF Enqueues
      <3>2. QED
        BY <1>1, <3>1, PublishBegun
    <2>3. QED
      BY <2>1, <2>2
  <1>3. CASE FinishTurn(j) /\ ~Enqueues(j, TRUE)
    <2> DEFINE q == [queue[j] EXCEPT !.closed = TRUE]
    <2>1. CASE Completes(j, q)
      BY <1>1, <2>1, OverBegun
    <2>2. CASE ~Completes(j, q)
      <3>1. queue' = [queue EXCEPT ![j] = q] /\ UNCHANGED <<job, response, events>>
        BY <1>3, <2>2 DEF FinishTurn
      <3>2. \A i \in Jobs \ {j} : queue'[i] = queue[i]
        BY <3>1 DEF Good, Typed
      <3>3. QED
        BY <1>1, <3>1, <3>2, BegunOne
    <2>3. QED
      BY <2>1, <2>2
  <1>4. QED
    BY <1>2, <1>3 DEF Commit

LEMMA PromptBegun ==
    ASSUME Begun, Good, NEW j \in Jobs,
           RefusePrompt(j) \/ StartPrompt(j) \/ PromptReturns(j) \/ PromptFails(j)
    PROVE  Begun'
  <1>1. page' = page
    BY DEF RefusePrompt, StartPrompt, PromptReturns, PromptFails, client
  <1>2. ~Early(j)' /\ \A i \in Jobs \ {j} : prompt'[i] = prompt[i]
    BY DEF RefusePrompt, StartPrompt, PromptReturns, PromptFails, Good, Typed
  <1>3. \E kind \in {"job", "result", "failure"}, status \in Statuses :
            events' = Append(events, Event(kind, j, status))
    BY DEF RefusePrompt, StartPrompt, PromptReturns, PromptFails, Statuses
  <1>4. ASSUME NEW i \in Jobs \ {j}
        PROVE  job'[i] = job[i] /\ queue'[i] = queue[i] /\ response'[i] = response[i]
    BY DEF RefusePrompt, StartPrompt, PromptReturns, PromptFails, Good, Typed
  <1>5. QED
    BY <1>1, <1>2, <1>3, <1>4, EventTyped, BegunOne

LEMMA SourceBegun ==
    ASSUME Begun, Good, NEW j \in Jobs, SourceStep(j)
    PROVE  Begun'
  <1>1. ~Early(j)
    BY Started DEF SourceStep, SourceOpens, SourceChunk, SourceEnds, ResponseDrains
  <1>2. UNCHANGED <<prompt, page>> /\ job[j].status \in Statuses /\ {"generating", "streaming"} \subseteq Statuses
    BY DEF SourceStep, SourceOpens, SourceChunk, SourceEnds, ResponseDrains, client, Good, Typed, Runs, Statuses
  <1>3. CASE SourceOpens(j) \/ ResponseDrains(j)
    <2>1. \A i \in Jobs \ {j} : job'[i] = job[i] /\ queue'[i] = queue[i] /\ response'[i] = response[i]
      BY <1>3 DEF SourceOpens, ResponseDrains, Good, Typed
    <2>2. events' = events
      BY <1>3 DEF SourceOpens, ResponseDrains
    <2>3. QED
      BY <1>1, <1>2, <2>1, <2>2, BegunOne
  <1>4. CASE SourceChunk(j) /\ response[j] = "none"
    <2>1. \A i \in Jobs \ {j} : job'[i] = job[i] /\ queue'[i] = queue[i] /\ response'[i] = response[i]
      BY <1>4 DEF SourceChunk, Good, Typed
    <2>2. events' = events
      BY <1>4 DEF SourceChunk
    <2>3. QED
      BY <1>1, <1>2, <2>1, <2>2, BegunOne
  <1>5. CASE SourceChunk(j) /\ response[j] # "none"
    <2>1. PICK chunk : Writes(j, chunk)
      BY <1>5 DEF SourceChunk
    <2>2. PICK stage : queue' = [queue EXCEPT ![j] = [queue[j] EXCEPT !.stage = stage]]
      BY <2>1 DEF Writes
    <2>3. response' = [response EXCEPT ![j] = "flowing"] /\ \E status \in Statuses : Publish(j, status)
      BY <1>2, <2>1 DEF Writes
    <2>4. QED
      BY <1>1, <1>2, <2>2, <2>3, PublishBegun
  <1>6. CASE SourceEnds(j)
    <2> DEFINE q == [queue[j] EXCEPT !.stage = "idle", !.completed = @ + 1]
    <2>1. CASE Drained(q)
      <3>1. Completes(j, q) /\ {"completed", "failed"} \subseteq Statuses
        BY <1>6, <2>1 DEF SourceEnds, Statuses
      <3>2. QED
        BY <1>1, <1>2, <3>1, OverBegun
    <2>2. CASE ~Drained(q)
      <3>1. /\ queue' = [queue EXCEPT ![j] = Stepped(q)] /\ response' = response
            /\ \E status \in Statuses : Publish(j, status)
        BY <1>2, <1>6, <2>2 DEF SourceEnds
      <3>2. QED
        BY <1>1, <1>2, <3>1, PublishBegun
    <2>3. QED
      BY <2>1, <2>2
  <1>7. QED
    BY <1>3, <1>4, <1>5, <1>6 DEF SourceStep

LEMMA OutsideBegun ==
    ASSUME Begun, Good, NEW j \in Jobs,
           SourceFails(j) \/ SessionCancels(j) \/ TimesOut(j) \/ CancelArrives(j) \/ BrowserCloses(j)
    PROVE  Begun'
  <1>1. UNCHANGED <<prompt, page>> /\ {"failed", "cancelled"} \subseteq Statuses
    BY DEF SourceFails, SessionCancels, TimesOut, CancelArrives, BrowserCloses, client, Statuses
  <1>2. CASE CancelArrives(j) /\ ~Active(j)
    <2>1. UNCHANGED <<job, queue, response, events>>
      BY <1>2 DEF CancelArrives
    <2>2. QED
      BY <1>1, <2>1 DEF Begun, Fresh
  <1>3. CASE ~(CancelArrives(j) /\ ~Active(j))
    <2>1. ~Early(j)
      BY <1>3, Started DEF SourceFails, SessionCancels, TimesOut, CancelArrives, BrowserCloses, Fresh
    <2>2. Fails(j) \/ Cancels(j) \/ Ends(j, queue[j], "cancelled", "gone")
      BY <1>3 DEF SourceFails, SessionCancels, TimesOut, CancelArrives, BrowserCloses
    <2>3. QED
      BY <1>1, <2>1, <2>2, OverBegun, EndBegun
  <1>4. QED
    BY <1>2, <1>3

LEMMA ClaimBegun == ASSUME Begun, Good, NEW j \in Jobs, Claim(j) PROVE Begun'
  <1>1. ~Early(j) /\ UNCHANGED <<prompt, page>> /\ "streaming" \in Statuses
    BY Started DEF Claim, Requested, client, Statuses
  <1>2. \A i \in Jobs \ {j} : job'[i] = job[i] /\ queue'[i] = queue[i] /\ response'[i] = response[i]
    <2>1. CASE queue[j].stage = "parked"
      <3>1. PICK stage : queue' = [queue EXCEPT ![j] = [queue[j] EXCEPT !.stage = stage]]
        BY <2>1 DEF Claim
      <3>2. QED
        BY <2>1, <3>1 DEF Claim, Good, Typed
    <2>2. CASE queue[j].stage # "parked"
      BY <2>2 DEF Claim, Good, Typed
    <2>3. QED
      BY <2>1, <2>2
  <1>3. events' = events \/ events' = Append(events, Event("job", j, "streaming"))
    BY DEF Claim
  <1>4. QED
    BY <1>1, <1>2, <1>3, EventTyped, BegunOne

-----------------------------------------------------------------------------
(***************************************************************************)
(* The page's own steps.                                                   *)
(***************************************************************************)
\* The page keeps its job, lets go of it, or has the one the event is about.
Turns == page' \in Pages /\ page'.job \in {page.job, None}

LEMMA LeaveTurns ==
    ASSUME Begun, NEW state \in {"idle", "waiting", "streaming", "draining", "ended", "stopped", "error"}, Leave(state)
    PROVE  Turns
  <1>1. page' = [NoPage EXCEPT !.state = state]
    BY DEF Leave
  <1>2. QED
    BY <1>1 DEF Turns, NoPage, Pages

LEMMA FailTurns ==
    ASSUME Begun, NEW stream \in {"none", "opening", "refused", "reading", "broken"}, PageFails(stream)
    PROVE  Turns
  <1>1. CASE Leave("error")
    BY <1>1, LeaveTurns
  <1>2. CASE page' = [page EXCEPT !.stream = stream]
    BY <1>2 DEF Begun, Turns, Pages
  <1>3. QED
    BY <1>1, <1>2 DEF PageFails

LEMMA EnsuredTyped == ASSUME NEW p \in Pages PROVE Ensured(p) \in Pages /\ Ensured(p).job = p.job
  <1>1. CASE p.stream # "none"
    BY <1>1 DEF Ensured
  <1>2. CASE p.stream = "none"
    <2>1. PICK state \in {"idle", "waiting", "streaming", "draining", "ended", "stopped", "error"} :
              Ensured(p) = [p EXCEPT !.stream = "opening", !.state = state]
      BY <1>2 DEF Ensured, Pages
    <2>2. QED
      BY <2>1 DEF Pages
  <1>3. QED
    BY <1>1, <1>2

LEMMA CompletedTurns == ASSUME Begun, Completed PROVE Turns
  <1>1. CASE Leave("ended")
    BY <1>1, LeaveTurns
  <1>2. CASE ~Leave("ended")
    <2>1. PICK state \in {"idle", "waiting", "streaming", "draining", "ended", "stopped", "error"} :
              page' = [page EXCEPT !.state = state]
      BY <1>2 DEF Completed, Begun, Pages
    <2>2. QED
      BY <2>1 DEF Begun, Turns, Pages
  <1>3. QED
    BY <1>1, <1>2

LEMMA ReceiveBegun == ASSUME Begun, ReceiveJob PROVE Begun'
  <1> DEFINE j == Head(events).job
  <1>1. /\ events # <<>> /\ events' = Tail(events) /\ UNCHANGED <<prompt, job, queue, response>>
    BY DEF ReceiveJob, HeadIs, server
  <1>2. Head(events) \in Events
    <2>1. events \in Seq(Events)
      BY DEF Begun
    <2>2. QED
      BY <1>1, <2>1
  <1>3. page' \in Pages /\ page'.job \in {page.job, None, j}
    <2>1. CASE bound # j
      <3> DEFINE p == [NoPage EXCEPT !.state = page.state, !.job = j]
      <3>1. p \in Pages /\ p.job = j
        BY <1>2 DEF NoPage, Pages, Begun, Events
      <3>2. page' = Ensured(p)
        BY <2>1 DEF ReceiveJob
      <3> HIDE DEF p
      <3>3. QED
        BY <3>1, <3>2, EnsuredTyped
    <2>2. CASE bound = j /\ HandleJob(Head(events).status)
      <3>1. page \in Pages
        BY DEF Begun
      <3>2. PageFails(page.stream) \/ Completed \/ page' = Ensured(page)
        BY <2>2 DEF HandleJob
      <3>3. page.stream \in {"none", "opening", "refused", "reading", "broken"}
        BY <3>1 DEF Pages
      <3>4. CASE page' = Ensured(page)
        BY <3>1, <3>4, EnsuredTyped
      <3>5. CASE PageFails(page.stream) \/ Completed
        BY <3>3, <3>5, FailTurns, CompletedTurns DEF Turns
      <3>6. QED
        BY <3>2, <3>4, <3>5
    <2>3. CASE bound = j /\ page' = page
      BY <2>3 DEF Begun
    <2>4. QED
      BY <2>1, <2>2, <2>3 DEF ReceiveJob
  <1>4. QED
    BY <1>1, <1>3, BegunPage

LEMMA ResultBegun == ASSUME Begun, Good, ReceiveResult PROVE Begun'
  <1> DEFINE j == Head(events).job
  <1>1. /\ events # <<>> /\ events' = Tail(events) /\ UNCHANGED <<job, queue, response>>
        /\ prompt' = [prompt EXCEPT ![j] = "over"]
    BY DEF ReceiveResult, HeadIs
  <1>2. page' \in Pages /\ page'.job = page.job
    <2>1. PICK deaf \in BOOLEAN : page' = [page EXCEPT !.deaf = deaf]
      <3>1. CASE page.deaf \/ (HeadIs("result") /\ page.job = j)
        <4>1. page' = [page EXCEPT !.deaf = TRUE]
          <5>1. (page.deaf \/ (HeadIs("result") /\ page.job = j)) = TRUE
            BY <3>1 DEF Begun, Pages
          <5>2. QED
            BY <5>1, Zenon DEF ReceiveResult
        <4>2. QED
          BY <4>1
      <3>2. CASE ~(page.deaf \/ (HeadIs("result") /\ page.job = j))
        <4>1. page' = [page EXCEPT !.deaf = FALSE]
          <5>1. (page.deaf \/ (HeadIs("result") /\ page.job = j)) = FALSE
            BY <3>2
          <5>2. QED
            BY <5>1, Zenon DEF ReceiveResult
        <4>2. QED
          BY <4>1
      <3>3. QED
        BY <3>1, <3>2
    <2>2. QED
      BY <2>1 DEF Begun, Pages
  <1>3. \A i \in Jobs : Early(i)' => Early(i)
    BY <1>1 DEF Good, Typed
  <1>4. QED
    BY <1>1, <1>2, <1>3, BegunPage

LEMMA PageBegun ==
    ASSUME Begun, Good,
           \/ \E j \in Jobs : AskPrompt(j) \/ RefuseClaim(j)
           \/ StreamOpens \/ NothingToSay \/ StreamRefused \/ Hear \/ BodyEnds \/ BodyBreaks \/ Played \/ UserStops
    PROVE  Begun' /\ Kept
  <1>1. UNCHANGED <<job, queue, response, body, committed, events>>
    BY DEF AskPrompt, RefuseClaim, StreamOpens, NothingToSay, StreamRefused, Hear, BodyEnds, BodyBreaks, Played,
           UserStops, server
  <1>2. prompt' = prompt \/ \E j \in Jobs : prompt[j] = "none" /\ prompt' = [prompt EXCEPT ![j] = "sent"]
    BY DEF AskPrompt, RefuseClaim, StreamOpens, NothingToSay, StreamRefused, Hear, BodyEnds, BodyBreaks, Played,
           UserStops, server
  <1>3. \A i \in Jobs : Early(i)' => Early(i)
    BY <1>2 DEF Good, Typed
  <1>4. page \in Pages
    BY DEF Begun
  <1>5. Turns
    <2>1. CASE StopPlayback \/ NothingToSay \/ Played
      <3>1. page' = page \/ Leave("stopped") \/ Leave("ended")
        BY <2>1 DEF StopPlayback, NothingToSay, Played
      <3>2. QED
        BY <1>4, <3>1, LeaveTurns DEF Turns
    <2>2. CASE StreamRefused \/ BodyBreaks
      BY <2>2, FailTurns DEF StreamRefused, BodyBreaks
    <2>3. ASSUME NEW stream \in {"refused", "reading"}, page' = [page EXCEPT !.stream = stream] PROVE Turns
      BY <1>4, <2>3 DEF Turns, Pages
    <2>4. CASE Hear
      <3>1. PICK state \in {"streaming", page.state} : page' = [page EXCEPT !.heard = page.heard + 1, !.state = state]
        BY <2>4 DEF Hear
      <3>2. page.heard + 1 \in Nat /\ state \in {"idle", "waiting", "streaming", "draining", "ended", "stopped", "error"}
        BY <1>4, <3>1 DEF Pages
      <3>3. QED
        BY <1>4, <3>1, <3>2 DEF Turns, Pages
    <2>5. CASE BodyEnds
      <3>1. PICK state \in {"draining", page.state} : page' = [page EXCEPT !.eof = TRUE, !.state = state]
        BY <2>5 DEF BodyEnds
      <3>2. QED
        BY <1>4, <3>1 DEF Turns, Pages
    <2>6. QED
      BY <2>1, <2>2, <2>3, <2>4, <2>5 DEF AskPrompt, RefuseClaim, StreamOpens, UserStops
  <1>6. Begun'
    BY <1>1, <1>3, <1>5, BegunPage DEF Turns
  <1>7. Kept
    BY <1>1, <1>2, QuietKeeps
  <1>8. QED
    BY <1>6, <1>7

-----------------------------------------------------------------------------
(***************************************************************************)
(* The invariant holds, and every step keeps what has ended silent.        *)
(***************************************************************************)
LEMMA BegunInit == Init => Begun
  <1> SUFFICES ASSUME Init PROVE Begun
    OBVIOUS
  <1>1. page \in Pages /\ page.job = None
    <2>1. NoPage \in Pages /\ NoPage.job = None
      BY DEF NoPage, Pages
    <2>2. page = NoPage \/ page = [NoPage EXCEPT !.state = "ended"]
      BY DEF Init
    <2>3. QED
      BY <2>1, <2>2 DEF Pages
  <1>2. None \notin Jobs
    BY DEF LiveSpeechAssumption, Jobs
  <1>3. QED
    BY <1>1, <1>2 DEF Init, Begun, Fresh, Idle

LEMMA GoodStep == ASSUME Good, Begun, [Next]_vars PROVE Kept /\ Begun'
  <1>1. ASSUME NEW j \in Jobs, StartPrompt(j) PROVE Kept /\ Begun'
    BY <1>1, StartKeeps, PromptBegun
  <1>2. ASSUME NEW j \in Jobs, RefusePrompt(j) \/ PromptReturns(j) PROVE Kept /\ Begun'
    <2>1. UNCHANGED <<job, queue, response, body, committed>>
          /\ \E p \in {"failed", "returned"} : prompt' = [prompt EXCEPT ![j] = p]
      BY <1>2 DEF RefusePrompt, PromptReturns
    <2>2. QED
      BY <1>2, <2>1, QuietKeeps, PromptBegun
  <1>3. ASSUME NEW j \in Jobs, PromptFails(j) PROVE Kept /\ Begun'
    BY <1>3, PromptFailsKeeps, PromptBegun
  <1>4. ASSUME NEW j \in Jobs, Commit(j) \/ FinishTurn(j) PROVE Kept /\ Begun'
    BY <1>4, EnqueuesKeeps, FinishKeeps, AnswerBegun DEF Commit
  <1>5. ASSUME NEW j \in Jobs, SourceStep(j) PROVE Kept /\ Begun'
    BY <1>5, OpensKeeps, ChunkKeeps, SourceEndsKeeps, SourceBegun DEF SourceStep
  <1>6. ASSUME NEW j \in Jobs, Claim(j) PROVE Kept /\ Begun'
    BY <1>6, ClaimKeeps, ClaimBegun
  <1>7. ASSUME NEW j \in Jobs,
               SourceFails(j) \/ SessionCancels(j) \/ TimesOut(j) \/ CancelArrives(j) \/ BrowserCloses(j)
        PROVE  Kept /\ Begun'
    BY <1>7, OutsideKeeps, OutsideBegun
  <1>8. CASE ReceiveJob
    <2>1. UNCHANGED <<prompt, job, queue, response, body, committed>>
      BY <1>8 DEF ReceiveJob, server
    <2>2. QED
      BY <1>8, <2>1, QuietKeeps, ReceiveBegun
  <1>9. CASE ReceiveResult
    <2>1. UNCHANGED <<job, queue, response, body, committed>> /\ \E j : prompt' = [prompt EXCEPT ![j] = "over"]
      BY <1>9 DEF ReceiveResult
    <2>2. QED
      BY <1>9, <2>1, QuietKeeps, ResultBegun
  <1>10. CASE UNCHANGED vars
    <2>1. UNCHANGED <<prompt, job, queue, response, body, committed, events, page>>
      BY <1>10 DEF vars
    <2>2. QED
      BY <2>1, QuietKeeps DEF Begun, Fresh
  <1>11. QED
    BY <1>1, <1>2, <1>3, <1>4, <1>5, <1>6, <1>7, <1>8, <1>9, <1>10, PageBegun
       DEF Next, AnswerStep, ServerStep, PageStep

LEMMA AlwaysGood == Spec => [](Good /\ Begun)
  BY GoodInit, BegunInit, GoodStep, PTL DEF Spec, Kept

(***************************************************************************)
(* What a job has taken on and not finished stays within the limit of the  *)
(* backlog, for as long as the job lives.                                  *)
(***************************************************************************)
THEOREM BacklogBounded == Spec => []Backlog
  <1>1. Good => Backlog
    BY DEF Good, Within, Load, Backlog
  <1>2. QED
    BY <1>1, AlwaysGood, PTL

(***************************************************************************)
(* Once a job has ended nothing is written to its response any more, its   *)
(* status does not change and the Voice Service is neither asked for the   *)
(* next utterance nor read: whatever source was being opened, chunk was    *)
(* parked, cancel was on its way or browser left late.                     *)
(***************************************************************************)
THEOREM EndedIsSilent == Spec => SilentOnceOver
  <1>1. Good /\ Begun /\ [Next]_vars =>
          [\A j \in Jobs : job[j].terminal => StaysOver(j)]_vars
    BY GoodStep DEF Kept, Silent
  <1>2. QED
    BY <1>1, AlwaysGood, PTL DEF Spec, SilentOnceOver

-----------------------------------------------------------------------------
(***************************************************************************)
(* What has been spoken of a job.  Its queue takes the utterances in their *)
(* order and finishes each before the next; every chunk that was read has  *)
(* been written, but for the one that waits for the claim.                 *)
(***************************************************************************)
InLine(q, n) ==
    /\ q.current + Len(q.pending) = n
    /\ \A i \in 1 .. Len(q.pending) : q.pending[i] = q.current + i
    /\ q.completed + (IF q.stage = "idle" THEN 0 ELSE 1) = q.current

Taken(j) ==
    /\ committed[j] \in 0 .. UtteranceCount[j]
    /\ queue[j].current + Len(queue[j].pending) =< committed[j]
    /\ \A i \in 1 .. Len(queue[j].pending) : queue[j].pending[i] = queue[j].current + i
    /\ ~job[j].terminal =>
          /\ InLine(queue[j], committed[j])
          /\ queue[j].stage = "idle" => queue[j].pending = <<>>

AllWritten(j) == \A a \in Chunks(j) : \E k \in DOMAIN body[j] : body[j][k] = a

Voiced(j) ==
    /\ emitted[j] \in [1 .. UtteranceCount[j] -> Nat] /\ body[j] \in Seq(Nat \X Nat)
    /\ \A u \in 1 .. UtteranceCount[j] : u > queue[j].current => emitted[j][u] = 0
    /\ \A i \in DOMAIN body[j] : body[j][i] \in Chunks(j)
    /\ \A i, k \in DOMAIN body[j] : k < i => Before(body[j][k], body[j][i])
    /\ body[j] # <<>> \/ (~job[j].terminal /\ queue[j].stage # "parked") => AllWritten(j)
    /\ queue[j].stage = "parked" =>
          response[j] = "none" /\ Chunks(j) = {<<queue[j].current, emitted[j][queue[j].current]>>}
    /\ response[j] \in {"none", "waiting", "empty"} => body[j] = <<>>

Concluded(j) ==
    /\ ~job[j].terminal => job[j].status # "completed" /\ response[j] \in {"none", "waiting", "flowing"}
    /\ job[j].status = "completed" =>
          /\ queue[j].closed /\ queue[j].completed = committed[j] /\ AllWritten(j)
          /\ response[j] \in {"none", "empty", "ended"}

Spoken(j) == Taken(j) /\ Voiced(j) /\ Concluded(j)

Mute == [j \in Jobs |-> [u \in 1 .. UtteranceCount[j] |-> 0]]


LEMMA MuteTyped ==
    ASSUME NEW j \in Jobs
    PROVE  Mute[j] \in [1 .. UtteranceCount[j] -> Nat] /\ UtteranceCount[j] \in Nat
  BY DEF Mute, LiveSpeechAssumption

LEMMA SpokenInit == Init => DOMAIN emitted = Jobs /\ \A j \in Jobs : Spoken(j)
  <1> SUFFICES ASSUME Init PROVE DOMAIN emitted = Jobs /\ \A j \in Jobs : Spoken(j)
    OBVIOUS
  <1>1. emitted = Mute
    BY DEF Init, Mute
  <1>2. DOMAIN emitted = Jobs
    BY <1>1 DEF Mute
  <1>3. ASSUME NEW j \in Jobs PROVE Spoken(j)
    <2>1. /\ queue[j] = Idle /\ committed[j] = 0 /\ response[j] = "none" /\ body[j] = <<>>
          /\ ~job[j].terminal /\ job[j].status = "none"
      BY DEF Init
    <2>2. emitted[j] \in [1 .. UtteranceCount[j] -> Nat] /\ \A u \in 1 .. UtteranceCount[j] : emitted[j][u] = 0
      BY <1>1, MuteTyped DEF Mute
    <2>3. Chunks(j) = {}
      BY <2>2 DEF Chunks
    <2>4. Taken(j)
      BY <2>1, MuteTyped DEF Taken, InLine, Idle
    <2>5. body[j] \in Seq(Nat \X Nat)
      BY <2>1
    <2>6. Voiced(j)
      BY <2>1, <2>2, <2>3, <2>5 DEF Voiced, AllWritten, Idle
    <2>7. Concluded(j)
      BY <2>1 DEF Concluded
    <2>8. QED
      BY <2>4, <2>6, <2>7 DEF Spoken
  <1>4. QED
    BY <1>2, <1>3

\* Nothing that concerns the speech of a job changes.
Same(i) ==
    /\ job'[i].status = job[i].status /\ job'[i].terminal = job[i].terminal /\ queue'[i] = queue[i]
    /\ committed'[i] = committed[i] /\ emitted'[i] = emitted[i]
    /\ response'[i] = response[i] /\ body'[i] = body[i]

LEMMA SpokenSame == ASSUME NEW i \in Jobs, Spoken(i), Same(i) PROVE Spoken(i)'
  <1>1. Chunks(i)' = Chunks(i)
    BY DEF Same, Chunks
  <1>2. AllWritten(i)' <=> AllWritten(i)
    BY <1>1 DEF AllWritten, Same
  <1>3. Taken(i)'
    BY DEF Spoken, Same, Taken, InLine
  <1>4. Voiced(i)'
    BY <1>1, <1>2 DEF Spoken, Same, Voiced
  <1>5. Concluded(i)'
    BY <1>2 DEF Spoken, Same, Concluded
  <1>6. QED
    BY <1>3, <1>4, <1>5 DEF Spoken

LEMMA SettledIs ==
    ASSUME NEW q \in Queues
    PROVE  /\ Settled(q).pending = <<>> /\ Settled(q).current = q.current
           /\ Settled(q).closed = q.closed /\ Settled(q).completed = q.completed
           /\ Settled(q).stage # "parked"
  BY DEF Settled, Queues

\* Ending a job takes nothing away from what was spoken of it.
LEMMA EndSpoken ==
    ASSUME Good, NEW j \in Jobs, Spoken(j), ~job[j].terminal,
           NEW q \in Queues, q.current = queue[j].current, queue'[j] = Settled(q),
           job'[j].terminal = TRUE, UNCHANGED <<body, emitted>>,
           committed'[j] \in committed[j] .. UtteranceCount[j],
           response'[j] \in {"none", "waiting", "empty"} => body[j] = <<>>,
           job'[j].status = "completed" =>
               /\ q.closed /\ q.completed = committed'[j] /\ AllWritten(j)
               /\ response'[j] \in {"none", "empty", "ended"}
    PROVE  Spoken(j)'
  <1>1. Chunks(j)' = Chunks(j) /\ (AllWritten(j)' <=> AllWritten(j))
    BY DEF Chunks, AllWritten
  <1>2. Taken(j)'
    <2>1. q.current \in Nat /\ committed[j] \in Nat /\ committed'[j] \in Nat /\ UtteranceCount[j] \in Nat
          /\ committed'[j] \in 0 .. UtteranceCount[j] /\ committed[j] =< committed'[j]
      BY MuteTyped DEF Good, Typed, Queues
    <2>2. q.current =< committed[j]
      <3>1. Len(queue[j].pending) \in Nat /\ queue[j].current \in Nat
        BY DEF Good, Typed, Queues
      <3>2. queue[j].current + Len(queue[j].pending) =< committed[j]
        BY DEF Spoken, Taken
      <3>3. QED
        BY <2>1, <3>1, <3>2
    <2>3. Len(Settled(q).pending) = 0 /\ q.current + 0 =< committed'[j]
      BY <2>1, <2>2, SettledIs
    <2>4. QED
      BY <2>1, <2>3, SettledIs DEF Taken
  <1>3. Voiced(j)'
    BY <1>1, SettledIs DEF Spoken, Voiced
  <1>4. Concluded(j)'
    BY <1>1, SettledIs DEF Concluded
  <1>5. QED
    BY <1>2, <1>3, <1>4 DEF Spoken

\* What an end makes of the job.
LEMMA EndIs ==
    ASSUME Good, NEW j \in Jobs, NEW q \in Queues, NEW status, NEW r, Ends(j, q, status, r)
    PROVE  /\ queue'[j] = Settled(q) /\ response'[j] = r
           /\ job'[j].terminal = TRUE /\ job'[j].status = status
           /\ \A i \in Jobs \ {j} : queue'[i] = queue[i] /\ job'[i] = job[i] /\ response'[i] = response[i]
  <1>1. /\ queue' = [queue EXCEPT ![j] = Settled(q)] /\ response' = [response EXCEPT ![j] = r]
        /\ job' = [job EXCEPT ![j] = [job[j] EXCEPT !.status = status, !.terminal = TRUE]]
    BY DEF Ends
  <1>2. QED
    BY <1>1 DEF Good, Typed, Runs

\* A living job fails or is cancelled, or completes with everything written.
LEMMA OverSpoken ==
    ASSUME Good, NEW j \in Jobs, Spoken(j), ~job[j].terminal, UNCHANGED <<body, emitted>>,
           committed'[j] \in committed[j] .. UtteranceCount[j],
           \/ Fails(j) \/ Cancels(j) \/ Ends(j, queue[j], "cancelled", "gone")
           \/ \E q \in Queues : /\ Completes(j, q) /\ q.current = queue[j].current /\ q.closed
                                /\ q.completed = committed'[j] /\ AllWritten(j)
    PROVE  Spoken(j)' /\ \A i \in Jobs \ {j} : queue'[i] = queue[i] /\ job'[i] = job[i] /\ response'[i] = response[i]
  <1>1. /\ queue[j] \in Queues /\ response[j] \in {"none", "waiting", "flowing"}
        /\ response[j] \in {"none", "waiting", "empty"} => body[j] = <<>>
    BY DEF Good, Typed, Spoken, Concluded, Voiced
  <1>2. /\ AppliedFail(response[j]) \in {"none", "error", "destroyed"}
        /\ AppliedFail(response[j]) = "none" => body[j] = <<>>
    BY <1>1 DEF AppliedFail
  <1>3. /\ AppliedClose(response[j]) \in {"none", "empty", "ended"}
        /\ AppliedClose(response[j]) \in {"none", "empty"} => body[j] = <<>>
    BY <1>1 DEF AppliedClose
  <1>4. ASSUME NEW status \in {"failed", "cancelled"}, NEW r \in {"none", "error", "destroyed", "gone"},
               r = "none" => body[j] = <<>>, Ends(j, queue[j], status, r)
        PROVE  Spoken(j)' /\ \A i \in Jobs \ {j} : queue'[i] = queue[i] /\ job'[i] = job[i] /\ response'[i] = response[i]
    <2>1. /\ queue'[j] = Settled(queue[j]) /\ response'[j] = r
          /\ job'[j].terminal = TRUE /\ job'[j].status = status
          /\ \A i \in Jobs \ {j} : queue'[i] = queue[i] /\ job'[i] = job[i] /\ response'[i] = response[i]
      BY <1>1, <1>4, EndIs
    <2>2. QED
      BY <1>1, <1>4, <2>1, EndSpoken
  <1>5. ASSUME NEW q \in Queues, Completes(j, q), q.current = queue[j].current, q.closed,
               q.completed = committed'[j], AllWritten(j)
        PROVE  Spoken(j)' /\ \A i \in Jobs \ {j} : queue'[i] = queue[i] /\ job'[i] = job[i] /\ response'[i] = response[i]
    <2>1. PICK status \in {"completed", "failed"} : Ends(j, q, status, AppliedClose(response[j]))
      BY <1>5 DEF Completes
    <2>2. /\ queue'[j] = Settled(q) /\ response'[j] = AppliedClose(response[j])
          /\ job'[j].terminal = TRUE /\ job'[j].status = status
          /\ \A i \in Jobs \ {j} : queue'[i] = queue[i] /\ job'[i] = job[i] /\ response'[i] = response[i]
      BY <2>1, EndIs
    <2>3. QED
      BY <1>3, <1>5, <2>2, EndSpoken
  <1>6. CASE Fails(j) \/ Cancels(j) \/ Ends(j, queue[j], "cancelled", "gone")
    BY <1>2, <1>4, <1>6 DEF Fails, Cancels
  <1>7. QED
    BY <1>5, <1>6

-----------------------------------------------------------------------------
(* The steps of a living job. *)
LEMMA SteppedInLine ==
    ASSUME NEW q \in Queues, NEW n \in Nat, InLine(q, n)
    PROVE  /\ InLine(Stepped(q), n) /\ Stepped(q) \in Queues /\ Stepped(q).closed = q.closed
           /\ Stepped(q).current >= q.current
           /\ Stepped(q).stage = "idle" => Stepped(q).pending = <<>> /\ q.stage = "idle"
           /\ Stepped(q).stage = "parked" => q.stage = "parked"
           /\ Stepped(q).completed = q.completed
  <1>1. CASE q.stage # "idle" \/ q.pending = <<>>
    BY <1>1 DEF Stepped, Queues
  <1>2. CASE q.stage = "idle" /\ q.pending # <<>>
    <2>1. q.pending \in Seq(Nat) /\ q.current \in Nat /\ q.completed \in Nat
      BY DEF Queues
    <2>2. /\ Len(q.pending) \in Nat /\ Len(q.pending) >= 1 /\ Head(q.pending) = q.pending[1]
          /\ Tail(q.pending) \in Seq(Nat) /\ Len(Tail(q.pending)) = Len(q.pending) - 1
          /\ \A i \in 1 .. Len(q.pending) - 1 : Tail(q.pending)[i] = q.pending[i + 1]
      BY <1>2, <2>1
    <2>3. Head(q.pending) = q.current + 1
      BY <2>2 DEF InLine
    <2>4. Stepped(q) = [q EXCEPT !.current = Head(q.pending), !.pending = Tail(q.pending), !.stage = "opening"]
      BY <1>2 DEF Stepped
    <2>5. /\ Stepped(q).pending = Tail(q.pending) /\ Stepped(q).stage = "opening"
          /\ Stepped(q).current = q.current + 1 /\ Stepped(q).closed = q.closed
          /\ Stepped(q).completed = q.completed
      BY <2>3, <2>4 DEF Queues
    <2>6. \A i \in 1 .. Len(Tail(q.pending)) : Tail(q.pending)[i] = q.current + 1 + i
      <3> SUFFICES ASSUME NEW i \in 1 .. Len(Tail(q.pending)) PROVE Tail(q.pending)[i] = q.current + 1 + i
        OBVIOUS
      <3>1. i \in 1 .. Len(q.pending) - 1 /\ i + 1 \in 1 .. Len(q.pending) /\ i \in Nat
        BY <2>2
      <3>2. q.pending[i + 1] = q.current + (i + 1)
        BY <3>1 DEF InLine
      <3>3. QED
        BY <2>1, <2>2, <3>1, <3>2
    <2>7. /\ q.current + 1 + (Len(q.pending) - 1) = n /\ q.completed + 1 = q.current + 1
      <3>1. q.current + Len(q.pending) = n /\ q.completed + 0 = q.current
        BY <1>2 DEF InLine
      <3>2. q.current \in Nat /\ q.completed \in Nat /\ Len(q.pending) \in Nat
        BY QueueParts
      <3>3. QED
        BY <3>1, <3>2
    <2>8. InLine(Stepped(q), n)
      BY <2>2, <2>5, <2>6, <2>7 DEF InLine
    <2>9. QED
      BY <2>1, <2>5, <2>8, SteppedTyped
  <1>3. QED
    BY <1>1, <1>2

\* An utterance that is taken on goes to the end of the line.
LEMMA EnqueuedInLine ==
    ASSUME NEW q \in Queues, NEW n \in Nat, InLine(q, n)
    PROVE  LET more == [q EXCEPT !.pending = Append(@, n + 1)] IN
           /\ InLine(more, n + 1) /\ more \in Queues /\ more.current = q.current /\ more.stage = q.stage
           /\ more.pending # <<>>
  <1> DEFINE more == [q EXCEPT !.pending = Append(@, n + 1)]
  <1>1. q.pending \in Seq(Nat) /\ q.current \in Nat /\ n + 1 \in Nat /\ Len(q.pending) \in Nat
    BY DEF Queues
  <1>2. /\ more.pending = Append(q.pending, n + 1) /\ more.current = q.current /\ more.stage = q.stage
        /\ more.completed = q.completed
    BY DEF Queues
  <1>3. /\ Len(Append(q.pending, n + 1)) = Len(q.pending) + 1 /\ Append(q.pending, n + 1) # <<>>
        /\ Append(q.pending, n + 1) \in Seq(Nat)
        /\ \A i \in 1 .. Len(q.pending) : Append(q.pending, n + 1)[i] = q.pending[i]
        /\ Append(q.pending, n + 1)[Len(q.pending) + 1] = n + 1
    BY <1>1, AppendIs
  <1>4. q.current + Len(q.pending) = n
    BY DEF InLine
  <1>5. \A i \in 1 .. Len(q.pending) + 1 : Append(q.pending, n + 1)[i] = q.current + i
    <2> SUFFICES ASSUME NEW i \in 1 .. Len(q.pending) + 1 PROVE Append(q.pending, n + 1)[i] = q.current + i
      OBVIOUS
    <2>1. CASE i \in 1 .. Len(q.pending)
      BY <1>3, <2>1 DEF InLine
    <2>2. CASE i = Len(q.pending) + 1
      <3>1. Append(q.pending, n + 1)[i] = n + 1
        BY <1>3, <2>2
      <3>2. q.current + (Len(q.pending) + 1) = n + 1
        BY <1>1, <1>4
      <3>3. QED
        BY <2>2, <3>1, <3>2
    <2>3. QED
      BY <1>1, <2>1, <2>2
  <1>6. q.current + (Len(q.pending) + 1) = n + 1
    BY <1>1, <1>4
  <1>7. InLine(more, n + 1)
    BY <1>2, <1>3, <1>5, <1>6 DEF InLine
  <1>8. more \in Queues
    BY <1>3 DEF Queues
  <1>9. QED
    BY <1>2, <1>3, <1>7, <1>8

\* A step of a living job that writes nothing.
LEMMA LiveSpoken ==
    ASSUME Good, NEW j \in Jobs, Spoken(j), ~job[j].terminal, ~job'[j].terminal,
           job'[j].status # "completed", UNCHANGED <<body, emitted>>,
           response'[j] \in {"none", "waiting", "flowing"},
           response'[j] \in {"none", "waiting", "empty"} => body[j] = <<>>,
           NEW q \in Queues, queue'[j] = q, q.stage = "parked" <=> queue[j].stage = "parked",
           q.stage = "parked" => q.current = queue[j].current /\ response'[j] = response[j],
           q.current >= queue[j].current,
           committed'[j] \in 0 .. UtteranceCount[j], InLine(q, committed'[j]),
           q.stage = "idle" => q.pending = <<>>
    PROVE  Spoken(j)'
  <1>1. Chunks(j)' = Chunks(j) /\ (AllWritten(j)' <=> AllWritten(j))
    BY DEF Chunks, AllWritten
  <1>2. Taken(j)'
    <2>1. q.current + Len(q.pending) \in Nat
      BY DEF Queues
    <2>2. QED
      BY <2>1 DEF Taken, InLine
  <1>3. Voiced(j)'
    <2>1. \A u \in 1 .. UtteranceCount[j] : u > q.current => u > queue[j].current
      BY DEF Good, Typed, Queues
    <2>2. body[j] # <<>> \/ queue[j].stage # "parked" => AllWritten(j)
      BY DEF Spoken, Voiced
    <2>3. QED
      BY <1>1, <2>1, <2>2 DEF Spoken, Voiced
  <1>4. Concluded(j)'
    BY DEF Concluded
  <1>5. QED
    BY <1>2, <1>3, <1>4 DEF Spoken

-----------------------------------------------------------------------------
(* The steps of one job, and what they leave of the others. *)
Told == DOMAIN emitted = Jobs /\ \A j \in Jobs : Spoken(j)

LEMMA ToldOne ==
    ASSUME Told, NEW j \in Jobs, Spoken(j)', DOMAIN emitted' = Jobs, \A i \in Jobs \ {j} : Same(i)
    PROVE  Told'
  <1>1. \A i \in Jobs \ {j} : Spoken(i)'
    BY SpokenSame DEF Told
  <1>2. QED
    BY <1>1 DEF Told

LEMMA ToldSame ==
    ASSUME Told, UNCHANGED <<job, queue, committed, emitted, response, body>>
    PROVE  Told'
  <1>1. \A i \in Jobs : Same(i)
    BY DEF Same
  <1>2. QED
    BY <1>1, SpokenSame DEF Told

LEMMA OverTold ==
    ASSUME Good, Told, NEW j \in Jobs, ~job[j].terminal, UNCHANGED <<body, emitted>>,
           \/ committed' = committed
           \/ committed[j] < UtteranceCount[j] /\ committed' = [committed EXCEPT ![j] = @ + 1],
           \/ Fails(j) \/ Cancels(j) \/ Ends(j, queue[j], "cancelled", "gone")
           \/ \E q \in Queues : /\ Completes(j, q) /\ q.current = queue[j].current /\ q.closed
                                /\ q.completed = committed'[j] /\ AllWritten(j)
    PROVE  Told'
  <1>1. Spoken(j)
    BY DEF Told
  <1>2. committed[j] \in Nat /\ UtteranceCount[j] \in Nat /\ committed[j] =< UtteranceCount[j]
    BY <1>1, MuteTyped DEF Spoken, Taken
  <1>3. committed'[j] \in committed[j] .. UtteranceCount[j] /\ \A i \in Jobs \ {j} : committed'[i] = committed[i]
    BY <1>2 DEF Good, Typed
  <1>4. Spoken(j)' /\ \A i \in Jobs \ {j} : queue'[i] = queue[i] /\ job'[i] = job[i] /\ response'[i] = response[i]
    BY <1>1, <1>3, OverSpoken
  <1>5. \A i \in Jobs \ {j} : Same(i)
    BY <1>3, <1>4 DEF Same
  <1>6. QED
    BY <1>4, <1>5, ToldOne DEF Told

\* A living job, as its record and its response show it.
LEMMA Living ==
    ASSUME Good, Told, NEW j \in Jobs, ~job[j].terminal
    PROVE  /\ queue[j] \in Queues /\ committed[j] \in 0 .. UtteranceCount[j] /\ committed[j] \in Nat
           /\ UtteranceCount[j] \in Nat /\ InLine(queue[j], committed[j])
           /\ queue[j].stage = "idle" => queue[j].pending = <<>>
           /\ job[j].status # "completed" /\ response[j] \in {"none", "waiting", "flowing"}
           /\ response[j] \in {"none", "waiting", "empty"} => body[j] = <<>>
           /\ queue[j].stage # "parked" => AllWritten(j)
           /\ queue[j].stage = "parked" => response[j] = "none"
  BY MuteTyped DEF Good, Typed, Told, Spoken, Taken, Voiced, Concluded

LEMMA EnqueuesTold ==
    ASSUME Good, Told, NEW j \in Jobs, ~job[j].terminal, NEW closed \in BOOLEAN, Enqueues(j, closed)
    PROVE  Told'
  <1>1. /\ committed[j] < UtteranceCount[j] /\ committed' = [committed EXCEPT ![j] = @ + 1]
        /\ UNCHANGED <<body, emitted>>
    BY DEF Enqueues
  <1>2. CASE Full(queue[j])
    <2>1. Fails(j)
      BY <1>2 DEF Enqueues
    <2>2. QED
      BY <1>1, <2>1, OverTold
  <1>3. CASE ~Full(queue[j])
    <2> DEFINE more == [queue[j] EXCEPT !.pending = Append(@, committed[j] + 1)]
               q == [Stepped(more) EXCEPT !.closed = closed]
    <2>1. PICK status : status # "completed" /\ Publish(j, status) /\ status \in Statuses
      BY <1>3, Living DEF Enqueues, Statuses, Good, Typed, Runs
    <2>2. queue' = [queue EXCEPT ![j] = q] /\ response' = response
      BY <1>3 DEF Enqueues
    <2>3. /\ InLine(more, committed[j] + 1) /\ more \in Queues /\ more.current = queue[j].current
          /\ more.stage = queue[j].stage
      BY Living, EnqueuedInLine
    <2>4. committed[j] + 1 \in Nat /\ committed[j] + 1 \in 0 .. UtteranceCount[j]
      BY <1>1, Living
    <2> HIDE DEF more
    <2>5. /\ InLine(Stepped(more), committed[j] + 1) /\ Stepped(more) \in Queues
          /\ Stepped(more).current >= queue[j].current
          /\ Stepped(more).stage = "idle" => Stepped(more).pending = <<>>
          /\ Stepped(more).stage = "parked" => queue[j].stage = "parked"
          /\ queue[j].stage # "idle" => Stepped(more) = more
      BY <2>3, <2>4, SteppedInLine, SteppedTyped
    <2>6. /\ q \in Queues /\ q.current = Stepped(more).current /\ q.pending = Stepped(more).pending
          /\ q.stage = Stepped(more).stage /\ q.completed = Stepped(more).completed
      BY <2>5 DEF Queues
    <2> HIDE DEF q
    <2>7. InLine(q, committed[j] + 1)
      BY <2>5, <2>6 DEF InLine
    <2>8. /\ queue'[j] = q /\ committed'[j] = committed[j] + 1
          /\ \A i \in Jobs \ {j} : queue'[i] = queue[i] /\ committed'[i] = committed[i]
      BY <1>1, <2>2 DEF Good, Typed
    <2>9. /\ job'[j].terminal = job[j].terminal /\ job'[j].status = status
          /\ \A i \in Jobs \ {j} : job'[i] = job[i]
      BY <2>1, PublishTyped DEF Publish, Good, Typed, Runs
    <2>10. Spoken(j)'
      <3>1. q.stage = "parked" <=> queue[j].stage = "parked"
        BY <2>3, <2>5, <2>6
      <3>2. q.stage = "parked" => q.current = queue[j].current
        BY <2>3, <2>5, <2>6, <3>1
      <3>3. q.current >= queue[j].current /\ (q.stage = "idle" => q.pending = <<>>)
        BY <2>5, <2>6
      <3>4. Spoken(j)
        BY DEF Told
      <3>5. QED
        BY <1>1, <2>1, <2>2, <2>4, <2>6, <2>7, <2>8, <2>9, <3>1, <3>2, <3>3, <3>4, Living, LiveSpoken
    <2>11. \A i \in Jobs \ {j} : Same(i)
      BY <1>1, <2>2, <2>8, <2>9 DEF Same
    <2>12. QED
      BY <1>1, <2>10, <2>11, ToldOne DEF Told
  <1>4. QED
    BY <1>2, <1>3

\* A living job whose queue has nothing left to do has done all it has taken on.
LEMMA DrainedIs ==
    ASSUME NEW q \in Queues, NEW n \in Nat, InLine(q, n), Drained(q)
    PROVE  q.closed /\ q.completed = n
  <1>1. q.current \in Nat /\ q.completed \in Nat /\ q.pending = <<>> /\ q.stage = "idle" /\ q.closed
    BY DEF Drained, Queues
  <1>2. q.current + 0 = n /\ q.completed + 0 = q.current
    BY <1>1 DEF InLine
  <1>3. QED
    BY <1>1, <1>2

\* A step of a living job in its queue alone: the stage, the end of the input.
LEMMA QueueTold ==
    ASSUME Good, Told, NEW j \in Jobs, ~job[j].terminal,
           UNCHANGED <<committed, emitted, body>>,
           NEW q \in Queues, queue' = [queue EXCEPT ![j] = q],
           NEW r \in {"none", "waiting", "flowing"}, response' = [response EXCEPT ![j] = r],
           r \in {"none", "waiting"} => body[j] = <<>>,
           job' \in [Jobs -> Runs], job'[j].status # "completed", ~job'[j].terminal,
           \A i \in Jobs \ {j} : job'[i] = job[i],
           q.stage = "parked" <=> queue[j].stage = "parked",
           q.stage = "parked" => q.current = queue[j].current /\ r = response[j],
           q.current >= queue[j].current, InLine(q, committed[j]),
           q.stage = "idle" => q.pending = <<>>
    PROVE  Told'
  <1>1. /\ queue'[j] = q /\ response'[j] = r
        /\ \A i \in Jobs \ {j} : queue'[i] = queue[i] /\ response'[i] = response[i]
    BY DEF Good, Typed
  <1>2. Spoken(j)'
    BY <1>1, Living, LiveSpoken DEF Told
  <1>3. \A i \in Jobs \ {j} : Same(i)
    BY <1>1 DEF Same
  <1>4. QED
    BY <1>2, <1>3, ToldOne DEF Told

LEMMA FinishTold == ASSUME Good, Told, NEW j \in Jobs, FinishTurn(j) PROVE Told'
  <1>1. ~job[j].terminal
    BY DEF FinishTurn, Speaking
  <1>2. CASE Enqueues(j, TRUE)
    BY <1>1, <1>2, EnqueuesTold
  <1>3. CASE ~Enqueues(j, TRUE)
    <2> DEFINE q == [queue[j] EXCEPT !.closed = TRUE]
    <2>1. /\ q \in Queues /\ q.closed /\ q.current = queue[j].current /\ q.pending = queue[j].pending
          /\ q.stage = queue[j].stage /\ q.completed = queue[j].completed
      BY <1>1, Living DEF Queues
    <2>2. UNCHANGED <<committed, emitted, body>>
      BY <1>3 DEF FinishTurn
    <2>3. InLine(q, committed[j])
      BY <1>1, <2>1, Living DEF InLine
    <2>4. CASE Drained(q)
      <3>1. Completes(j, q)
        BY <1>3, <2>4 DEF FinishTurn
      <3> HIDE DEF q
      <3>2. q.completed = committed[j] /\ AllWritten(j)
        BY <1>1, <2>1, <2>3, <2>4, DrainedIs, Living DEF Drained
      <3>3. QED
        BY <1>1, <2>1, <2>2, <3>1, <3>2, OverTold
    <2>5. CASE ~Drained(q)
      <3>1. queue' = [queue EXCEPT ![j] = q] /\ UNCHANGED <<job, response>>
        BY <1>3, <2>5 DEF FinishTurn
      <3> HIDE DEF q
      <3>2. response' = [response EXCEPT ![j] = response[j]] /\ job \in [Jobs -> Runs]
        BY <3>1 DEF Good, Typed
      <3>3. q.current >= queue[j].current
        BY <2>1 DEF Queues
      <3>4. QED
        BY <1>1, <2>1, <2>2, <2>3, <3>1, <3>2, <3>3, Living, QueueTold
    <2>6. QED
      BY <2>4, <2>5
  <1>4. QED
    BY <1>2, <1>3

LEMMA OpensTold == ASSUME Good, Told, NEW j \in Jobs, SourceOpens(j) \/ ResponseDrains(j) PROVE Told'
  <1>1. UNCHANGED <<job, committed, emitted, response, body>>
    BY DEF SourceOpens, ResponseDrains
  <1>2. CASE job[j].terminal
    <2>1. queue[j].stage = "opening" /\ queue' = [queue EXCEPT ![j] = [queue[j] EXCEPT !.stage = "idle"]]
      BY <1>2 DEF SourceOpens, ResponseDrains, Good, Over
    <2>2. /\ queue'[j].stage = "idle" /\ queue'[j].pending = queue[j].pending /\ queue'[j].closed = queue[j].closed
          /\ queue'[j].current = queue[j].current /\ queue'[j].completed = queue[j].completed
          /\ \A i \in Jobs \ {j} : queue'[i] = queue[i]
      BY <2>1 DEF Good, Typed, Queues
    <2>3. Chunks(j)' = Chunks(j) /\ (AllWritten(j)' <=> AllWritten(j))
      BY <1>1 DEF Chunks, AllWritten
    <2>4. Taken(j)' /\ Concluded(j)'
      BY <1>1, <1>2, <2>2, <2>3 DEF Told, Spoken, Taken, Concluded
    <2>5. Voiced(j)'
      BY <1>1, <1>2, <2>1, <2>2, <2>3 DEF Told, Spoken, Voiced
    <2>6. \A i \in Jobs \ {j} : Same(i)
      BY <1>1, <2>2 DEF Same
    <2>7. QED
      BY <1>1, <2>4, <2>5, <2>6, ToldOne DEF Told, Spoken
  <1>3. CASE ~job[j].terminal
    <2> DEFINE q == [queue[j] EXCEPT !.stage = "reading"]
    <2>1. queue' = [queue EXCEPT ![j] = q] /\ queue[j].stage \in {"opening", "draining"}
      BY <1>3 DEF SourceOpens, ResponseDrains
    <2>2. /\ q \in Queues /\ q.stage = "reading" /\ q.pending = queue[j].pending
          /\ q.current = queue[j].current /\ q.completed = queue[j].completed
      BY <1>3, Living DEF Queues, Stages
    <2>3. InLine(q, committed[j]) /\ q.current >= queue[j].current
      <3>1. queue[j].stage # "idle" /\ InLine(queue[j], committed[j]) /\ queue[j].current \in Nat
        BY <1>3, <2>1, Living, QueueParts
      <3> HIDE DEF q
      <3>2. InLine(q, committed[j])
        BY <2>2, <3>1 DEF InLine
      <3>3. QED
        BY <2>2, <3>1, <3>2
    <2> HIDE DEF q
    <2>4. response' = [response EXCEPT ![j] = response[j]] /\ job \in [Jobs -> Runs]
      BY <1>1 DEF Good, Typed
    <2>5. QED
      BY <1>1, <1>3, <2>1, <2>2, <2>3, <2>4, Living, QueueTold
  <1>4. QED
    BY <1>2, <1>3

\* The utterance that is worked on is one of the answer's.
LEMMA WorkedOn ==
    ASSUME Good, Told, NEW j \in Jobs, ~job[j].terminal, queue[j].stage # "idle"
    PROVE  queue[j].current \in 1 .. UtteranceCount[j]
  <1>1. /\ queue[j].current \in Nat /\ queue[j].completed \in Nat /\ Len(queue[j].pending) \in Nat
        /\ committed[j] \in Nat /\ UtteranceCount[j] \in Nat /\ committed[j] =< UtteranceCount[j]
    BY Living DEF Queues
  <1>2. queue[j].current + Len(queue[j].pending) = committed[j] /\ queue[j].completed + 1 = queue[j].current
    BY Living DEF InLine
  <1>3. QED
    BY <1>1, <1>2

\* The next chunk of the utterance comes after all that were read.
LEMMA ChunkRead ==
    ASSUME Good, Told, NEW j \in Jobs, NEW u, u = queue[j].current, u \in 1 .. UtteranceCount[j],
           emitted' = [emitted EXCEPT ![j][u] = @ + 1]
    PROVE  LET chunk == <<u, emitted[j][u] + 1>> IN
           /\ chunk \in Nat \X Nat /\ emitted'[j] \in [1 .. UtteranceCount[j] -> Nat]
           /\ Chunks(j)' = Chunks(j) \cup {chunk}
           /\ \A a \in Chunks(j) : Before(a, chunk)
           /\ emitted'[j][u] = emitted[j][u] + 1
           /\ \A v \in 1 .. UtteranceCount[j] : v > u => emitted'[j][v] = 0
           /\ DOMAIN emitted' = Jobs /\ \A i \in Jobs \ {j} : emitted'[i] = emitted[i]
  <1>1. /\ emitted[j] \in [1 .. UtteranceCount[j] -> Nat] /\ DOMAIN emitted = Jobs
        /\ \A v \in 1 .. UtteranceCount[j] : v > u => emitted[j][v] = 0
    BY DEF Told, Spoken, Voiced
  <1>2. UtteranceCount[j] \in Nat /\ u \in Nat
    BY MuteTyped
  <1>3. emitted' = [emitted EXCEPT ![j] = [emitted[j] EXCEPT ![u] = emitted[j][u] + 1]]
    OBVIOUS
  <1>4. /\ emitted'[j] = [emitted[j] EXCEPT ![u] = emitted[j][u] + 1] /\ DOMAIN emitted' = Jobs
        /\ \A i \in Jobs \ {j} : emitted'[i] = emitted[i]
    BY <1>1, <1>3
  <1>5. /\ emitted'[j] \in [1 .. UtteranceCount[j] -> Nat] /\ emitted'[j][u] = emitted[j][u] + 1
        /\ \A v \in 1 .. UtteranceCount[j] : v # u => emitted'[j][v] = emitted[j][v]
    BY <1>1, <1>4
  <1>6. \A v \in 1 .. UtteranceCount[j] : v > u => emitted'[j][v] = 0
    BY <1>1, <1>2, <1>5
  <1>7. ASSUME NEW a \in Chunks(j) PROVE Before(a, <<u, emitted[j][u] + 1>>)
    <2>1. PICK v \in 1 .. UtteranceCount[j] : \E c \in 1 .. emitted[j][v] : a = <<v, c>>
      BY <1>1 DEF Chunks
    <2>2. PICK c \in 1 .. emitted[j][v] : a = <<v, c>>
      BY <2>1
    <2>3. emitted[j][v] \in Nat /\ emitted[j][u] \in Nat /\ v \in Nat
      BY <1>1
    <2>4. v =< u
      BY <1>1, <1>2, <2>2, <2>3
    <2>5. CASE v = u
      <3>1. c < emitted[j][u] + 1
        BY <2>2, <2>3, <2>5
      <3>2. QED
        BY <2>2, <2>5, <3>1 DEF Before
    <2>6. CASE v # u
      <3>1. v < u
        BY <1>2, <2>3, <2>4, <2>6
      <3>2. QED
        BY <2>2, <3>1 DEF Before
    <2>7. QED
      BY <2>5, <2>6
  <1>8. Chunks(j)' = Chunks(j) \cup {<<u, emitted[j][u] + 1>>}
    <2>1. ASSUME NEW a PROVE a \in Chunks(j)' <=> \E v \in 1 .. UtteranceCount[j] : \E c \in 1 .. emitted'[j][v] : a = <<v, c>>
      BY <1>5 DEF Chunks
    <2>2. ASSUME NEW a PROVE a \in Chunks(j) <=> \E v \in 1 .. UtteranceCount[j] : \E c \in 1 .. emitted[j][v] : a = <<v, c>>
      BY <1>1 DEF Chunks
    <2>3. emitted[j][u] \in Nat
      BY <1>1
    <2>4. 1 .. emitted'[j][u] = 1 .. emitted[j][u] \cup {emitted[j][u] + 1}
      BY <1>5, <2>3, OneMore
    <2>5. ASSUME NEW a PROVE a \in Chunks(j)' <=> a \in Chunks(j) \cup {<<u, emitted[j][u] + 1>>}
      BY <1>5, <2>1, <2>2, <2>4
    <2>6. QED
      BY <2>5
  <1>9. <<u, emitted[j][u] + 1>> \in Nat \X Nat
    BY <1>1, <1>2
  <1>10. QED
    BY <1>4, <1>5, <1>6, <1>7, <1>8, <1>9

LEMMA ChunkTold == ASSUME Good, Told, NEW j \in Jobs, SourceChunk(j) PROVE Told'
  <1> DEFINE u == queue[j].current
             chunk == <<u, emitted[j][u] + 1>>
  <1>1. /\ queue[j].stage = "reading" /\ emitted' = [emitted EXCEPT ![j][u] = @ + 1] /\ committed' = committed
    BY DEF SourceChunk
  <1>2. ~job[j].terminal
    BY <1>1 DEF Good, Over
  <1>3. u \in 1 .. UtteranceCount[j]
    BY <1>1, <1>2, WorkedOn
  <1>4. /\ chunk \in Nat \X Nat /\ emitted'[j] \in [1 .. UtteranceCount[j] -> Nat]
        /\ Chunks(j)' = Chunks(j) \cup {chunk}
        /\ \A a \in Chunks(j) : Before(a, chunk)
        /\ emitted'[j][u] = emitted[j][u] + 1
        /\ \A v \in 1 .. UtteranceCount[j] : v > u => emitted'[j][v] = 0
        /\ DOMAIN emitted' = Jobs /\ \A i \in Jobs \ {j} : emitted'[i] = emitted[i]
    BY <1>1, <1>3, ChunkRead
  <1>5. AllWritten(j) /\ Spoken(j)
    BY <1>1, <1>2, Living DEF Told
  <1> HIDE DEF chunk
  <1>6. PICK stage \in Stages \ {"idle"} :
            /\ queue' = [queue EXCEPT ![j] = [queue[j] EXCEPT !.stage = stage]]
            /\ stage = "parked" <=> response[j] = "none"
    BY DEF SourceChunk, Writes, Stages
  <1>7. /\ queue'[j].stage = stage /\ queue'[j].current = u /\ queue'[j].pending = queue[j].pending
        /\ queue'[j].completed = queue[j].completed /\ queue'[j].closed = queue[j].closed
        /\ \A i \in Jobs \ {j} : queue'[i] = queue[i]
    BY <1>6 DEF Good, Typed, Queues
  <1>8. /\ ~job'[j].terminal /\ job'[j].status # "completed" /\ response'[j] \in {"none", "waiting", "flowing"}
        /\ \A i \in Jobs \ {j} : job'[i] = job[i] /\ response'[i] = response[i] /\ body'[i] = body[i]
    <2>1. CASE response[j] = "none"
      BY <1>2, <2>1, Living DEF SourceChunk
    <2>2. CASE response[j] # "none"
      <3>0. Writes(j, chunk) /\ job[j].status \in Statuses /\ "streaming" \in Statuses
        BY <2>2 DEF SourceChunk, chunk, Good, Typed, Runs, Statuses
      <3>1. response' = [response EXCEPT ![j] = "flowing"] /\ body' = [body EXCEPT ![j] = Append(@, chunk)]
        BY <3>0 DEF Writes
      <3>2. PICK status \in Statuses : status # "completed" /\ Publish(j, status)
        BY <1>2, <3>0, Living DEF Writes
      <3>3. job'[j].terminal = job[j].terminal /\ job'[j].status = status /\ \A i \in Jobs \ {j} : job'[i] = job[i]
        BY <3>2, PublishTyped DEF Publish, Good, Typed, Runs
      <3>4. QED
        BY <1>2, <3>1, <3>2, <3>3 DEF Good, Typed
    <2>3. QED
      BY <2>1, <2>2
  <1>9. Taken(j)' /\ Concluded(j)'
    <2>1. InLine(queue'[j], committed[j])
      BY <1>1, <1>2, <1>6, <1>7, Living DEF InLine
    <2>2. QED
      BY <1>1, <1>5, <1>6, <1>7, <1>8, <2>1 DEF Spoken, Taken, Concluded
  <1>10. CASE response[j] = "none"
    <2>1. /\ body[j] = <<>> /\ body'[j] = <<>> /\ response'[j] = "none" /\ stage = "parked"
      BY <1>2, <1>6, <1>10, Living DEF SourceChunk
    <2>2. Chunks(j)' = {chunk}
      BY <1>4, <1>5, <2>1 DEF AllWritten
    <2>3. chunk = <<queue'[j].current, emitted'[j][queue'[j].current]>>
      BY <1>4, <1>7 DEF chunk
    <2>4. Voiced(j)'
      BY <1>4, <1>7, <2>1, <2>2, <2>3 DEF Voiced
    <2>5. \A i \in Jobs \ {j} : Same(i)
      BY <1>1, <1>4, <1>7, <1>8 DEF Same
    <2>6. QED
      BY <1>4, <1>9, <2>4, <2>5, ToldOne DEF Spoken
  <1>11. CASE response[j] # "none"
    <2>1. /\ body[j] \in Seq(Nat \X Nat) /\ body'[j] = Append(body[j], chunk) /\ response'[j] = "flowing"
          /\ stage # "parked"
      BY <1>5, <1>6, <1>11 DEF SourceChunk, Writes, Spoken, Voiced, Good, Typed, chunk
    <2>2. Len(body[j]) \in Nat /\ DOMAIN body[j] = 1 .. Len(body[j])
      BY <2>1
    <2>3. /\ body'[j] \in Seq(Nat \X Nat) /\ DOMAIN body'[j] = 1 .. Len(body[j]) + 1
          /\ \A i \in DOMAIN body[j] : body'[j][i] = body[j][i]
          /\ body'[j][Len(body[j]) + 1] = chunk
          /\ \A i \in DOMAIN body'[j] : i \in DOMAIN body[j] \/ i = Len(body[j]) + 1
          /\ DOMAIN body[j] \subseteq DOMAIN body'[j] /\ Len(body[j]) + 1 \in DOMAIN body'[j]
      <3>1. /\ body'[j] \in Seq(Nat \X Nat) /\ DOMAIN body'[j] = 1 .. Len(body[j]) + 1
            /\ \A i \in DOMAIN body[j] : body'[j][i] = body[j][i]
            /\ body'[j][Len(body[j]) + 1] = chunk
        <4> HIDE DEF chunk
        <4>1. QED
          BY <1>4, <2>1, <2>2, AppendIs
      <3>2. /\ \A i \in 1 .. Len(body[j]) + 1 : i \in 1 .. Len(body[j]) \/ i = Len(body[j]) + 1
            /\ 1 .. Len(body[j]) \subseteq 1 .. Len(body[j]) + 1 /\ Len(body[j]) + 1 \in 1 .. Len(body[j]) + 1
        BY <2>2
      <3>3. QED
        BY <2>2, <3>1, <3>2, Zenon
    <2>10. /\ \A i \in DOMAIN body[j] : body[j][i] \in Chunks(j)
           /\ \A i, k \in DOMAIN body[j] : k < i => Before(body[j][k], body[j][i])
      BY <1>5 DEF Spoken, Voiced
    <2>4. \A i \in DOMAIN body'[j] : body'[j][i] \in Chunks(j)'
      <3> SUFFICES ASSUME NEW i \in DOMAIN body'[j] PROVE body'[j][i] \in Chunks(j)'
        OBVIOUS
      <3>1. CASE i \in DOMAIN body[j]
        BY <1>4, <2>3, <2>10, <3>1, Zenon
      <3>2. CASE i = Len(body[j]) + 1
        BY <1>4, <2>3, <3>2
      <3>3. QED
        BY <2>3, <3>1, <3>2, Zenon
    <2>5. \A i, k \in DOMAIN body'[j] : k < i => Before(body'[j][k], body'[j][i])
      <3> SUFFICES ASSUME NEW i \in DOMAIN body'[j], NEW k \in DOMAIN body'[j], k < i
                   PROVE  Before(body'[j][k], body'[j][i])
        OBVIOUS
      <3>5. k \in 1 .. Len(body[j]) + 1 /\ i \in 1 .. Len(body[j]) + 1
        BY <2>3, Zenon
      <3>6. k \in DOMAIN body[j]
        BY <2>2, <3>5
      <3>1. k \in DOMAIN body[j] /\ body'[j][k] = body[j][k] /\ body[j][k] \in Chunks(j)
        BY <2>3, <2>10, <3>6, Zenon
      <3>2. CASE i = Len(body[j]) + 1
        BY <1>4, <2>3, <3>1, <3>2
      <3>3. CASE i # Len(body[j]) + 1
        <4>1. i \in DOMAIN body[j] /\ body'[j][i] = body[j][i]
          BY <2>3, <3>3, Zenon
        <4>2. QED
          BY <2>10, <3>1, <4>1, Zenon
      <3>4. QED
        BY <3>2, <3>3
    <2>6. AllWritten(j)'
      <3>1. ASSUME NEW a \in Chunks(j)' PROVE \E k \in DOMAIN body'[j] : body'[j][k] = a
        <4>1. CASE a = chunk
          BY <2>3, <4>1, Zenon
        <4>2. CASE a \in Chunks(j)
          <5>1. PICK k \in DOMAIN body[j] : body[j][k] = a
            BY <1>5, <4>2 DEF AllWritten
          <5>2. QED
            BY <2>3, <5>1, Zenon
        <4>3. QED
          BY <1>4, <4>1, <4>2
      <3>2. QED
        BY <3>1 DEF AllWritten
    <2>7. Voiced(j)'
      BY <1>4, <1>7, <2>1, <2>3, <2>4, <2>5, <2>6 DEF Voiced
    <2>8. \A i \in Jobs \ {j} : Same(i)
      BY <1>1, <1>4, <1>7, <1>8 DEF Same
    <2>9. QED
      BY <1>4, <1>9, <2>7, <2>8, ToldOne DEF Spoken
  <1>12. QED
    BY <1>10, <1>11

LEMMA SourceEndsTold == ASSUME Good, Told, NEW j \in Jobs, SourceEnds(j) PROVE Told'
  <1> DEFINE q == [queue[j] EXCEPT !.stage = "idle", !.completed = @ + 1]
  <1>1. queue[j].stage = "reading" /\ UNCHANGED <<committed, emitted, body>>
    BY DEF SourceEnds
  <1>2. ~job[j].terminal
    BY <1>1 DEF Good, Over
  <1>3. /\ q \in Queues /\ q.closed = queue[j].closed /\ q.current = queue[j].current /\ q.pending = queue[j].pending
        /\ q.stage = "idle" /\ q.completed = queue[j].completed + 1
    <2>1. queue[j] \in Queues
      BY <1>2, Living
    <2>2. queue[j].completed + 1 \in Nat
      BY <2>1 DEF Queues
    <2>3. QED
      BY <2>1, <2>2 DEF Queues, Stages
  <1>4. InLine(q, committed[j])
    <2>1. InLine(queue[j], committed[j]) /\ queue[j].completed \in Nat /\ queue[j].current \in Nat
      BY <1>2, Living, QueueParts
    <2>2. queue[j].completed + 1 = queue[j].current
      BY <1>1, <2>1 DEF InLine
    <2> HIDE DEF q
    <2>3. q.completed + 0 = q.current
      BY <1>3, <2>1, <2>2
    <2>4. QED
      BY <1>3, <2>1, <2>3 DEF InLine
  <1>5. CASE Drained(q)
    <2>1. Completes(j, q)
      BY <1>5 DEF SourceEnds
    <2> HIDE DEF q
    <2>2. q.closed /\ q.completed = committed[j] /\ AllWritten(j)
      BY <1>1, <1>2, <1>3, <1>4, <1>5, DrainedIs, Living
    <2>3. QED
      BY <1>1, <1>2, <1>3, <2>1, <2>2, OverTold
  <1>6. CASE ~Drained(q)
    <2>1. /\ queue' = [queue EXCEPT ![j] = Stepped(q)] /\ response' = response
          /\ Publish(j, IF q.pending = <<>> THEN job[j].status ELSE "generating")
      BY <1>6 DEF SourceEnds
    <2>7. job[j].status \in Statuses /\ "generating" \in Statuses
      BY DEF Good, Typed, Runs, Statuses
    <2>2. PICK status \in Statuses : status # "completed" /\ Publish(j, status)
      BY <1>2, <2>1, <2>7, Living
    <2>8. /\ job' \in [Jobs -> Runs] /\ job'[j].terminal = job[j].terminal
          /\ \A i \in Jobs \ {j} : job'[i] = job[i]
      BY <2>2, PublishTyped
    <2>9. job'[j].status = status
      <3>1. job' = [job EXCEPT ![j] = [job[j] EXCEPT !.status = status]]
        BY <2>2 DEF Publish
      <3>2. QED
        BY <3>1 DEF Good, Typed, Runs
    <2>3. /\ job' \in [Jobs -> Runs] /\ job'[j].terminal = job[j].terminal /\ job'[j].status = status
          /\ \A i \in Jobs \ {j} : job'[i] = job[i]
      BY <2>8, <2>9
    <2> HIDE DEF q
    <2>4. /\ InLine(Stepped(q), committed[j]) /\ Stepped(q) \in Queues
          /\ Stepped(q).current >= queue[j].current
          /\ Stepped(q).stage = "idle" => Stepped(q).pending = <<>>
          /\ Stepped(q).stage # "parked"
      BY <1>2, <1>3, <1>4, Living, SteppedInLine
    <2>5. response' = [response EXCEPT ![j] = response[j]]
      BY <2>1 DEF Good, Typed
    <2>6. QED
      BY <1>1, <1>2, <2>1, <2>2, <2>3, <2>4, <2>5, Living, QueueTold
  <1>7. QED
    BY <1>5, <1>6

LEMMA ClaimTold == ASSUME Good, Told, NEW j \in Jobs, Claim(j) PROVE Told'
  <1>1. /\ response[j] = "none" /\ Claimable(j) /\ UNCHANGED <<committed, emitted>>
        /\ Spoken(j) /\ body[j] = <<>>
    BY DEF Claim, Requested, Told, Spoken, Voiced
  <1>2. CASE queue[j].stage = "parked"
    <2> DEFINE chunk == <<queue[j].current, emitted[j][queue[j].current]>>
    <2>1. ~job[j].terminal
      BY <1>2 DEF Good, Over
    <2>2. PICK stage \in {"reading", "draining"} : queue' = [queue EXCEPT ![j] = [queue[j] EXCEPT !.stage = stage]]
      BY <1>2 DEF Claim
    <2>3. /\ queue'[j].stage = stage /\ queue'[j].current = queue[j].current /\ queue'[j].pending = queue[j].pending
          /\ queue'[j].completed = queue[j].completed /\ queue'[j].closed = queue[j].closed
          /\ \A i \in Jobs \ {j} : queue'[i] = queue[i]
      BY <2>2 DEF Good, Typed, Queues
    <2>4. /\ ~job'[j].terminal /\ job'[j].status = "streaming" /\ response'[j] = "flowing"
          /\ body'[j] = Append(<<>>, chunk)
          /\ \A i \in Jobs \ {j} : job'[i] = job[i] /\ response'[i] = response[i] /\ body'[i] = body[i]
      <3>1. /\ job' = [job EXCEPT ![j] = [job[j] EXCEPT !.claimed = TRUE, !.status = "streaming"]]
            /\ response' = [response EXCEPT ![j] = "flowing"] /\ body' = [body EXCEPT ![j] = Append(body[j], chunk)]
        BY <1>2 DEF Claim
      <3>2. job'[j].terminal = job[j].terminal /\ job'[j].status = "streaming" /\ \A i \in Jobs \ {j} : job'[i] = job[i]
        BY <3>1 DEF Good, Typed, Runs
      <3>3. QED
        BY <1>1, <2>1, <3>1, <3>2 DEF Good, Typed
    <2>5. Chunks(j)' = Chunks(j) /\ Chunks(j) = {chunk}
      BY <1>1, <1>2 DEF Chunks, Spoken, Voiced
    <2>6. chunk \in Nat \X Nat
      <3>1. queue[j].current \in 1 .. UtteranceCount[j] /\ UtteranceCount[j] \in Nat
        BY <1>2, <2>1, WorkedOn, MuteTyped
      <3>2. emitted[j][queue[j].current] \in Nat
        BY <1>1, <3>1 DEF Spoken, Voiced
      <3>3. QED
        BY <3>1, <3>2
    <2> HIDE DEF chunk
    <2>7. body'[j] \in Seq(Nat \X Nat) /\ DOMAIN body'[j] = {1} /\ body'[j][1] = chunk /\ body'[j] # <<>>
      <3>1. /\ Append(<<>>, chunk) \in Seq(Nat \X Nat) /\ Len(Append(<<>>, chunk)) = 1
            /\ Append(<<>>, chunk)[1] = chunk
        BY <2>6
      <3>2. DOMAIN Append(<<>>, chunk) = 1 .. 1 /\ 1 .. 1 = {1} /\ Append(<<>>, chunk) # <<>>
        BY <3>1
      <3>3. QED
        BY <2>4, <3>1, <3>2
    <2>8. AllWritten(j)'
      BY <2>5, <2>7 DEF AllWritten
    <2>9. Taken(j)' /\ Concluded(j)'
      <3>1. InLine(queue'[j], committed[j])
        BY <1>2, <2>1, <2>3, Living DEF InLine
      <3>2. QED
        BY <1>1, <2>1, <2>3, <2>4, <3>1 DEF Spoken, Taken, Concluded
    <2>10. Voiced(j)'
      BY <1>1, <2>3, <2>4, <2>5, <2>7, <2>8 DEF Spoken, Voiced
    <2>11. \A i \in Jobs \ {j} : Same(i)
      BY <1>1, <2>3, <2>4 DEF Same
    <2>12. QED
      BY <1>1, <2>9, <2>10, <2>11, ToldOne DEF Told, Spoken
  <1>3. CASE queue[j].stage # "parked"
    <2>1. UNCHANGED <<queue, body>>
      BY <1>3 DEF Claim
    <2>2. /\ job'[j].status = job[j].status /\ job'[j].terminal = job[j].terminal
          /\ \A i \in Jobs \ {j} : job'[i] = job[i]
      BY <1>3 DEF Claim, Good, Typed, Runs
    <2>3. /\ response'[j] = (IF job[j].terminal THEN "empty" ELSE "waiting")
          /\ \A i \in Jobs \ {j} : response'[i] = response[i]
      BY <1>3 DEF Claim, Good, Typed
    <2>4. Chunks(j)' = Chunks(j) /\ (AllWritten(j)' <=> AllWritten(j))
      BY <1>1, <2>1 DEF Chunks, AllWritten
    <2>5. Taken(j)'
      BY <1>1, <2>1, <2>2 DEF Spoken, Taken
    <2>6. Voiced(j)'
      BY <1>1, <1>3, <2>1, <2>2, <2>3, <2>4 DEF Spoken, Voiced
    <2>7. Concluded(j)'
      BY <1>1, <2>1, <2>2, <2>3, <2>4 DEF Spoken, Concluded
    <2>8. \A i \in Jobs \ {j} : Same(i)
      BY <1>1, <2>1, <2>2, <2>3 DEF Same
    <2>9. QED
      BY <1>1, <2>5, <2>6, <2>7, <2>8, ToldOne DEF Told, Spoken
  <1>4. QED
    BY <1>2, <1>3

\* The job is announced with its prompt, and dropped with it.
LEMMA PromptTold == ASSUME Good, Told, NEW j \in Jobs, StartPrompt(j) \/ PromptFails(j) PROVE Told'
  <1>1. UNCHANGED <<committed, emitted, body>> /\ Spoken(j)
    BY DEF StartPrompt, PromptFails, Told
  <1>2. CASE StartPrompt(j)
    <2>1. ~job[j].terminal
      BY <1>2 DEF StartPrompt, Good, Over
    <2>2. UNCHANGED <<queue, response>> /\ job' = [job EXCEPT ![j] = [job[j] EXCEPT !.status = "waiting_for_text"]]
      BY <1>2 DEF StartPrompt
    <2>3. /\ job'[j].status = "waiting_for_text" /\ ~job'[j].terminal /\ \A i \in Jobs \ {j} : job'[i] = job[i]
      BY <2>1, <2>2 DEF Good, Typed, Runs
    <2>4. queue[j].current >= queue[j].current
      BY <2>1, Living DEF Queues
    <2>5. Spoken(j)'
      BY <1>1, <2>1, <2>2, <2>3, <2>4, Living, LiveSpoken
    <2>6. QED
      BY <1>1, <2>2, <2>3, <2>5, ToldOne DEF Told, Same
  <1>3. CASE PromptFails(j) /\ job[j].terminal
    <2>1. UNCHANGED <<job, queue, response>>
      BY <1>3 DEF PromptFails
    <2>2. QED
      BY <1>1, <2>1, ToldSame
  <1>4. CASE PromptFails(j) /\ ~job[j].terminal
    <2>1. /\ job' = [job EXCEPT ![j] = [job[j] EXCEPT !.status = "dropped", !.terminal = TRUE]]
          /\ queue' = [queue EXCEPT ![j] = Settled(queue[j])]
          /\ response' = [response EXCEPT ![j] = AppliedFail(response[j])]
      BY <1>4 DEF PromptFails
    <2>2. /\ job'[j].status = "dropped" /\ job'[j].terminal = TRUE /\ queue'[j] = Settled(queue[j])
          /\ response'[j] = AppliedFail(response[j])
          /\ \A i \in Jobs \ {j} : job'[i] = job[i] /\ queue'[i] = queue[i] /\ response'[i] = response[i]
      BY <2>1 DEF Good, Typed, Runs
    <2>3. AppliedFail(response[j]) \in {"none", "waiting", "empty"} => body[j] = <<>>
      BY <1>4, Living DEF AppliedFail
    <2>4. committed[j] \in committed[j] .. UtteranceCount[j]
      BY <1>4, Living
    <2>5. Spoken(j)'
      BY <1>1, <1>4, <2>2, <2>3, <2>4, Living, EndSpoken
    <2>6. QED
      BY <1>1, <2>2, <2>5, ToldOne DEF Told, Same
  <1>5. QED
    BY <1>2, <1>3, <1>4

LEMMA OutsideTold ==
    ASSUME Good, Told, NEW j \in Jobs,
           SourceFails(j) \/ SessionCancels(j) \/ TimesOut(j) \/ CancelArrives(j) \/ BrowserCloses(j)
    PROVE  Told'
  <1>1. UNCHANGED <<committed, emitted, body>>
    BY DEF SourceFails, SessionCancels, TimesOut, CancelArrives, BrowserCloses
  <1>2. CASE CancelArrives(j) /\ ~Active(j)
    <2>1. UNCHANGED <<job, queue, response>>
      BY <1>2 DEF CancelArrives
    <2>2. QED
      BY <1>1, <2>1, ToldSame
  <1>3. CASE ~(CancelArrives(j) /\ ~Active(j))
    <2>1. ~job[j].terminal
      BY <1>3 DEF SourceFails, SessionCancels, TimesOut, CancelArrives, BrowserCloses, Active, Good, Over
    <2>2. Fails(j) \/ Cancels(j) \/ Ends(j, queue[j], "cancelled", "gone")
      BY <1>3 DEF SourceFails, SessionCancels, TimesOut, CancelArrives, BrowserCloses
    <2>3. QED
      BY <1>1, <2>1, <2>2, OverTold
  <1>4. QED
    BY <1>2, <1>3

LEMMA ToldStep == ASSUME Good, Begun, Told, [Next]_vars PROVE Told'
  <1>1. ASSUME NEW j \in Jobs,
               \/ AskPrompt(j) \/ RefusePrompt(j) \/ PromptReturns(j) \/ RefuseClaim(j)
               \/ PageStep \/ UserStops \/ UNCHANGED vars
        PROVE  UNCHANGED <<job, queue, committed, emitted, response, body>>
    BY <1>1 DEF AskPrompt, RefusePrompt, PromptReturns, RefuseClaim, PageStep, UserStops, vars, server,
                ReceiveJob, ReceiveResult, StreamOpens, NothingToSay, StreamRefused, Hear, BodyEnds, BodyBreaks, Played
  <1>2. CASE PageStep \/ UserStops \/ UNCHANGED vars
    <2>1. UNCHANGED <<job, queue, committed, emitted, response, body>>
      BY <1>2 DEF PageStep, UserStops, vars, server,
                  ReceiveJob, ReceiveResult, StreamOpens, NothingToSay, StreamRefused, Hear, BodyEnds, BodyBreaks, Played
    <2>2. QED
      BY <2>1, ToldSame
  <1>3. ASSUME NEW j \in Jobs, AskPrompt(j) \/ RefusePrompt(j) \/ PromptReturns(j) \/ RefuseClaim(j) PROVE Told'
    BY <1>1, <1>3, ToldSame
  <1>4. ASSUME NEW j \in Jobs, Commit(j) \/ FinishTurn(j) PROVE Told'
    BY <1>4, EnqueuesTold, FinishTold DEF Commit, Speaking
  <1>5. ASSUME NEW j \in Jobs, SourceStep(j) PROVE Told'
    BY <1>5, OpensTold, ChunkTold, SourceEndsTold DEF SourceStep
  <1>6. QED
    BY <1>2, <1>3, <1>4, <1>5, ClaimTold, PromptTold, OutsideTold DEF Next, AnswerStep, ServerStep

LEMMA AlwaysTold == Spec => []Told
  <1>1. Init => Told
    BY SpokenInit DEF Told
  <1>2. QED
    BY <1>1, AlwaysGood, ToldStep, PTL DEF Spec

(***************************************************************************)
(* The response carries the chunks of the utterances in their order: none  *)
(* twice, and none left out before one that is there.                      *)
(***************************************************************************)
THEOREM ChunksInOrder == Spec => []InOrder
  <1>1. Told => InOrder
    <2> SUFFICES ASSUME Told, NEW j \in Jobs
                 PROVE  /\ \A i \in DOMAIN body[j] : \A k \in 1 .. i - 1 : Before(body[j][k], body[j][i])
                        /\ \A i \in DOMAIN body[j] : \A a \in Chunks(j) :
                              Before(a, body[j][i]) => \E k \in DOMAIN body[j] : body[j][k] = a
      BY DEF InOrder
    <2>1. Voiced(j) /\ body[j] \in Seq(Nat \X Nat)
      BY DEF Told, Spoken, Voiced
    <2>2. ASSUME NEW i \in DOMAIN body[j], NEW k \in 1 .. i - 1 PROVE Before(body[j][k], body[j][i])
      <3>1. k \in DOMAIN body[j] /\ k < i
        <4>1. DOMAIN body[j] = 1 .. Len(body[j]) /\ Len(body[j]) \in Nat
          BY <2>1, DomainIs
        <4>2. QED
          BY <2>2, <4>1
      <3>2. QED
        BY <2>1, <3>1 DEF Voiced
    <2>3. ASSUME NEW i \in DOMAIN body[j] PROVE AllWritten(j)
      <3>1. body[j] # <<>>
        BY <2>1, <2>3
      <3>2. QED
        BY <2>1, <3>1 DEF Voiced
    <2>4. QED
      BY <2>2, <2>3 DEF AllWritten
  <1>2. QED
    BY <1>1, AlwaysTold, PTL

(***************************************************************************)
(* A completed job has spoken: its answer was over, every utterance was    *)
(* synthesized, and every chunk went to a response that ended cleanly.     *)
(***************************************************************************)
THEOREM CompletedHasSpoken == Spec => []CompletedIsWhole
  <1>1. Told => CompletedIsWhole
    BY DEF Told, Spoken, Concluded, AllWritten, CompletedIsWhole
  <1>2. QED
    BY <1>1, AlwaysTold, PTL

-----------------------------------------------------------------------------
(***************************************************************************)
(* The types.  The last job bound to the controller is one of the jobs.    *)
(***************************************************************************)
BoundTyped == bound \in Jobs \cup {None}

LEMMA BoundStep == ASSUME Begun, BoundTyped, [Next]_vars PROVE BoundTyped'
  <1> USE DEF BoundTyped
  <1>1. CASE ReceiveJob
    <2>1. events # <<>> /\ events \in Seq(Events)
      BY <1>1 DEF ReceiveJob, HeadIs, Begun
    <2>2. Head(events) \in Events
      BY <2>1
    <2>3. bound' = bound \/ bound' = Head(events).job
      BY <1>1 DEF ReceiveJob
    <2>4. QED
      BY <2>2, <2>3 DEF Events
  <1>2. CASE ~ReceiveJob
    <2>1. ASSUME NEW j \in Jobs,
                 \/ AskPrompt(j) \/ AnswerStep(j) \/ SourceStep(j) \/ SourceFails(j) \/ ServerStep(j)
                 \/ SessionCancels(j) \/ TimesOut(j)
          PROVE  bound' = bound
      BY <2>1 DEF AskPrompt, AnswerStep, SourceStep, SourceFails, ServerStep, SessionCancels, TimesOut,
                  Commit, FinishTurn, PromptReturns, PromptFails, Enqueues, SourceOpens, SourceChunk, SourceEnds,
                  ResponseDrains, RefusePrompt, StartPrompt, Claim, RefuseClaim, CancelArrives, BrowserCloses, client
    <2>2. CASE PageStep \/ UserStops \/ UNCHANGED vars
      BY <1>2, <2>2 DEF PageStep, UserStops, vars, ReceiveResult, StreamOpens, NothingToSay, StreamRefused, Hear,
                        BodyEnds, BodyBreaks, Played
    <2>3. QED
      BY <2>1, <2>2 DEF Next
  <1>3. QED
    BY <1>1, <1>2

(***************************************************************************)
(* Every variable keeps its type, and what waits in a queue follows the    *)
(* utterance that is worked on without a gap, up to what was committed.    *)
(***************************************************************************)
THEOREM SpeechTypeCorrect == Spec => []TypeOK
  <1>1. Init => BoundTyped
    BY DEF Init, BoundTyped
  <1>2. Good /\ Begun /\ Told /\ BoundTyped => TypeOK
    <2> SUFFICES ASSUME Good, Begun, Told, BoundTyped PROVE TypeOK
      OBVIOUS
    <2>1. ASSUME NEW j \in Jobs
          PROVE  /\ queue[j].stage \in {"idle", "opening", "reading", "parked", "draining"}
                 /\ queue[j].closed \in BOOLEAN
                 /\ queue[j].current + Len(queue[j].pending) <= committed[j]
                 /\ \A i \in DOMAIN queue[j].pending : queue[j].pending[i] = queue[j].current + i
                 /\ committed[j] <= UtteranceCount[j]
      <3>1. queue[j] \in Queues /\ Taken(j) /\ UtteranceCount[j] \in Nat
        BY MuteTyped DEF Good, Typed, Told, Spoken
      <3>2. DOMAIN queue[j].pending = 1 .. Len(queue[j].pending)
        BY <3>1 DEF Queues
      <3>3. QED
        BY <3>1, <3>2 DEF Taken, Queues, Stages
    <2>2. page.state \in {"idle", "waiting", "streaming", "draining", "ended", "stopped", "error"}
          /\ page.stream \in {"none", "opening", "refused", "reading", "broken"} /\ page.job \in Jobs \cup {None}
      BY DEF Begun, Pages
    <2>3. QED
      BY <2>1, <2>2 DEF TypeOK, Good, Typed, Runs, BoundTyped
  <1>3. QED
    BY <1>1, <1>2, BoundStep, AlwaysGood, AlwaysTold, PTL DEF Spec

-----------------------------------------------------------------------------
(***************************************************************************)
(* What the page has heard.  Until its stream is open it has heard nothing,*)
(* and the end of the body comes after all of it.                          *)
(***************************************************************************)
Listening ==
    /\ page.stream # "none" => page.job \in Jobs
    /\ page.stream \in {"none", "opening", "refused"} => page.heard = 0 /\ ~page.eof
    /\ page.state = "waiting" => page.stream \in {"opening", "refused", "reading"}
    /\ page.eof => response[page.job] = "ended" /\ page.heard = Len(body[page.job])

HeardNow ==
    page.job # None /\ page'.job = None /\ page'.state = "ended" /\ job[page.job].status = "completed" =>
        page.heard = Len(body[page.job])

Hears == Listening' /\ HeardNow

\* A response that has ended stays as it is.
LEMMA EndedStays ==
    ASSUME Good, Begun, Told, [Next]_vars, NEW i \in Jobs, response[i] = "ended"
    PROVE  response'[i] = "ended" /\ body'[i] = body[i]
  <1>1. job[i].terminal
    BY DEF Told, Spoken, Concluded
  <1>2. body'[i] = body[i]
    BY <1>1, GoodStep DEF Kept, Silent
  <1>3. ASSUME NEW j \in Jobs, ~job[j].terminal, NEW q, NEW status, NEW r, Ends(j, q, status, r) PROVE response'[i] = "ended"
    BY <1>1, <1>3 DEF Ends, Good, Typed
  <1>4. ASSUME NEW j \in Jobs, Commit(j) \/ FinishTurn(j) PROVE response'[i] = "ended"
    <2>1. ~job[j].terminal
      BY <1>4 DEF Commit, FinishTurn, Speaking
    <2>2. response' = response \/ \E q, status, r : Ends(j, q, status, r)
      BY <1>4 DEF Commit, FinishTurn, Enqueues, Fails, Completes
    <2>3. QED
      BY <1>3, <2>1, <2>2
  <1>5. ASSUME NEW j \in Jobs, SourceStep(j) PROVE response'[i] = "ended"
    <2>1. CASE SourceOpens(j) \/ ResponseDrains(j)
      BY <2>1 DEF SourceOpens, ResponseDrains
    <2>2. CASE SourceChunk(j) \/ SourceEnds(j)
      <3>1. ~job[j].terminal
        BY <2>2 DEF SourceChunk, SourceEnds, Good, Over
      <3>2. \/ response' = response \/ response' = [response EXCEPT ![j] = "flowing"]
            \/ \E q, status, r : Ends(j, q, status, r)
        BY <2>2 DEF SourceChunk, SourceEnds, Writes, Completes
      <3>3. QED
        BY <1>1, <1>3, <3>1, <3>2 DEF Good, Typed
    <2>3. QED
      BY <1>5, <2>1, <2>2 DEF SourceStep
  <1>6. ASSUME NEW j \in Jobs, Claim(j) PROVE response'[i] = "ended"
    BY <1>6 DEF Claim, Requested, Good, Typed
  <1>7. ASSUME NEW j \in Jobs, PromptFails(j) PROVE response'[i] = "ended"
    BY <1>1, <1>7 DEF PromptFails, Good, Typed
  <1>8. ASSUME NEW j \in Jobs,
               SourceFails(j) \/ SessionCancels(j) \/ TimesOut(j) \/ CancelArrives(j) \/ BrowserCloses(j)
        PROVE  response'[i] = "ended"
    <2>1. response' = response \/ (~job[j].terminal /\ \E q, status, r : Ends(j, q, status, r))
      BY <1>8 DEF SourceFails, SessionCancels, TimesOut, CancelArrives, BrowserCloses, Active, Fails, Cancels, Good, Over
    <2>2. QED
      BY <1>3, <2>1
  <1>9. ASSUME NEW j \in Jobs,
               AskPrompt(j) \/ RefusePrompt(j) \/ PromptReturns(j) \/ RefuseClaim(j) \/ StartPrompt(j)
        PROVE  response'[i] = "ended"
    BY <1>9 DEF AskPrompt, RefusePrompt, PromptReturns, RefuseClaim, StartPrompt, server
  <1>10. CASE PageStep \/ UserStops \/ UNCHANGED vars
    BY <1>10 DEF PageStep, UserStops, vars, server,
                 ReceiveJob, ReceiveResult, StreamOpens, NothingToSay, StreamRefused, Hear, BodyEnds, BodyBreaks, Played
  <1>11. QED
    BY <1>2, <1>4, <1>5, <1>6, <1>7, <1>8, <1>9, <1>10 DEF Next, AnswerStep, ServerStep

\* The page lets go of its job: unless it calls it ended, nothing is claimed.
LEMMA LeaveHears ==
    ASSUME NEW state \in {"ended", "stopped", "error"}, Leave(state),
           state = "ended" /\ page.job # None => page.heard = Len(body[page.job])
    PROVE  Hears
  <1>1. page' = [NoPage EXCEPT !.state = state]
    BY DEF Leave
  <1>2. page'.state = state /\ page'.stream = "none" /\ page'.heard = 0 /\ page'.eof = FALSE
    BY <1>1 DEF NoPage
  <1>3. QED
    BY <1>2 DEF Hears, Listening, HeardNow

LEMMA FailHears ==
    ASSUME Begun, Listening, UNCHANGED <<response, body>>, NEW stream, PageFails(stream),
           \/ stream = page.stream \/ (stream = "broken" /\ page.stream = "reading")
           \/ (stream = "none" /\ page.stream \in {"opening", "refused"})
    PROVE  Hears
  <1>1. CASE Leave("error")
    BY <1>1, LeaveHears
  <1>2. CASE page' = [page EXCEPT !.stream = stream] /\ Terminal(page.state)
    <2>1. /\ page'.stream = stream /\ page'.job = page.job /\ page'.state = page.state /\ page'.heard = page.heard
          /\ page'.eof = page.eof /\ page.state # "waiting"
      BY <1>2 DEF Begun, Pages, Terminal
    <2>2. QED
      BY <2>1 DEF Hears, Listening, HeardNow
  <1>3. QED
    BY <1>1, <1>2 DEF PageFails

\* The stream of a job that has just been bound, or of the one at hand.
LEMMA EnsuredHears ==
    ASSUME NEW p \in Pages, p.job \in Jobs, page' = Ensured(p), UNCHANGED <<response, body>>,
           p.stream \in {"none", "opening", "refused"} => p.heard = 0 /\ ~p.eof,
           p.state = "waiting" /\ p.stream # "none" => p.stream \in {"opening", "refused", "reading"},
           p.eof => response[p.job] = "ended" /\ p.heard = Len(body[p.job])
    PROVE  Hears
  <1>1. None \notin Jobs
    BY DEF LiveSpeechAssumption, Jobs
  <1>2. CASE p.stream # "none"
    <2>1. page' = p
      BY <1>2 DEF Ensured
    <2>2. QED
      BY <1>1, <1>2, <2>1 DEF Hears, Listening, HeardNow
  <1>3. CASE p.stream = "none"
    <2>1. PICK state \in {"waiting", p.state} : page' = [p EXCEPT !.stream = "opening", !.state = state]
      BY <1>3 DEF Ensured
    <2>2. page'.job = p.job /\ page'.stream = "opening" /\ page'.heard = p.heard /\ page'.eof = p.eof
      BY <2>1 DEF Pages
    <2>3. QED
      BY <1>1, <1>3, <2>2 DEF Hears, Listening, HeardNow
  <1>4. QED
    BY <1>2, <1>3

LEMMA ReceiveHears == ASSUME Begun, Listening, ReceiveJob PROVE Hears
  <1> DEFINE j == Head(events).job
  <1>1. UNCHANGED <<response, body>> /\ None \notin Jobs /\ page \in Pages
    BY DEF ReceiveJob, server, LiveSpeechAssumption, Jobs, Begun
  <1>2. j \in Jobs
    <2>1. events # <<>> /\ events \in Seq(Events)
      BY DEF ReceiveJob, HeadIs, Begun
    <2>2. Head(events) \in Events
      BY <2>1
    <2>3. QED
      BY <2>2 DEF Events
  <1>3. CASE bound # j
    <2> DEFINE p == [NoPage EXCEPT !.state = page.state, !.job = j]
    <2>1. p \in Pages /\ p.job \in Jobs /\ p.stream = "none" /\ p.heard = 0 /\ ~p.eof
      BY <1>1, <1>2 DEF NoPage, Pages
    <2>2. page' = Ensured(p)
      BY <1>3 DEF ReceiveJob
    <2> HIDE DEF p
    <2>3. QED
      BY <1>1, <2>1, <2>2, EnsuredHears
  <1>4. CASE bound = j /\ page.job = j /\ HandleJob(Head(events).status)
    <2>1. CASE PageFails(page.stream)
      BY <1>1, <2>1, FailHears
    <2>2. CASE page' = Ensured(page)
      BY <1>1, <1>2, <1>4, <2>2, EnsuredHears DEF Listening
    <2>3. CASE Completed
      <3>1. ~(page.state = "waiting" /\ page.stream = "none")
        BY DEF Listening
      <3>2. PICK state \in {"draining", page.state} : page' = [page EXCEPT !.state = state]
        BY <2>3, <3>1 DEF Completed
      <3>3. /\ page'.job = page.job /\ page'.stream = page.stream /\ page'.heard = page.heard /\ page'.eof = page.eof
            /\ page'.state \in {"draining", page.state}
        BY <1>1, <3>2 DEF Pages
      <3>4. QED
        BY <1>1, <1>2, <1>4, <3>3 DEF Hears, Listening, HeardNow
    <2>4. QED
      BY <1>4, <2>1, <2>2, <2>3 DEF HandleJob
  <1>5. CASE page' = page
    BY <1>1, <1>5 DEF Hears, Listening, HeardNow
  <1>6. QED
    BY <1>3, <1>4, <1>5 DEF ReceiveJob

\* A step that leaves the page alone: what it has heard to the end has ended.
LEMMA ElsewhereHears ==
    ASSUME Good, Begun, Told, Listening, [Next]_vars, page' = page
    PROVE  Hears
  <1>1. page.eof => page.job \in Jobs
    BY DEF Listening, Begun, Pages
  <1>2. page.eof => response'[page.job] = "ended" /\ body'[page.job] = body[page.job]
    BY <1>1, EndedStays DEF Listening
  <1>3. QED
    BY <1>2 DEF Hears, Listening, HeardNow

LEMMA HearsStep == ASSUME Good, Begun, Told, Listening, [Next]_vars PROVE Hears
  <1>1. page \in Pages /\ None \notin Jobs
    BY DEF Begun, LiveSpeechAssumption, Jobs
  <1>2. ASSUME StopPlayback PROVE page' = page \/ Hears
    BY <1>2, LeaveHears DEF StopPlayback
  <1>3. ASSUME NEW j \in Jobs, AskPrompt(j) PROVE Hears
    BY <1>2, <1>3, ElsewhereHears DEF AskPrompt
  <1>15. CASE UserStops
    BY <1>2, <1>15, ElsewhereHears DEF UserStops
  <1>4. ASSUME NEW j \in Jobs, RefuseClaim(j) PROVE Hears
    <2>1. UNCHANGED <<response, body>> /\ page' = [page EXCEPT !.stream = "refused"] /\ page.stream = "opening"
      BY <1>4 DEF RefuseClaim, Requested, server
    <2>2. /\ page'.stream = "refused" /\ page'.job = page.job /\ page'.state = page.state /\ page'.heard = page.heard
          /\ page'.eof = page.eof
      BY <1>1, <2>1 DEF Pages
    <2>3. QED
      BY <2>1, <2>2 DEF Hears, Listening, HeardNow
  <1>5. CASE ReceiveResult
    <2>1. UNCHANGED <<response, body>> /\ \E deaf : page' = [page EXCEPT !.deaf = deaf]
      BY <1>5 DEF ReceiveResult
    <2>2. /\ page'.stream = page.stream /\ page'.job = page.job /\ page'.state = page.state /\ page'.heard = page.heard
          /\ page'.eof = page.eof
      BY <1>1, <2>1 DEF Pages
    <2>3. QED
      BY <2>1, <2>2 DEF Hears, Listening, HeardNow
  <1>6. CASE StreamOpens
    <2>1. UNCHANGED <<response, body>> /\ page' = [page EXCEPT !.stream = "reading"] /\ page.stream = "opening"
      BY <1>6 DEF StreamOpens, server
    <2>2. /\ page'.stream = "reading" /\ page'.job = page.job /\ page'.state = page.state /\ page'.heard = page.heard
          /\ page'.eof = page.eof
      BY <1>1, <2>1 DEF Pages
    <2>3. QED
      BY <2>1, <2>2 DEF Hears, Listening, HeardNow
  <1>7. CASE NothingToSay
    <2>1. Leave("ended") /\ page.stream = "opening" /\ response[page.job] = "empty"
      BY <1>7 DEF NothingToSay
    <2>2. page.job \in Jobs /\ page.heard = 0
      BY <2>1 DEF Listening
    <2>3. body[page.job] = <<>>
      BY <2>1, <2>2 DEF Told, Spoken, Voiced
    <2>4. page.heard = Len(body[page.job])
      BY <2>2, <2>3
    <2>5. QED
      BY <2>1, <2>4, LeaveHears
  <1>8. CASE StreamRefused \/ BodyBreaks
    BY <1>8, FailHears DEF StreamRefused, BodyBreaks, server
  <1>9. CASE Hear
    <2>1. UNCHANGED <<response, body>> /\ page.stream = "reading" /\ ~page.eof
      BY <1>9 DEF Hear, server
    <2>2. PICK state \in {"streaming", page.state} : page' = [page EXCEPT !.heard = page.heard + 1, !.state = state]
      BY <1>9 DEF Hear
    <2>3. /\ page'.stream = page.stream /\ page'.job = page.job /\ page'.eof = page.eof
      BY <1>1, <2>2 DEF Pages
    <2>4. QED
      BY <2>1, <2>3 DEF Hears, Listening, HeardNow
  <1>10. CASE BodyEnds
    <2>1. /\ UNCHANGED <<response, body>> /\ page.stream = "reading"
          /\ response[page.job] = "ended" /\ page.heard = Len(body[page.job])
      BY <1>10 DEF BodyEnds, server
    <2>2. PICK state \in {"draining", page.state} : page' = [page EXCEPT !.eof = TRUE, !.state = state]
      BY <1>10 DEF BodyEnds
    <2>3. /\ page'.stream = page.stream /\ page'.job = page.job /\ page'.heard = page.heard
      BY <1>1, <2>2 DEF Pages
    <2>4. QED
      BY <2>1, <2>3 DEF Hears, Listening, HeardNow
  <1>11. CASE Played
    BY <1>11, LeaveHears DEF Played, Listening
  <1>12. ASSUME NEW j \in Jobs,
                \/ AnswerStep(j) \/ SourceStep(j) \/ SourceFails(j) \/ (ServerStep(j) /\ ~RefuseClaim(j))
                \/ SessionCancels(j) \/ TimesOut(j)
         PROVE  page' = page
    BY <1>12 DEF AnswerStep, SourceStep, SourceFails, ServerStep, SessionCancels, TimesOut,
                 Commit, FinishTurn, PromptReturns, PromptFails, Enqueues, SourceOpens, SourceChunk, SourceEnds,
                 ResponseDrains, RefusePrompt, StartPrompt, Claim, CancelArrives, BrowserCloses, client
  <1>13. CASE UNCHANGED vars
    BY <1>13, ElsewhereHears DEF vars
  <1>14. QED
    BY <1>3, <1>4, <1>5, <1>6, <1>7, <1>8, <1>9, <1>10, <1>11, <1>12, <1>13, <1>15,
       ReceiveHears, ElsewhereHears
       DEF Next, PageStep

(***************************************************************************)
(* When the page calls the playback of a completed job ended, it has played*)
(* all of it, also when the job completed before the stream had opened.    *)
(***************************************************************************)
THEOREM EndedWasHeard == Spec => EndedIsHeard
  <1>1. Init => Listening
    <2> SUFFICES ASSUME Init PROVE Listening
      OBVIOUS
    <2>1. page.stream = "none" /\ page.heard = 0 /\ page.eof = FALSE /\ page.state \in {"idle", "ended"}
      <3>1. page \in {NoPage, [NoPage EXCEPT !.state = "ended"]}
        BY DEF Init
      <3>2. QED
        BY <3>1 DEF NoPage
    <2>2. QED
      BY <2>1 DEF Listening
  <1>2. Good /\ Begun /\ Told /\ Listening /\ [Next]_vars => Listening' /\
          [page.job # None /\ page'.job = None /\ page'.state = "ended" /\ job[page.job].status = "completed" =>
               page.heard = Len(body[page.job])]_vars
    BY HearsStep DEF Hears, HeardNow
  <1>3. QED
    BY <1>1, <1>2, AlwaysGood, AlwaysTold, PTL DEF Spec, EndedIsHeard

=============================================================================
