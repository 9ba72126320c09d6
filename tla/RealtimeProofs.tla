---------------------------- MODULE RealtimeProofs ----------------------------
(***************************************************************************)
(* Theorems about one embed page and its conversation, for any number of   *)
(* turns, cancels, connections and retries.  What the page shows, and every*)
(* sequence number on its way to it, is a row of the stream that holds an  *)
(* answer; answers are shown in the order of the stream, as long as a page *)
(* load is not overtaken by one and until the reconnect button starts anew;*)
(* a turn that was cancelled says nothing more; and no answer the page was *)
(* owed is passed over, as long as no outcome overtakes the sync of its    *)
(* connection.                                                             *)
(***************************************************************************)
EXTENDS Realtime, TLAPS

USE RealtimeAssumption

Rows == [kind : {"user", "answer", "end"}, turn : Turns]

Answers == AnswersIn(0, Len(log))

Commands == [type : {"start", "cancel", "sync"}, seqs : {{}}, turn : Nat]

\* An event on its way: all it carries are answers of the stream.
Events == [type : {"accepted", "failed", "completed", "cancelled", "replay"},
           seqs : SUBSET Answers, turn : Nat \cup OtherTurns \cup {None}]

-----------------------------------------------------------------------------
(***************************************************************************)
(* The stream only grows.                                                  *)
(***************************************************************************)
LEMMA RowsInterval == \A p \in Answers : p \in 1 .. Len(log)
  BY DEF Answers, AnswersIn

LEMMA FewerAnswers ==
    ASSUME log \in Seq(Rows), NEW from \in Nat
    PROVE  AnswersIn(from, Len(log)) \subseteq Answers
  BY DEF Answers, AnswersIn

LEMMA ListedAnswers ==
    ASSUME log \in Seq(Rows), NEW from \in Nat, NEW limit
    PROVE  Listed(from, limit) \subseteq Answers
  BY FewerAnswers DEF Listed

Grows == log' = log \/ \E row \in Rows : log' = Append(log, row)

LEMMA AnswersGrow ==
    ASSUME log \in Seq(Rows), Grows
    PROVE  log' \in Seq(Rows) /\ Len(log) <= Len(log') /\ Answers \subseteq Answers'
  <1>1. CASE log' = log
    BY <1>1 DEF Answers, AnswersIn
  <1>2. ASSUME NEW row \in Rows, log' = Append(log, row)
        PROVE  log' \in Seq(Rows) /\ Len(log) <= Len(log') /\ Answers \subseteq Answers'
    <2>1. /\ log' \in Seq(Rows) /\ Len(log') = Len(log) + 1
          /\ \A p \in 1 .. Len(log) : log'[p] = log[p]
      BY <1>2
    <2>2. QED
      BY <2>1 DEF Answers, AnswersIn
  <1>3. QED
    BY <1>1, <1>2 DEF Grows

-----------------------------------------------------------------------------
(***************************************************************************)
(* The service.                                                            *)
(***************************************************************************)
TurnRecords ==
    [pc : {"idle", "sent", "checking", "opening", "prompting", "persisting", "ended"},
     conn : Conns \cup {None}, answer : Nat, stop : {"no", "stopped", "shared"}]

ServiceOK ==
    /\ log \in Seq(Rows)
    /\ running \in Turns \cup {None}
    /\ turn \in [Turns -> TurnRecords]
    /\ \A t \in Turns : turn[t].answer = 0 \/ turn[t].answer \in Answers

\* What a step may do to a turn.
TurnKept(r, s) == s \in TurnRecords /\ s.answer = r.answer

LEMMA StoppedKeeps == \A r \in TurnRecords : \A cs : TurnKept(r, Stopped(r, cs))
  BY DEF TurnKept, Stopped, TurnRecords

LEMMA ServiceKept ==
    ASSUME ServiceOK, Grows, running' \in Turns \cup {None}, turn' \in [Turns -> TurnRecords],
           \A t \in Turns : turn'[t].answer = turn[t].answer \/ turn'[t].answer \in Answers'
    PROVE  ServiceOK'
  BY AnswersGrow DEF ServiceOK

LEMMA PcKeeps ==
    ASSUME NEW r \in TurnRecords,
           NEW pc \in {"idle", "sent", "checking", "opening", "prompting", "persisting", "ended"}
    PROVE  TurnKept(r, [r EXCEPT !.pc = pc])
  BY DEF TurnKept, TurnRecords

LEMMA ConnKeeps ==
    ASSUME NEW r \in TurnRecords, NEW k \in Conns \cup {None}
    PROVE  TurnKept(r, [r EXCEPT !.conn = k])
  BY DEF TurnKept, TurnRecords

\* Replacing the record of one turn by one the step may leave there.
LEMMA TurnTyped ==
    ASSUME ServiceOK, NEW t \in Turns, NEW s, TurnKept(turn[t], s)
    PROVE  /\ [turn EXCEPT ![t] = s] \in [Turns -> TurnRecords]
           /\ \A u \in Turns : [turn EXCEPT ![t] = s][u].answer = turn[u].answer
  <1>1. turn \in [Turns -> TurnRecords] /\ s \in TurnRecords /\ s.answer = turn[t].answer
    BY DEF ServiceOK, TurnKept
  <1>2. QED
    BY <1>1

LEMMA PcTyped ==
    ASSUME ServiceOK, NEW t \in Turns,
           NEW pc \in {"idle", "sent", "checking", "opening", "prompting", "persisting", "ended"}
    PROVE  Pc(t, pc) \in [Turns -> TurnRecords] /\ \A u \in Turns : Pc(t, pc)[u].answer = turn[u].answer
  <1>1. TurnKept(turn[t], [turn[t] EXCEPT !.pc = pc])
    BY PcKeeps DEF ServiceOK
  <1>2. Pc(t, pc) = [turn EXCEPT ![t] = [turn[t] EXCEPT !.pc = pc]]
    BY DEF Pc
  <1>3. QED
    BY <1>1, <1>2, TurnTyped

\* The steps of a turn.
LEMMA TurnStepService ==
    ASSUME ServiceOK, NEW t \in Turns, TurnStep(t)
    PROVE  ServiceOK' /\ Grows
  <1>1. CASE Refuse(t) \/ Prompt(t) \/ Deny(t)
    <2>1. log' = log /\ running' = running /\ \E pc \in {"prompting", "ended"} : turn' = Pc(t, pc)
      BY <1>1 DEF Refuse, Prompt, Deny
    <2>2. QED
      BY <2>1, PcTyped, ServiceKept DEF Grows, ServiceOK
  <1>2. CASE EnterTurn(t)
    <2>1. running' = t /\ log' = Append(log, Row("user", t)) /\ turn' = Pc(t, "opening")
      BY <1>2 DEF EnterTurn
    <2>2. Grows
      BY <2>1 DEF Grows, Row, Rows
    <2>3. QED
      BY <2>1, <2>2, PcTyped, ServiceKept
  <1>3. CASE Settle(t)
    <2>1. running' = None /\ log' = Append(log, Row("end", t)) /\ turn' = Pc(t, "ended")
      BY <1>3 DEF Settle
    <2>2. Grows
      BY <2>1 DEF Grows, Row, Rows
    <2>3. QED
      BY <2>1, <2>2, PcTyped, ServiceKept
  <1>4. CASE PromptEnds(t)
    <2>1. PICK cs : \/ /\ log' = Append(log, Row("answer", t))
                       /\ turn' = [turn EXCEPT ![t] = Stopped([@ EXCEPT !.pc = "persisting", !.answer = Len(log) + 1], cs)]
                    \/ /\ log' = log
                       /\ turn' = [turn EXCEPT ![t] = Stopped([@ EXCEPT !.pc = "persisting"], cs)]
      BY <1>4 DEF PromptEnds
    <2>2. running' = running
      BY <1>4 DEF PromptEnds
    <2>3. CASE /\ log' = Append(log, Row("answer", t))
               /\ turn' = [turn EXCEPT ![t] = Stopped([@ EXCEPT !.pc = "persisting", !.answer = Len(log) + 1], cs)]
      <3>1. Grows
        BY <2>3 DEF Grows, Row, Rows
      <3>2. Len(log) + 1 \in Answers'
        BY <2>3 DEF ServiceOK, Answers, AnswersIn, Row
      <3>3. [turn[t] EXCEPT !.pc = "persisting", !.answer = Len(log) + 1] \in TurnRecords
        <4>1. turn[t] \in TurnRecords /\ Len(log) + 1 \in Nat
          BY DEF ServiceOK
        <4>2. QED
          BY <4>1 DEF TurnRecords
      <3>4. TurnKept([turn[t] EXCEPT !.pc = "persisting", !.answer = Len(log) + 1], turn'[t])
        BY <2>3, <3>3, StoppedKeeps DEF ServiceOK
      <3>5. /\ turn' \in [Turns -> TurnRecords] /\ turn'[t].answer = Len(log) + 1
            /\ \A u \in Turns : u # t => turn'[u] = turn[u]
        BY <2>3, <3>3, <3>4 DEF ServiceOK, TurnKept, TurnRecords
      <3>6. QED
        BY <2>2, <3>1, <3>2, <3>5, ServiceKept DEF ServiceOK
    <2>4. CASE /\ log' = log
               /\ turn' = [turn EXCEPT ![t] = Stopped([@ EXCEPT !.pc = "persisting"], cs)]
      <3>1. [turn[t] EXCEPT !.pc = "persisting"] \in TurnRecords
        BY DEF ServiceOK, TurnRecords
      <3>2. TurnKept([turn[t] EXCEPT !.pc = "persisting"], turn'[t])
        BY <2>4, <3>1, StoppedKeeps DEF ServiceOK
      <3>3. /\ turn' \in [Turns -> TurnRecords] /\ turn'[t].answer = turn[t].answer
            /\ \A u \in Turns : u # t => turn'[u] = turn[u]
        BY <2>4, <3>1, <3>2 DEF ServiceOK, TurnKept, TurnRecords
      <3>4. QED
        BY <2>2, <2>4, <3>3, ServiceKept DEF ServiceOK, Grows
    <2>5. QED
      BY <2>1, <2>3, <2>4
  <1>5. QED
    BY <1>1, <1>2, <1>3, <1>4 DEF TurnStep

\* The steps of the connections, the cancels and the page.
OtherStep ==
    \/ \E t \in Turns : Send(t)
    \/ \E c \in Cancels : CancelStep(c) \/ Stop(c)
    \/ \E k \in Conns : ConnStep(k) \/ Lose(k)
    \/ PageStep
    \/ UNCHANGED vars

LEMMA NextSteps == [Next]_vars <=> (\E t \in Turns : TurnStep(t)) \/ OtherStep
  BY DEF Next, OtherStep

LEMMA StartedTyped ==
    ASSUME ServiceOK, NEW u, NEW k
    PROVE  /\ Started(u, k) \in [Turns -> TurnRecords]
           /\ \A t \in Turns : Started(u, k)[t].answer = turn[t].answer
  <1>1. ASSUME NEW t \in Turns
        PROVE  LET r == IF t = u THEN [turn[t] EXCEPT !.pc = "checking"] ELSE turn[t]
                   s == IF InFlight(k) # {} /\ t \in InFlight(k) \cup {u} THEN [r EXCEPT !.stop = "shared"] ELSE r
               IN  s \in TurnRecords /\ s.answer = turn[t].answer
    BY DEF ServiceOK, TurnRecords
  <1>2. QED
    BY <1>1 DEF Started

LEMMA OtherStepService ==
    ASSUME ServiceOK, ws \in Conns \cup {None},
           OtherStep
    PROVE  ServiceOK' /\ log' = log
  <1>1. CASE UNCHANGED service
    BY <1>1, ServiceKept DEF service, ServiceOK, Grows
  <1>2. ASSUME NEW t \in Turns, Send(t) PROVE ServiceOK' /\ log' = log
    <2>1. turn' = [turn EXCEPT ![t].pc = "sent", ![t].conn = ws] /\ UNCHANGED <<log, running>>
      BY <1>2 DEF Send
    <2>2. TurnKept(turn[t], [[turn[t] EXCEPT !.pc = "sent"] EXCEPT !.conn = ws])
      <3>1. TurnKept(turn[t], [turn[t] EXCEPT !.pc = "sent"])
        BY PcKeeps DEF ServiceOK
      <3>2. QED
        BY <3>1, ConnKeeps DEF TurnKept
    <2>3. turn' = [turn EXCEPT ![t] = [[turn[t] EXCEPT !.pc = "sent"] EXCEPT !.conn = ws]]
      BY <2>1 DEF ServiceOK
    <2>4. turn' \in [Turns -> TurnRecords] /\ \A u \in Turns : turn'[u].answer = turn[u].answer
      BY <2>2, <2>3, TurnTyped
    <2>5. QED
      BY <2>1, <2>4, ServiceKept DEF ServiceOK, Grows
  <1>3. ASSUME NEW c \in Cancels, CancelStep(c) PROVE ServiceOK' /\ log' = log
    <2>1. CASE CancelMisses(c) \/ CancelAborts(c)
      BY <1>1, <2>1 DEF CancelMisses, CancelAborts
    <2>2. CASE CancelLate(c)
      <3>1. /\ running \in Turns /\ UNCHANGED <<log, running>>
            /\ turn' = [turn EXCEPT ![running] = Stopped(@, {c})]
        BY <2>2 DEF CancelLate, ServiceOK
      <3>2. TurnKept(turn[running], turn'[running])
        BY <3>1, StoppedKeeps DEF ServiceOK
      <3>3. turn' \in [Turns -> TurnRecords] /\ \A u \in Turns : turn'[u].answer = turn[u].answer
        BY <3>1, <3>2 DEF ServiceOK, TurnKept
      <3>4. QED
        BY <3>1, <3>3, ServiceKept DEF ServiceOK, Grows
    <2>3. QED
      BY <1>3, <2>1, <2>2 DEF CancelStep
  <1>4. ASSUME NEW k \in Conns, Start(k) PROVE ServiceOK' /\ log' = log
    <2>1. turn' = Started(toServer[k][1].turn, k) /\ UNCHANGED <<log, running>>
      BY <1>4 DEF Start
    <2>2. turn' \in [Turns -> TurnRecords] /\ \A u \in Turns : turn'[u].answer = turn[u].answer
      BY <2>1, StartedTyped
    <2>3. QED
      BY <2>1, <2>2, ServiceKept DEF ServiceOK, Grows
  <1>5. ASSUME NEW k \in Conns, Lose(k) \/ CancelIdle(k) \/ CancelAsked(k) \/ SyncAsked(k) \/ SyncRead(k) \/ SyncList(k)
        PROVE  UNCHANGED service
    BY <1>5 DEF Lose, CancelIdle, CancelAsked, SyncAsked, SyncRead, SyncList
  <1>6. ASSUME NEW k \in Conns, Open(k) \/ ReceiveMessage(k) \/ ReceiveStatus(k)
        PROVE  UNCHANGED service
    BY <1>6 DEF Open, ReceiveMessage, ReceiveStatus
  <1>7. ASSUME NEW c \in Cancels, Stop(c) PROVE UNCHANGED service
    BY <1>7 DEF Stop
  <1>8. CASE LoadRow \/ LoadList \/ NoTicket \/ Closed \/ Retry \/ Reconnect \/ UNCHANGED vars
    BY <1>1, <1>8 DEF LoadRow, LoadList, NoTicket, Closed, Retry, Reconnect, vars, service
  <1>9. QED
    BY <1>1, <1>2, <1>3, <1>4, <1>5, <1>6, <1>7, <1>8 DEF OtherStep, ConnStep, PageStep

LEMMA ServiceStep ==
    ASSUME ServiceOK, ws \in Conns \cup {None}, [Next]_vars
    PROVE  ServiceOK' /\ Grows
  BY TurnStepService, OtherStepService, NextSteps DEF Grows

-----------------------------------------------------------------------------
(***************************************************************************)
(* The connections.                                                        *)
(***************************************************************************)
SyncRecords == [pc : {"none", "reading", "listing"}, from : Nat]
CancelRecords == [pc : {"idle", "sent", "reading", "aborting", "done"}, conn : Conns \cup {None}]

LEMMA CancelTyped ==
    ASSUME cancel \in [Cancels -> CancelRecords], NEW c, NEW pc \in {"idle", "sent", "reading", "aborting", "done"}
    PROVE  [cancel EXCEPT ![c].pc = pc] \in [Cancels -> CancelRecords]
  <1>1. \A r \in CancelRecords : [r EXCEPT !.pc = pc] \in CancelRecords
    BY DEF CancelRecords
  <1>2. QED
    BY <1>1

ConnOK ==
    /\ link \in [Conns -> {"unused", "open", "lost"}]
    /\ toServer \in [Conns -> Seq(Commands)]
    /\ toClient \in [Conns -> Seq(Events)]
    /\ flag \in [Conns -> BOOLEAN]
    /\ sync \in [Conns -> SyncRecords]
    /\ cancel \in [Cancels -> CancelRecords]

LEMMA SentTyped ==
    ASSUME NEW S, NEW q \in [Conns -> Seq(S)], NEW e \in S, NEW k
    PROVE  Sent(q, k, <<e>>) \in [Conns -> Seq(S)]
  <1>1. k \in Conns => q[k] \o <<e>> \in Seq(S)
    OBVIOUS
  <1>2. QED
    BY <1>1 DEF Sent

LEMMA RestTyped ==
    ASSUME NEW S, NEW q \in [Conns -> Seq(S)], NEW k \in Conns, q[k] # <<>>
    PROVE  Rest(q, k) \in [Conns -> Seq(S)]
  <1>1. Tail(q[k]) \in Seq(S)
    OBVIOUS
  <1>2. QED
    BY <1>1 DEF Rest

LEMMA MoreTyped ==
    ASSUME NEW S, NEW T, S \subseteq T, NEW q \in [Conns -> Seq(S)]
    PROVE  q \in [Conns -> Seq(T)]
  <1>1. \A s \in Seq(S) : s \in Seq(T)
    OBVIOUS
  <1>2. QED
    BY <1>1

\* What is on its way stays sound when the stream grows.
LEMMA EventsGrow ==
    ASSUME log \in Seq(Rows), Grows, toClient \in [Conns -> Seq(Events)]
    PROVE  Events \subseteq Events' /\ toClient \in [Conns -> Seq(Events')]
  <1>1. Events \subseteq Events'
    BY AnswersGrow DEF Events
  <1>2. QED
    BY <1>1, MoreTyped

LEMMA EventTyped ==
    ASSUME NEW type \in {"accepted", "failed", "completed", "cancelled", "replay"},
           NEW seqs \in SUBSET Answers, NEW t \in Nat \cup OtherTurns \cup {None}
    PROVE  Event(type, seqs, t) \in Events
  BY DEF Event, Events

\* An outcome that is reported, or swallowed by the flag.
LEMMA ReportTyped ==
    ASSUME flag \in [Conns -> BOOLEAN], NEW S, toClient \in [Conns -> Seq(S)], NEW k, NEW e \in S,
           Report(k, e) \/ ReportIgnoringFlag(k, e)
    PROVE  flag' \in [Conns -> BOOLEAN] /\ toClient' \in [Conns -> Seq(S)]
  <1>1. Sent(toClient, k, <<e>>) \in [Conns -> Seq(S)]
    BY SentTyped
  <1>2. QED
    BY <1>1 DEF Report, ReportIgnoringFlag

LEMMA ConfirmTyped ==
    ASSUME flag \in [Conns -> BOOLEAN], cancel \in [Cancels -> CancelRecords],
           NEW S, toClient \in [Conns -> Seq(S)], Event("cancelled", {}, None) \in S,
           NEW cs, Confirm(cs)
    PROVE  /\ flag' \in [Conns -> BOOLEAN] /\ cancel' \in [Cancels -> CancelRecords]
           /\ toClient' \in [Conns -> Seq(S)]
  <1>1. cancel' \in [Cancels -> CancelRecords]
    BY DEF Confirm, CancelRecords
  <1>2. flag' \in [Conns -> BOOLEAN]
    BY DEF Confirm
  <1>3. \A k \in Conns : Append(toClient[k], Event("cancelled", {}, None)) \in Seq(S) /\ toClient[k] \in Seq(S)
    OBVIOUS
  <1>4. toClient' \in [Conns -> Seq(S)]
    BY <1>3 DEF Confirm
  <1>5. QED
    BY <1>1, <1>2, <1>4

LEMMA TurnStepConn ==
    ASSUME ServiceOK, ConnOK, NEW t \in Turns, TurnStep(t)
    PROVE  ConnOK'
  <1>1. Grows /\ log \in Seq(Rows) /\ ServiceOK'
    BY TurnStepService DEF ServiceOK
  <1>2. Events \subseteq Events' /\ toClient \in [Conns -> Seq(Events')]
    BY <1>1, EventsGrow DEF ConnOK
  <1>3. Event("failed", {}, t) \in Events' /\ Event("cancelled", {}, None) \in Events'
    <2>1. t \in Nat \cup OtherTurns \cup {None}
      BY DEF Turns, OwnTurns
    <2>2. Event("failed", {}, t) \in Events
      BY <2>1, EventTyped
    <2>3. Event("cancelled", {}, None) \in Events
      BY EventTyped
    <2>4. QED
      BY <1>2, <2>2, <2>3
  <1>4. CASE Refuse(t) \/ Deny(t)
    <2>1. UNCHANGED <<link, toServer, sync, cancel>>
      BY <1>4 DEF Refuse, Deny
    <2>2. flag' \in [Conns -> BOOLEAN] /\ toClient' \in [Conns -> Seq(Events')]
      BY <1>2, <1>3, <1>4, ReportTyped DEF Refuse, Deny, Outcome, ConnOK
    <2>3. QED
      BY <2>1, <2>2 DEF ConnOK
  <1>5. CASE EnterTurn(t) \/ Prompt(t)
    BY <1>2, <1>5 DEF EnterTurn, Prompt, ConnOK, net, server
  <1>6. CASE PromptEnds(t)
    <2>1. PICK cs : Confirm(cs)
      BY <1>6 DEF PromptEnds
    <2>2. UNCHANGED <<link, toServer, sync>>
      BY <1>6 DEF PromptEnds
    <2>3. flag' \in [Conns -> BOOLEAN] /\ cancel' \in [Cancels -> CancelRecords] /\ toClient' \in [Conns -> Seq(Events')]
      BY <1>2, <1>3, <2>1, ConfirmTyped DEF ConnOK
    <2>4. QED
      BY <2>2, <2>3 DEF ConnOK
  <1>7. CASE Settle(t)
    <2>1. UNCHANGED <<link, toServer, sync, cancel>>
      BY <1>7 DEF Settle
    <2>2. PICK e \in Events' : Outcome(t, e)
      <3>1. CASE turn[t].answer > 0
        <4>1. turn[t].answer \in Answers
          BY <3>1 DEF ServiceOK
        <4>2. Event("completed", {turn[t].answer}, t) \in Events'
          BY <4>1, <1>2, EventTyped DEF Turns, OwnTurns
        <4>3. QED
          BY <3>1, <4>2, <1>7 DEF Settle
      <3>2. CASE ~(turn[t].answer > 0)
        BY <3>2, <1>3, <1>7 DEF Settle
      <3>3. QED
        BY <3>1, <3>2
    <2>3. flag' \in [Conns -> BOOLEAN] /\ toClient' \in [Conns -> Seq(Events')]
      BY <1>2, <2>2, ReportTyped DEF Outcome, ConnOK
    <2>4. QED
      BY <2>1, <2>3 DEF ConnOK
  <1>8. QED
    BY <1>4, <1>5, <1>6, <1>7 DEF TurnStep

-----------------------------------------------------------------------------
(***************************************************************************)
(* The page.                                                               *)
(***************************************************************************)
PageOK ==
    /\ phase \in {"start", "loading", "ticket", "open", "waiting", "closed"}
    /\ attempt \in 0 .. MaxRetries /\ ws \in Conns \cup {None}
    /\ sending \in BOOLEAN
    /\ cursor \in 0 .. Len(log)
    /\ loaded \subseteq Answers
    /\ shown \in Seq(Answers)
    /\ base \in 0 .. Len(shown) + 1
    /\ due \subseteq Answers

\* A command or an event of the page's socket is taken from its queue.
LEMMA ConnStepConn ==
    ASSUME ServiceOK, ConnOK, PageOK, log' = log, NEW k \in Conns,
           ConnStep(k) \/ Lose(k) \/ Open(k) \/ ReceiveMessage(k) \/ ReceiveStatus(k)
    PROVE  ConnOK'
  <1>0. Events' = Events
    BY DEF Events, Answers, AnswersIn
  <1> SUFFICES /\ link' \in [Conns -> {"unused", "open", "lost"}]
               /\ toServer' \in [Conns -> Seq(Commands)] /\ toClient' \in [Conns -> Seq(Events)]
               /\ flag' \in [Conns -> BOOLEAN] /\ sync' \in [Conns -> SyncRecords]
               /\ cancel' \in [Cancels -> CancelRecords]
    BY <1>0 DEF ConnOK
  <1> USE DEF ConnOK
  <1>1. \A type \in {"start", "cancel", "sync"} :
           HeadIs(toServer, k, type) => Rest(toServer, k) \in [Conns -> Seq(Commands)] /\ toServer[k][1] \in Commands
    <2>1. ASSUME toServer[k] # <<>> PROVE Rest(toServer, k) \in [Conns -> Seq(Commands)] /\ toServer[k][1] \in Commands
      <3>1. toServer[k] \in Seq(Commands) /\ 1 \in 1 .. Len(toServer[k])
        BY <2>1
      <3>2. toServer[k][1] \in Commands
        BY <3>1
      <3>3. Rest(toServer, k) \in [Conns -> Seq(Commands)]
        BY <2>1, RestTyped
      <3>4. QED
        BY <3>2, <3>3
    <2>2. QED
      BY <2>1 DEF HeadIs
  <1>2. CASE Start(k)
    <2>1. Event("accepted", {}, toServer[k][1].turn) \in Events
      BY <1>1, <1>2, EventTyped DEF Start, Commands
    <2>2. QED
      BY <1>1, <1>2, <2>1, SentTyped DEF Start
  <1>3. CASE CancelIdle(k)
    <2>1. Event("failed", {}, None) \in Events
      BY EventTyped
    <2>2. toClient' \in [Conns -> Seq(Events)]
      BY <1>3, <2>1, SentTyped DEF CancelIdle
    <2>3. cancel' \in [Cancels -> CancelRecords]
      BY <1>3, CancelTyped DEF CancelIdle
    <2>4. QED
      BY <1>1, <1>3, <2>2, <2>3 DEF CancelIdle
  <1>4. CASE CancelAsked(k)
    <2>1. cancel' \in [Cancels -> CancelRecords]
      BY <1>4, CancelTyped DEF CancelAsked
    <2>2. QED
      BY <1>1, <1>4, <2>1 DEF CancelAsked
  <1>5. CASE SyncAsked(k)
    BY <1>1, <1>5 DEF SyncAsked, SyncRecords, Commands
  <1>6. CASE SyncRead(k)
    BY <1>6 DEF SyncRead, SyncRecords, NoSync, net
  <1>7. CASE SyncList(k)
    <2>1. Event("replay", Listed(sync[k].from, SyncLimit), None) \in Events
      BY ListedAnswers, EventTyped DEF SyncRecords, ServiceOK
    <2>2. toClient' \in [Conns -> Seq(Events)]
      BY <1>7, <2>1, SentTyped DEF SyncList
    <2>3. QED
      BY <1>7, <2>2 DEF SyncList, SyncRecords, NoSync
  <1>8. CASE Lose(k)
    BY <1>8 DEF Lose, server
  <1>9. CASE Open(k)
    <2>1. <<Event("sync", {}, cursor)>> \in Seq(Commands)
      BY DEF Event, Commands, PageOK, ServiceOK
    <2>2. QED
      BY <1>9, <2>1 DEF Open, server
  <1>10. CASE ReceiveMessage(k)
    <2>1. toClient' \in [Conns -> Seq(Events)]
      <3>1. toClient[k] # <<>> /\ toClient[k] \in Seq(Events)
        BY <1>10 DEF ReceiveMessage, Arrives
      <3>2. CASE toClient' = Rest(toClient, k)
        BY <3>1, <3>2, RestTyped
      <3>3. ASSUME NEW p, toClient' = [toClient EXCEPT ![k][1].seqs = @ \ {p}]
            PROVE  toClient' \in [Conns -> Seq(Events)]
        <4>1. [toClient[k][1] EXCEPT !.seqs = @ \ {p}] \in Events
          <5>1. toClient[k][1] \in Events
            BY <3>1
          <5>2. QED
            BY <5>1 DEF Events
        <4>2. [toClient[k] EXCEPT ![1] = [toClient[k][1] EXCEPT !.seqs = @ \ {p}]] \in Seq(Events)
          BY <3>1, <4>1
        <4>3. QED
          BY <3>3, <4>2
      <3>4. QED
        BY <1>10, <3>2, <3>3 DEF ReceiveMessage
    <2>2. QED
      BY <1>10, <2>1 DEF ReceiveMessage, server
  <1>11. CASE ReceiveStatus(k)
    BY <1>11, RestTyped DEF ReceiveStatus, Arrives, server
  <1>12. QED
    BY <1>2, <1>3, <1>4, <1>5, <1>6, <1>7, <1>8, <1>9, <1>10, <1>11 DEF ConnStep

LEMMA OtherStepConn ==
    ASSUME ServiceOK, ConnOK, PageOK, log' = log, OtherStep
    PROVE  ConnOK'
  <1>0. Events' = Events
    BY DEF Events, Answers, AnswersIn
  <1> USE DEF ConnOK
  <1>1. ASSUME NEW k \in Conns, ConnStep(k) \/ Lose(k) \/ Open(k) \/ ReceiveMessage(k) \/ ReceiveStatus(k)
        PROVE  ConnOK'
    BY <1>1, ConnStepConn
  <1>2. CASE UNCHANGED <<link, toServer, toClient, flag, sync, cancel>>
    BY <1>0, <1>2
  <1>3. CASE LoadRow \/ LoadList \/ NoTicket \/ Closed \/ Retry \/ Reconnect \/ UNCHANGED vars
    BY <1>2, <1>3 DEF LoadRow, LoadList, NoTicket, Closed, Retry, Reconnect, vars, net, server
  <1>4. ASSUME NEW t \in Turns, Send(t) PROVE ConnOK'
    <2>1. Event("start", {}, t) \in Commands
      BY <1>4 DEF Send, OwnTurns, Event, Commands
    <2>2. toServer' \in [Conns -> Seq(Commands)]
      BY <1>4, <2>1, SentTyped DEF Send
    <2>3. QED
      BY <1>0, <1>4, <2>2 DEF Send, server
  <1>5. ASSUME NEW c \in Cancels, Stop(c) PROVE ConnOK'
    <2>1. Event("cancel", {}, c) \in Commands
      BY DEF Cancels, Event, Commands
    <2>2. toServer' \in [Conns -> Seq(Commands)]
      BY <1>5, <2>1, SentTyped DEF Stop
    <2>3. cancel' \in [Cancels -> CancelRecords]
      BY <1>5 DEF Stop, CancelRecords, PageOK
    <2>4. QED
      BY <1>0, <1>5, <2>2, <2>3 DEF Stop
  <1>6. ASSUME NEW c \in Cancels, CancelStep(c) PROVE ConnOK'
    <2>1. CASE CancelMisses(c) \/ CancelAborts(c)
      <3>1. cancel' \in [Cancels -> CancelRecords]
        <4>1. PICK pc \in {"aborting", "done"} : cancel' = [cancel EXCEPT ![c].pc = pc]
          BY <2>1 DEF CancelMisses, CancelAborts
        <4>2. QED
          BY <4>1 DEF CancelRecords
      <3>2. UNCHANGED <<link, toServer, toClient, flag, sync>>
        BY <2>1 DEF CancelMisses, CancelAborts, net
      <3>3. QED
        BY <1>0, <3>1, <3>2
    <2>2. CASE CancelLate(c)
      <3>1. Confirm({c}) /\ UNCHANGED <<link, toServer, sync>>
        BY <2>2 DEF CancelLate
      <3>2. Event("cancelled", {}, None) \in Events
        BY EventTyped
      <3>3. QED
        BY <1>0, <3>1, <3>2, ConfirmTyped
    <2>3. QED
      BY <1>6, <2>1, <2>2 DEF CancelStep
  <1>7. QED
    BY <1>1, <1>3, <1>4, <1>5, <1>6 DEF OtherStep, PageStep

LEMMA PageKept ==
    ASSUME ServiceOK, PageOK, Grows,
           UNCHANGED <<phase, attempt, ws, cursor, loaded, shown, base>>,
           sending' \in BOOLEAN, due' \subseteq Answers'
    PROVE  PageOK'
  <1>1. Len(log) <= Len(log') /\ Answers \subseteq Answers' /\ Len(log') \in Nat
    BY AnswersGrow DEF ServiceOK
  <1>2. shown \in Seq(Answers')
    BY <1>1 DEF PageOK
  <1>3. QED
    BY <1>1, <1>2 DEF PageOK, ServiceOK

\* What a turn reports is due.
LEMMA TurnStepPage ==
    ASSUME ServiceOK, PageOK, NEW t \in Turns, TurnStep(t)
    PROVE  PageOK'
  <1>1. Grows /\ Answers \subseteq Answers'
    BY TurnStepService, AnswersGrow DEF ServiceOK
  <1>2. UNCHANGED <<phase, attempt, ws, cursor, loaded, shown, sending, base>>
    BY DEF TurnStep, Refuse, EnterTurn, Prompt, PromptEnds, Settle, Deny, page
  <1>3. ASSUME NEW k, NEW e \in Events, Report(k, e) \/ ReportIgnoringFlag(k, e)
        PROVE  due' \subseteq Answers'
    BY <1>1, <1>3 DEF Report, ReportIgnoringFlag, PageOK, Events
  <1>4. t \in Nat \cup OtherTurns \cup {None}
    BY DEF Turns, OwnTurns
  <1>5. Event("failed", {}, t) \in Events
    BY <1>4, EventTyped
  <1>6. turn[t].answer > 0 => Event("completed", {turn[t].answer}, t) \in Events
    BY <1>4, EventTyped DEF ServiceOK
  <1>7. due' \subseteq Answers'
    <2>1. CASE Refuse(t) \/ Deny(t)
      BY <1>1, <1>3, <1>5, <2>1 DEF Refuse, Deny, Outcome, PageOK
    <2>2. CASE Settle(t)
      BY <1>1, <1>3, <1>5, <1>6, <2>2 DEF Settle, Outcome, PageOK
    <2>3. CASE EnterTurn(t) \/ Prompt(t) \/ PromptEnds(t)
      BY <1>1, <2>3 DEF EnterTurn, Prompt, PromptEnds, PageOK
    <2>4. QED
      BY <2>1, <2>2, <2>3 DEF TurnStep
  <1>8. QED
    BY <1>1, <1>2, <1>7, PageKept DEF PageOK

LEMMA TakeTyped ==
    ASSUME PageOK, ServiceOK, NEW p \in Answers, Take(p)
    PROVE  cursor' \in 0 .. Len(log) /\ shown' \in Seq(Answers) /\ Len(shown) <= Len(shown') /\ sending' \in BOOLEAN
  <1>1. p \in 1 .. Len(log)
    BY RowsInterval
  <1>2. Append(shown, p) \in Seq(Answers) /\ Len(Append(shown, p)) = Len(shown) + 1
    BY DEF PageOK
  <1>3. CASE p <= cursor
    <2>1. UNCHANGED <<cursor, shown, sending>> /\ Len(shown) \in Nat
      BY <1>3 DEF Take, PageOK
    <2>2. QED
      BY <2>1 DEF PageOK
  <1>4. CASE ~(p <= cursor)
    <2>1. cursor' = p /\ shown' = Append(shown, p) /\ sending' = FALSE
      BY <1>4 DEF Take
    <2>2. p \in 0 .. Len(log)
      BY <1>1 DEF ServiceOK
    <2>3. Len(shown) \in Nat /\ Len(shown') = Len(shown) + 1
      BY <1>2, <2>1 DEF PageOK
    <2>4. Len(shown) <= Len(shown')
      BY <2>3
    <2>5. cursor' \in 0 .. Len(log) /\ shown' \in Seq(Answers) /\ sending' \in BOOLEAN
      BY <1>2, <2>1, <2>2
    <2>6. QED
      BY <2>4, <2>5
  <1>5. QED
    BY <1>3, <1>4

LEMMA OtherStepPage ==
    ASSUME ServiceOK, ConnOK, PageOK, log' = log, OtherStep
    PROVE  PageOK'
  <1>0. Answers' = Answers /\ Len(log) \in Nat /\ Grows
    BY DEF Answers, AnswersIn, ServiceOK, Grows
  <1> USE DEF PageOK
  <1>1. CASE UNCHANGED <<phase, attempt, ws, cursor, loaded, shown, sending, base, due>>
    BY <1>0, <1>1
  <1>2. ASSUME NEW t \in Turns, Send(t) PROVE PageOK'
    BY <1>0, <1>2 DEF Send
  <1>3. ASSUME NEW c \in Cancels, CancelStep(c) \/ Stop(c) PROVE PageOK'
    BY <1>1, <1>3 DEF CancelStep, CancelMisses, CancelAborts, CancelLate, Stop, page
  <1>4. ASSUME NEW k \in Conns, ConnStep(k) \/ Lose(k) PROVE PageOK'
    <2>1. CASE SyncRead(k)
      <3>1. AnswersIn(sync[k].from, Len(log)) \subseteq Answers
        BY FewerAnswers DEF ConnOK, SyncRecords, ServiceOK
      <3>2. QED
        BY <1>0, <2>1, <3>1 DEF SyncRead, page
    <2>2. CASE Start(k) \/ CancelIdle(k) \/ CancelAsked(k) \/ SyncAsked(k) \/ SyncList(k) \/ Lose(k)
      BY <1>1, <2>2 DEF Start, CancelIdle, CancelAsked, SyncAsked, SyncList, Lose, page
    <2>3. QED
      BY <1>4, <2>1, <2>2 DEF ConnStep
  <1>5. CASE LoadRow \/ Retry \/ Reconnect
    BY <1>0, <1>5 DEF LoadRow, Retry, Reconnect
  <1>6. CASE LoadList
    <2>1. loaded' \subseteq Answers
      BY <1>6, ListedAnswers DEF LoadList, ServiceOK
    <2>2. due' \subseteq Answers
      BY <1>0, <1>6 DEF LoadList, Answers, AnswersIn
    <2>3. QED
      BY <1>0, <1>6, <2>1, <2>2 DEF LoadList
  <1>7. CASE NoTicket \/ Closed
    BY <1>0, <1>7 DEF NoTicket, Closed, ScheduleReconnect
  <1>8. ASSUME NEW k \in Conns, Open(k) PROVE PageOK'
    BY <1>0, <1>8 DEF Open
  <1>9. ASSUME NEW k \in Conns, ReceiveMessage(k) PROVE PageOK'
    <2>1. toClient[k][1].seqs \subseteq Answers
      <3>1. toClient[k] # <<>> /\ toClient[k] \in Seq(Events)
        BY <1>9 DEF ReceiveMessage, Arrives, ConnOK
      <3>2. toClient[k][1] \in Events
        BY <3>1
      <3>3. QED
        BY <3>2 DEF Events
    <2>2. PICK p \in Answers : Take(p)
      BY <1>9, <2>1 DEF ReceiveMessage
    <2>3. QED
      BY <1>0, <1>9, <2>2, TakeTyped DEF ReceiveMessage
  <1>10. ASSUME NEW k \in Conns, ReceiveStatus(k) PROVE PageOK'
    BY <1>0, <1>10 DEF ReceiveStatus
  <1>11. CASE UNCHANGED vars
    BY <1>1, <1>11 DEF vars
  <1>12. QED
    BY <1>2, <1>3, <1>4, <1>5, <1>6, <1>7, <1>8, <1>9, <1>10, <1>11 DEF OtherStep, PageStep

-----------------------------------------------------------------------------
Sound == ServiceOK /\ ConnOK /\ PageOK

LEMMA SoundInit == Init => Sound
  <1> SUFFICES ASSUME Init PROVE Sound
    OBVIOUS
  <1>1. ServiceOK
    BY DEF Init, ServiceOK, TurnRecords
  <1>2. ConnOK
    BY DEF Init, ConnOK, SyncRecords, CancelRecords, NoSync
  <1>3. PageOK
    <2>1. cursor \in 0 .. Len(log) /\ attempt \in 0 .. MaxRetries
      BY DEF Init
    <2>2. shown \in Seq(Answers) /\ base \in 0 .. Len(shown) + 1 /\ loaded \subseteq Answers /\ due \subseteq Answers
      BY DEF Init
    <2>3. QED
      BY <2>1, <2>2 DEF Init, PageOK
  <1>4. QED
    BY <1>1, <1>2, <1>3 DEF Sound

LEMMA SoundStep == Sound /\ [Next]_vars => Sound'
  <1> SUFFICES ASSUME Sound, [Next]_vars PROVE Sound'
    OBVIOUS
  <1>1. ServiceOK'
    BY ServiceStep DEF Sound, PageOK
  <1>2. ASSUME NEW t \in Turns, TurnStep(t) PROVE ConnOK' /\ PageOK'
    BY <1>2, TurnStepConn, TurnStepPage DEF Sound
  <1>3. ASSUME OtherStep PROVE ConnOK' /\ PageOK'
    BY <1>3, OtherStepService, OtherStepConn, OtherStepPage DEF Sound, PageOK
  <1>4. QED
    BY <1>1, <1>2, <1>3, NextSteps DEF Sound

(***************************************************************************)
(* The state is well typed, the cursor never runs ahead of the stream, and *)
(* the page shows answers of the stream only (realtime-transport.ts,       *)
(* lastSeenSequence; chat-controller.ts, handleEvent).                     *)
(***************************************************************************)
THEOREM RealtimeTypeCorrect == Spec => []TypeOK
  <1>1. Sound => TypeOK
    <2> SUFFICES ASSUME Sound PROVE TypeOK
      OBVIOUS
    <2>1. due \subseteq DOMAIN log
      BY RowsInterval DEF Sound, ServiceOK, PageOK
    <2>2. \A i \in DOMAIN shown : shown[i] \in AnswersIn(0, Len(log))
      BY DEF Sound, PageOK, Answers
    <2>3. QED
      BY <2>1, <2>2 DEF Sound, ServiceOK, ConnOK, PageOK, TypeOK, Rows, TurnRecords, CancelRecords, Answers
  <1>2. QED
    BY <1>1, SoundInit, SoundStep, PTL DEF Spec

-----------------------------------------------------------------------------
(***************************************************************************)
(* The order of the answers.  The cursor is above every answer taken since *)
(* the stream was last started from zero, so that one above the cursor     *)
(* comes after them all.  This is true of a page load only if no answer is *)
(* written between its two reads.                                          *)
(***************************************************************************)
BelowCursor ==
    /\ ws # None => phase = "open"
    /\ phase \in {"start", "loading"} => shown = <<>>
    /\ phase = "loading" => \A p \in Answers : p <= cursor
    /\ phase \in {"start", "loading"} => base = 0
    /\ base = 0 => \A p \in loaded : p <= cursor
    /\ \A i \in DOMAIN shown : i >= base => shown[i] <= cursor

LEMMA NoAnswerAppended ==
    ASSUME log \in Seq(Rows), NEW kind \in {"user", "end"}, NEW t \in Turns, log' = Append(log, Row(kind, t))
    PROVE  Answers' = Answers
  <1>1. Len(log') = Len(log) + 1 /\ log'[Len(log) + 1].kind # "answer"
    BY DEF Row, Rows
  <1>2. \A p \in 1 .. Len(log) : log'[p] = log[p]
    OBVIOUS
  <1>3. QED
    BY <1>1, <1>2 DEF Answers, AnswersIn

LEMMA LoadNotOvertaken ==
    ASSUME "load" \notin Races, ServiceOK, NEW t \in Turns, TurnStep(t), phase = "loading"
    PROVE  Answers' = Answers
  <1>1. CASE log' = log
    BY <1>1 DEF Answers, AnswersIn
  <1>2. ASSUME NEW kind \in {"user", "end"}, log' = Append(log, Row(kind, t)) PROVE Answers' = Answers
    BY <1>2, NoAnswerAppended DEF ServiceOK
  <1>3. log' = log \/ \E kind \in {"user", "end"} : log' = Append(log, Row(kind, t))
    BY DEF TurnStep, Refuse, EnterTurn, Prompt, PromptEnds, Settle, Deny
  <1>4. QED
    BY <1>1, <1>2, <1>3

LEMMA TakeInOrder ==
    ASSUME Sound, BelowCursor, ShownInOrder, NEW p \in Answers, Take(p), UNCHANGED <<loaded, base>>
    PROVE  /\ cursor <= cursor' /\ cursor' \in Nat
           /\ \A i \in DOMAIN shown' : i >= base => shown'[i] <= cursor'
           /\ ShownInOrder'
  <1>1. /\ p \in Nat /\ cursor \in Nat /\ shown \in Seq(Answers) /\ base \in Nat
        /\ \A q \in Answers : q \in Nat
    BY RowsInterval DEF Sound, PageOK, ServiceOK
  <1>2. CASE p <= cursor
    <2>1. UNCHANGED <<cursor, shown>>
      BY <1>2 DEF Take
    <2>2. QED
      BY <1>1, <2>1 DEF BelowCursor, ShownInOrder
  <1>3. CASE p > cursor
    <2>1. cursor' = p /\ shown' = Append(shown, p)
      BY <1>1, <1>3 DEF Take
    <2>2. /\ Len(shown) \in Nat /\ DOMAIN shown = 1 .. Len(shown) /\ DOMAIN shown' = 1 .. Len(shown) + 1
          /\ shown'[Len(shown) + 1] = p /\ \A i \in 1 .. Len(shown) : shown'[i] = shown[i]
      BY <1>1, <2>1
    <2>3. \A i \in 1 .. Len(shown) : shown[i] \in Nat /\ (i >= base => shown[i] <= cursor)
      <3>1. \A i \in 1 .. Len(shown) : shown[i] \in Answers
        BY <1>1
      <3>2. QED
        BY <1>1, <2>2, <3>1 DEF BelowCursor
    <2>4. base = 0 => \A q \in loaded : q <= cursor /\ q \in Nat
      BY <1>1 DEF BelowCursor, Sound, PageOK
    <2>5. ASSUME NEW j \in DOMAIN shown', j >= base
          PROVE  /\ base = 0 => \A q \in loaded : q < shown'[j]
                 /\ \A i \in 1 .. j - 1 : i >= base => shown'[i] < shown'[j]
                 /\ shown'[j] <= p
      <3>1. CASE j = Len(shown) + 1
        <4>1. shown'[j] = p /\ 1 .. j - 1 = 1 .. Len(shown)
          BY <2>2, <3>1
        <4>2. QED
          BY <1>1, <1>3, <2>2, <2>3, <2>4, <4>1
      <3>2. CASE j \in 1 .. Len(shown)
        <4>1. shown'[j] = shown[j] /\ \A i \in 1 .. j - 1 : shown'[i] = shown[i]
          BY <2>2, <3>2
        <4>2. /\ base = 0 => \A q \in loaded : q < shown[j]
              /\ \A i \in 1 .. j - 1 : i >= base => shown[i] < shown[j]
          BY <2>2, <2>5, <3>2 DEF ShownInOrder
        <4>3. shown[j] \in Nat /\ shown[j] <= cursor
          BY <2>3, <2>5, <3>2
        <4>4. QED
          BY <1>1, <1>3, <4>1, <4>2, <4>3
      <3>3. QED
        BY <2>2, <3>1, <3>2
    <2>6. ShownInOrder'
      BY <2>5 DEF ShownInOrder
    <2>7. \A i \in DOMAIN shown' : i >= base => shown'[i] <= cursor'
      BY <2>1, <2>5
    <2>8. QED
      BY <1>1, <1>3, <2>1, <2>6, <2>7
  <1>4. QED
    BY <1>1, <1>2, <1>3

LEMMA BelowCursorStep ==
    ASSUME "load" \notin Races, Sound, BelowCursor, ShownInOrder, [Next]_vars
    PROVE  BelowCursor' /\ ShownInOrder'
  <1>1. ASSUME NEW t \in Turns, TurnStep(t) PROVE BelowCursor' /\ ShownInOrder'
    <2>1. UNCHANGED <<phase, ws, cursor, loaded, shown, base>>
      BY <1>1 DEF TurnStep, Refuse, EnterTurn, Prompt, PromptEnds, Settle, Deny, page
    <2>2. phase = "loading" => Answers' = Answers
      BY <1>1, LoadNotOvertaken DEF Sound
    <2>3. QED
      BY <2>1, <2>2 DEF BelowCursor, ShownInOrder
  <1>2. CASE OtherStep
    <2>1. Answers' = Answers
      BY <1>2, OtherStepService DEF Sound, PageOK, Answers, AnswersIn
    <2>2. CASE UNCHANGED <<cursor, loaded, shown, base>> /\ phase' \notin {"start", "loading"} /\ (ws' # None => phase' = "open")
      BY <2>2 DEF BelowCursor, ShownInOrder
    <2>3. CASE UNCHANGED <<phase, ws, cursor, loaded, shown, base>>
      BY <2>1, <2>3 DEF BelowCursor, ShownInOrder
    <2>4. ASSUME NEW t \in Turns, Send(t) PROVE UNCHANGED <<phase, ws, cursor, loaded, shown, base>>
      BY <2>4 DEF Send
    <2>5. ASSUME NEW c \in Cancels, CancelStep(c) \/ Stop(c) PROVE UNCHANGED <<phase, ws, cursor, loaded, shown, base>>
      BY <2>5 DEF CancelStep, CancelMisses, CancelAborts, CancelLate, Stop, page
    <2>6. ASSUME NEW k \in Conns, ConnStep(k) \/ Lose(k) \/ ReceiveStatus(k)
          PROVE  UNCHANGED <<phase, ws, cursor, loaded, shown, base>>
      BY <2>6 DEF ConnStep, Start, CancelIdle, CancelAsked, SyncAsked, SyncRead, SyncList, Lose, ReceiveStatus, page
    <2>7. CASE LoadRow
      <3>1. phase' = "loading" /\ cursor' = Len(log) /\ shown = <<>> /\ base = 0 /\ ws = None /\ UNCHANGED <<ws, loaded, shown, base>>
        BY <2>7 DEF LoadRow, BelowCursor
      <3>2. \A p \in Answers : p <= Len(log)
        BY RowsInterval DEF Sound, ServiceOK
      <3>3. \A p \in loaded : p <= Len(log)
        BY <3>2 DEF Sound, PageOK
      <3>4. QED
        BY <2>1, <3>1, <3>2, <3>3 DEF BelowCursor, ShownInOrder
    <2>8. CASE LoadList
      <3>1. phase' = "ticket" /\ shown = <<>> /\ ws = None /\ UNCHANGED <<ws, cursor, shown, base>>
        BY <2>8 DEF LoadList, BelowCursor
      <3>2. \A p \in loaded' : p <= cursor
        BY <2>8, ListedAnswers DEF LoadList, BelowCursor, Sound, ServiceOK
      <3>3. QED
        BY <3>1, <3>2 DEF BelowCursor, ShownInOrder
    <2>9. CASE NoTicket \/ Closed \/ Retry
      BY <2>2, <2>9 DEF NoTicket, Closed, Retry, ScheduleReconnect, BelowCursor
    <2>9a. CASE Reconnect
      <3>1. phase' = "ticket" /\ ws = None /\ base' = Len(shown) + 1 /\ UNCHANGED <<ws, shown>>
        BY <2>9a DEF Reconnect, BelowCursor
      <3>2. base' # 0 /\ \A i \in DOMAIN shown' : ~(i >= base')
        BY <3>1 DEF Sound, PageOK
      <3>3. QED
        BY <3>1, <3>2 DEF BelowCursor, ShownInOrder
    <2>10. ASSUME NEW k \in Conns, Open(k) PROVE BelowCursor' /\ ShownInOrder'
      BY <2>2, <2>10 DEF Open
    <2>11. ASSUME NEW k \in Conns, ReceiveMessage(k) PROVE BelowCursor' /\ ShownInOrder'
      <3>1. ws = k /\ phase = "open" /\ UNCHANGED <<phase, ws, loaded, base>>
        BY <2>11 DEF ReceiveMessage, Arrives, BelowCursor, Conns
      <3>2. toClient[k] # <<>> /\ toClient[k] \in Seq(Events)
        BY <2>11 DEF ReceiveMessage, Arrives, Sound, ConnOK
      <3>3. toClient[k][1] \in Events
        BY <3>2
      <3>4. PICK p \in Answers : Take(p)
        BY <2>11, <3>3 DEF ReceiveMessage, Events
      <3>5. /\ cursor <= cursor' /\ cursor' \in Nat /\ cursor \in Nat /\ \A q \in loaded : q \in Nat
            /\ \A i \in DOMAIN shown' : i >= base => shown'[i] <= cursor'
            /\ ShownInOrder'
        BY <3>1, <3>4, TakeInOrder, RowsInterval DEF Sound, PageOK, ServiceOK
      <3>6. base = 0 => \A q \in loaded' : q <= cursor'
        BY <3>1, <3>5 DEF BelowCursor
      <3>7. QED
        BY <3>1, <3>5, <3>6 DEF BelowCursor
    <2>12. CASE UNCHANGED vars
      BY <2>3, <2>12 DEF vars
    <2>13. QED
      BY <1>2, <2>3, <2>4, <2>5, <2>6, <2>7, <2>8, <2>9, <2>9a, <2>10, <2>11, <2>12 DEF OtherStep, PageStep
  <1>3. QED
    BY <1>1, <1>2, NextSteps

(***************************************************************************)
(* Replays and live events put an answer on the screen once and in the     *)
(* order of the stream, through any number of lost connections and         *)
(* scheduled reconnects since the user last pressed the reconnect button;  *)
(* and behind what the page load found while it has not been pressed, if   *)
(* no answer is written between the two reads of the load                  *)
(* (realtime-transport.ts, handleMessage: sequence <= lastSeenSequence).   *)
(***************************************************************************)
THEOREM AnswersInOrder ==
    ASSUME "load" \notin Races
    PROVE  Spec => []ShownInOrder
  <1>1. Init => BelowCursor /\ ShownInOrder
    BY DEF Init, BelowCursor, ShownInOrder
  <1>2. BelowCursor /\ ShownInOrder /\ Sound /\ [Next]_vars => BelowCursor' /\ ShownInOrder'
    BY BelowCursorStep
  <1>3. QED
    BY <1>1, <1>2, SoundInit, SoundStep, PTL DEF Spec

-----------------------------------------------------------------------------
(***************************************************************************)
(* Turns and connections.  A turn of the page belongs to the connection it *)
(* was sent on; turns that are in flight there together share its flag; and*)
(* a turn that was stopped and has yet to end finds the flag set.          *)
(***************************************************************************)
Flying(t) == turn[t].pc \notin {"idle", "sent", "ended"}

\* ws is the socket of an open transport.
Socket == ws # None <=> phase = "open"

Belongs ==
    /\ \A t \in OwnTurns : IF turn[t].pc = "idle" THEN turn[t].conn = None ELSE turn[t].conn \in Conns
    /\ \A t \in OtherTurns : turn[t].conn = None /\ turn[t].pc \notin {"sent", "checking"}

\* A turn.start on its way is that of a turn that was sent, on its connection, once.
Starts(k) == {i \in DOMAIN toServer[k] : toServer[k][i].type = "start"}

Commanded ==
    \A k \in Conns : \A i \in Starts(k) :
        /\ toServer[k][i].turn \in OwnTurns
        /\ turn[toServer[k][i].turn].pc = "sent" /\ turn[toServer[k][i].turn].conn = k
        /\ \A j \in Starts(k) : toServer[k][i].turn = toServer[k][j].turn => i = j

Sharing ==
    \A t, u \in OwnTurns :
        t # u /\ Flying(t) /\ Flying(u) /\ turn[t].conn = turn[u].conn => turn[t].stop = "shared"

Flagged ==
    \A t \in OwnTurns : turn[t].stop = "stopped" =>
        turn[t].pc = "ended" \/ (turn[t].pc = "persisting" /\ flag[turn[t].conn])

\* The events of turns that may be on their way: an outcome is that of a turn that
\* has ended without being stopped.
Allowed ==
    {e \in Events : e.type \in {"failed", "completed"} /\ e.turn \in Turns =>
        turn[e.turn].pc = "ended" /\ turn[e.turn].stop # "stopped"}

Silent == Socket /\ Belongs /\ Commanded /\ Sharing /\ Flagged /\ toClient \in [Conns -> Seq(Allowed)]


-----------------------------------------------------------------------------
(***************************************************************************)
(* Queues.                                                                 *)
(***************************************************************************)
LEMMA RestIs ==
    ASSUME NEW S, NEW q \in [Conns -> Seq(S)], NEW k \in Conns, q[k] # <<>>
    PROVE  /\ Rest(q, k) \in [Conns -> Seq(S)] /\ \A j \in Conns : j # k => Rest(q, k)[j] = q[j]
           /\ Len(q[k]) \in Nat \ {0} /\ Len(Rest(q, k)[k]) = Len(q[k]) - 1
           /\ \A i \in 1 .. Len(q[k]) - 1 : Rest(q, k)[k][i] = q[k][i + 1]
  <1>1. q[k] \in Seq(S)
    OBVIOUS
  <1>2. /\ Tail(q[k]) \in Seq(S) /\ Len(q[k]) \in Nat \ {0} /\ Len(Tail(q[k])) = Len(q[k]) - 1
        /\ \A i \in 1 .. Len(q[k]) - 1 : Tail(q[k])[i] = q[k][i + 1]
    BY <1>1
  <1>3. Rest(q, k) = [q EXCEPT ![k] = Tail(q[k])]
    BY DEF Rest
  <1>4. Rest(q, k)[k] = Tail(q[k]) /\ \A j \in Conns : j # k => Rest(q, k)[j] = q[j]
    BY <1>3
  <1>5. QED
    BY <1>2, <1>4, RestTyped

LEMMA SentIs ==
    ASSUME NEW S, NEW q \in [Conns -> Seq(S)], NEW k \in Conns, NEW e \in S
    PROVE  /\ Sent(q, k, <<e>>) \in [Conns -> Seq(S)] /\ \A j \in Conns : j # k => Sent(q, k, <<e>>)[j] = q[j]
           /\ link[k] # "open" => Sent(q, k, <<e>>) = q
           /\ link[k] = "open" =>
                 /\ Len(q[k]) \in Nat /\ Len(Sent(q, k, <<e>>)[k]) = Len(q[k]) + 1
                 /\ Sent(q, k, <<e>>)[k][Len(q[k]) + 1] = e
                 /\ \A i \in 1 .. Len(q[k]) : Sent(q, k, <<e>>)[k][i] = q[k][i]
  <1>1. q[k] \in Seq(S) /\ Len(q[k]) \in Nat
    OBVIOUS
  <1>2. /\ q[k] \o <<e>> \in Seq(S) /\ Len(q[k] \o <<e>>) = Len(q[k]) + 1 /\ (q[k] \o <<e>>)[Len(q[k]) + 1] = e
        /\ \A i \in 1 .. Len(q[k]) : (q[k] \o <<e>>)[i] = q[k][i]
    BY <1>1
  <1>3. CASE link[k] = "open"
    <2>1. Sent(q, k, <<e>>) = [q EXCEPT ![k] = q[k] \o <<e>>]
      BY <1>3 DEF Sent
    <2>2. Sent(q, k, <<e>>)[k] = q[k] \o <<e>> /\ \A j \in Conns : j # k => Sent(q, k, <<e>>)[j] = q[j]
      BY <2>1
    <2>3. QED
      BY <1>1, <1>2, <1>3, <2>2, SentTyped
  <1>4. CASE link[k] # "open"
    BY <1>4 DEF Sent
  <1>5. QED
    BY <1>3, <1>4

-----------------------------------------------------------------------------
(***************************************************************************)
(* What the steps do to the turns.                                         *)
(***************************************************************************)
LEMMA NoneIsNobody == None \notin Turns /\ None \notin Conns /\ OwnTurns \cap OtherTurns = {}
  BY DEF Turns, OwnTurns, Conns

LEMMA PcIs ==
    ASSUME ServiceOK, NEW t \in Turns, NEW pc
    PROVE  /\ \A u \in Turns : u # t => Pc(t, pc)[u] = turn[u]
           /\ Pc(t, pc)[t].pc = pc /\ Pc(t, pc)[t].conn = turn[t].conn /\ Pc(t, pc)[t].answer = turn[t].answer
           /\ Pc(t, pc)[t].stop = turn[t].stop
  BY DEF ServiceOK, Pc, TurnRecords

\* Whom a set of cancels stops.
Hit(t, cs) == turn[t].conn \in {cancel[c].conn : c \in cs}

StoppedBy(t, cs) == turn'[t].stop = IF turn[t].stop = "no" /\ Hit(t, cs) THEN "stopped" ELSE turn[t].stop

Waiting == {c \in Cancels : cancel[c].pc = "aborting"}

LEMMA PromptEndsIs ==
    ASSUME ServiceOK, NEW t \in Turns, PromptEnds(t)
    PROVE  /\ \A u \in Turns : u # t => turn'[u] = turn[u]
           /\ turn[t].pc = "prompting" /\ turn'[t].pc = "persisting" /\ turn'[t].conn = turn[t].conn /\ StoppedBy(t, Waiting)
           /\ \/ log' = Append(log, Row("answer", t)) /\ turn'[t].answer = Len(log) + 1
              \/ log' = log /\ turn'[t].answer = turn[t].answer
  <1>1. turn[t] \in TurnRecords /\ Len(log) + 1 \in Nat
    BY DEF ServiceOK
  <1>2. CASE /\ log' = Append(log, Row("answer", t))
             /\ turn' = [turn EXCEPT ![t] = Stopped([@ EXCEPT !.pc = "persisting", !.answer = Len(log) + 1], Waiting)]
    BY <1>1, <1>2 DEF PromptEnds, ServiceOK, TurnRecords, Stopped, StoppedBy, Hit
  <1>3. CASE /\ log' = log
             /\ turn' = [turn EXCEPT ![t] = Stopped([@ EXCEPT !.pc = "persisting"], Waiting)]
    BY <1>1, <1>3 DEF PromptEnds, ServiceOK, TurnRecords, Stopped, StoppedBy, Hit
  <1>4. QED
    BY <1>2, <1>3 DEF PromptEnds, Waiting

LEMMA CancelLateIs ==
    ASSUME ServiceOK, NEW c \in Cancels, CancelLate(c)
    PROVE  /\ running \in Turns /\ turn[running].pc = "persisting"
           /\ \A u \in Turns : u # running => turn'[u] = turn[u]
           /\ turn'[running].pc = "persisting" /\ turn'[running].conn = turn[running].conn
           /\ turn'[running].answer = turn[running].answer /\ StoppedBy(running, {c})
  <1>1. running \in Turns /\ turn[running].pc = "persisting"
    BY DEF CancelLate, ServiceOK
  <1>2. turn[running] \in TurnRecords
    BY <1>1 DEF ServiceOK
  <1>3. turn' = [turn EXCEPT ![running] = Stopped(@, {c})]
    BY DEF CancelLate
  <1>4. QED
    BY <1>1, <1>2, <1>3 DEF ServiceOK, TurnRecords, Stopped, StoppedBy, Hit

LEMMA StartedIs ==
    ASSUME ServiceOK, NEW t \in Turns, NEW k, NEW u \in Turns
    PROVE  /\ Started(t, k)[u].pc = IF u = t THEN "checking" ELSE turn[u].pc
           /\ Started(t, k)[u].conn = turn[u].conn /\ Started(t, k)[u].answer = turn[u].answer
           /\ Started(t, k)[u].stop = IF InFlight(k) # {} /\ u \in InFlight(k) \cup {t} THEN "shared" ELSE turn[u].stop
           /\ u \notin InFlight(k) \cup {t} => Started(t, k)[u] = turn[u]
  <1>1. turn[u] \in TurnRecords
    BY DEF ServiceOK
  <1>2. QED
    BY <1>1 DEF Started, TurnRecords

\* A step of one turn.
LEMMA TurnStepIs ==
    ASSUME ServiceOK, NEW t \in Turns, TurnStep(t)
    PROVE  /\ \A u \in Turns : u # t => turn'[u] = turn[u]
           /\ turn'[t].conn = turn[t].conn
           /\ \/ Asking(t) /\ turn'[t].pc \in {"ended", "opening"} /\ turn'[t].stop = turn[t].stop
              \/ turn[t].pc = "checking" /\ turn'[t].pc = "ended" /\ turn'[t].stop = turn[t].stop
              \/ turn[t].pc = "opening" /\ turn'[t].pc = "prompting" /\ turn'[t].stop = turn[t].stop
              \/ PromptEnds(t) /\ turn[t].pc = "prompting" /\ turn'[t].pc = "persisting" /\ StoppedBy(t, Waiting)
              \/ turn[t].pc = "persisting" /\ turn'[t].pc = "ended" /\ turn'[t].stop = turn[t].stop
  <1>1. CASE Refuse(t) \/ EnterTurn(t)
    BY <1>1, PcIs DEF Refuse, EnterTurn
  <1>2. CASE Deny(t) \/ Prompt(t) \/ Settle(t)
    BY <1>2, PcIs DEF Deny, Prompt, Settle
  <1>3. CASE PromptEnds(t)
    BY <1>3, PromptEndsIs
  <1>4. QED
    BY <1>1, <1>2, <1>3 DEF TurnStep

\* Events that are sent in a step of a turn: its outcome.
LEMMA OutcomeIs ==
    ASSUME NEW t \in Turns, NEW e, Outcome(t, e)
    PROVE  \/ t \in OwnTurns /\ Report(turn[t].conn, e)
           \/ t \in OtherTurns /\ UNCHANGED <<flag, toClient, due>>
  BY DEF Outcome, Turns

-----------------------------------------------------------------------------
(***************************************************************************)
(* The steps, for the turns and their commands.                            *)
(***************************************************************************)
LEMMA SocketStep ==
    ASSUME Socket, [Next]_vars
    PROVE  Socket'
  <1> USE DEF Socket
  <1>1. CASE UNCHANGED <<ws, phase>>
    BY <1>1
  <1>2. ASSUME NEW t \in Turns, TurnStep(t) \/ Send(t) PROVE UNCHANGED <<ws, phase>>
    BY <1>2 DEF TurnStep, Refuse, EnterTurn, Prompt, PromptEnds, Settle, Deny, Send, page
  <1>3. ASSUME NEW c \in Cancels, CancelStep(c) \/ Stop(c) PROVE UNCHANGED <<ws, phase>>
    BY <1>3 DEF CancelStep, CancelMisses, CancelAborts, CancelLate, Stop, page
  <1>4. ASSUME NEW k \in Conns, ConnStep(k) \/ Lose(k) \/ ReceiveStatus(k) \/ ReceiveMessage(k) PROVE UNCHANGED <<ws, phase>>
    BY <1>4 DEF ConnStep, Start, CancelIdle, CancelAsked, SyncAsked, SyncRead, SyncList, Lose, ReceiveStatus, ReceiveMessage, page
  <1>5. CASE LoadRow \/ LoadList \/ NoTicket \/ Closed \/ Retry \/ Reconnect
    BY <1>5 DEF LoadRow, LoadList, NoTicket, Closed, Retry, Reconnect, ScheduleReconnect
  <1>6. ASSUME NEW k \in Conns, Open(k) PROVE Socket'
    BY <1>6, NoneIsNobody DEF Open
  <1>7. CASE UNCHANGED vars
    BY <1>7 DEF vars
  <1>8. QED
    BY <1>1, <1>2, <1>3, <1>4, <1>5, <1>6, <1>7 DEF Next, PageStep

\* A turn.start that a connection takes is that of a turn sent on it.
LEMMA StartIs ==
    ASSUME Sound, Commanded, NEW k \in Conns, Start(k)
    PROVE  /\ toServer[k] # <<>> /\ toServer[k][1].type = "start" /\ 1 \in Starts(k) /\ link[k] = "open"
           /\ toServer[k][1].turn \in OwnTurns /\ toServer[k][1].turn \in Turns
           /\ turn[toServer[k][1].turn].pc = "sent" /\ turn[toServer[k][1].turn].conn = k
           /\ turn' = Started(toServer[k][1].turn, k)
           /\ toServer' = Rest(toServer, k)
  <1>1. toServer[k] # <<>> /\ toServer[k][1].type = "start" /\ link[k] = "open"
    BY DEF Start, HeadIs
  <1>2. toServer[k] \in Seq(Commands)
    BY DEF Sound, ConnOK
  <1>3. 1 \in DOMAIN toServer[k]
    BY <1>1, <1>2
  <1>4. 1 \in Starts(k)
    BY <1>1, <1>3 DEF Starts
  <1>5. QED
    BY <1>1, <1>4 DEF Commanded, Start, Turns

\* Which steps leave the turns alone.
LEMMA TurnsAlone ==
    ASSUME OtherStep
    PROVE  \/ UNCHANGED turn
           \/ \E t \in Turns : Send(t)
           \/ \E k \in Conns : Start(k)
           \/ \E c \in Cancels : CancelLate(c)
  <1>1. ASSUME NEW k \in Conns, CancelIdle(k) \/ CancelAsked(k) \/ SyncAsked(k) \/ SyncRead(k) \/ SyncList(k) \/ Lose(k)
        PROVE  UNCHANGED turn
    BY <1>1 DEF CancelIdle, CancelAsked, SyncAsked, SyncRead, SyncList, Lose, service
  <1>2. ASSUME NEW k \in Conns, Open(k) \/ ReceiveMessage(k) \/ ReceiveStatus(k) PROVE UNCHANGED turn
    BY <1>2 DEF Open, ReceiveMessage, ReceiveStatus, service
  <1>3. ASSUME NEW c \in Cancels, CancelMisses(c) \/ CancelAborts(c) \/ Stop(c) PROVE UNCHANGED turn
    BY <1>3 DEF CancelMisses, CancelAborts, Stop, service
  <1>4. CASE LoadRow \/ LoadList \/ NoTicket \/ Closed \/ Retry \/ Reconnect \/ UNCHANGED vars
    BY <1>4 DEF LoadRow, LoadList, NoTicket, Closed, Retry, Reconnect, service, vars
  <1>5. QED
    BY <1>1, <1>2, <1>3, <1>4 DEF OtherStep, ConnStep, CancelStep, PageStep

LEMMA SendIs ==
    ASSUME Sound, Socket, NEW t \in Turns, Send(t)
    PROVE  /\ t \in OwnTurns /\ turn[t].pc = "idle" /\ ws \in Conns /\ phase = "open"
           /\ \A u \in Turns : u # t => turn'[u] = turn[u]
           /\ turn'[t].pc = "sent" /\ turn'[t].conn = ws /\ turn'[t].stop = turn[t].stop /\ turn'[t].answer = turn[t].answer
           /\ toServer' = Sent(toServer, ws, <<Event("start", {}, t)>>)
           /\ Event("start", {}, t) \in Commands
  <1>1. t \in OwnTurns /\ turn[t].pc = "idle" /\ ws \in Conns /\ phase = "open"
    BY DEF Send, Socket, Sound, PageOK
  <1>2. turn' = [turn EXCEPT ![t].pc = "sent", ![t].conn = ws]
    BY DEF Send
  <1>3. QED
    BY <1>1, <1>2 DEF Sound, ServiceOK, TurnRecords, Send, OwnTurns, Event, Commands

LEMMA BelongsStep ==
    ASSUME Sound, Silent, [Next]_vars
    PROVE  Belongs'
  <1> USE DEF Belongs
  <1>0. ServiceOK /\ Belongs /\ Commanded /\ Socket
    BY DEF Sound, Silent
  <1>1. ASSUME NEW t \in Turns, TurnStep(t) PROVE Belongs'
    <2>1. /\ \A u \in Turns : u # t => turn'[u] = turn[u]
          /\ turn'[t].conn = turn[t].conn
          /\ turn'[t].pc \in {"ended", "opening", "prompting", "persisting"}
          /\ Asking(t) \/ turn[t].pc \in {"checking", "opening", "prompting", "persisting"}
      BY <1>0, <1>1, TurnStepIs
    <2>2. t \in OwnTurns => turn[t].pc # "idle"
      BY <2>1 DEF Asking
    <2>3. QED
      BY <1>0, <2>1, <2>2 DEF Turns
  <1>2. ASSUME NEW t \in Turns, Send(t) PROVE Belongs'
    <2>1. /\ t \in OwnTurns /\ ws \in Conns /\ turn'[t].pc = "sent" /\ turn'[t].conn = ws
          /\ \A u \in Turns : u # t => turn'[u] = turn[u]
      BY <1>0, <1>2, SendIs
    <2>2. \A u \in OtherTurns : turn'[u] = turn[u]
      BY <2>1, NoneIsNobody DEF Turns
    <2>3. \A u \in OwnTurns : u # t => turn'[u] = turn[u]
      BY <2>1 DEF Turns
    <2>4. ASSUME NEW u \in OwnTurns
          PROVE  IF turn'[u].pc = "idle" THEN turn'[u].conn = None ELSE turn'[u].conn \in Conns
      <3>1. CASE u = t
        BY <2>1, <3>1
      <3>2. CASE u # t
        BY <1>0, <2>3, <3>2
      <3>3. QED
        BY <3>1, <3>2
    <2>5. \A u \in OtherTurns : turn'[u].conn = None /\ turn'[u].pc \notin {"sent", "checking"}
      BY <1>0, <2>2
    <2>6. QED
      BY <2>4, <2>5
  <1>3. ASSUME NEW k \in Conns, Start(k) PROVE Belongs'
    <2> DEFINE t == toServer[k][1].turn
    <2>1. t \in OwnTurns /\ turn[t].pc = "sent" /\ turn[t].conn = k /\ turn' = Started(t, k) /\ t \in Turns
      BY <1>0, <1>3, StartIs
    <2> HIDE DEF t
    <2>2. \A u \in Turns : turn'[u].conn = turn[u].conn /\ turn'[u].pc = IF u = t THEN "checking" ELSE turn[u].pc
      BY <1>0, <2>1, StartedIs
    <2>3. t \notin OtherTurns
      BY <2>1, NoneIsNobody
    <2>4. QED
      BY <1>0, <2>1, <2>2, <2>3 DEF Turns
  <1>4. ASSUME NEW c \in Cancels, CancelLate(c) PROVE Belongs'
    <2>1. \A u \in Turns : turn'[u].conn = turn[u].conn /\ turn'[u].pc = turn[u].pc
      BY <1>0, <1>4, CancelLateIs
    <2>2. QED
      BY <1>0, <2>1 DEF Turns
  <1>5. CASE UNCHANGED turn
    BY <1>0, <1>5
  <1>6. QED
    BY <1>1, <1>2, <1>3, <1>4, <1>5, NextSteps, TurnsAlone

LEMMA SharingStep ==
    ASSUME Sound, Silent, [Next]_vars
    PROVE  Sharing'
  <1> USE DEF Sharing, Flying
  <1>0. ServiceOK /\ Belongs /\ Commanded /\ Socket /\ Sharing
    BY DEF Sound, Silent
  <1>1. ASSUME NEW t \in Turns, TurnStep(t) PROVE Sharing'
    <2>1. /\ \A u \in Turns : u # t => turn'[u] = turn[u]
          /\ turn'[t].conn = turn[t].conn
          /\ turn[t].stop = "shared" => turn'[t].stop = "shared"
          /\ Asking(t) \/ turn[t].pc \in {"checking", "opening", "prompting", "persisting"}
      BY <1>0, <1>1, TurnStepIs DEF StoppedBy
    <2>2. t \in OwnTurns => turn[t].pc \notin {"idle", "sent", "ended"}
      BY <2>1 DEF Asking
    <2>3. \A u \in OwnTurns : /\ turn'[u].pc \notin {"idle", "sent", "ended"} => turn[u].pc \notin {"idle", "sent", "ended"}
                              /\ turn'[u].conn = turn[u].conn /\ (turn[u].stop = "shared" => turn'[u].stop = "shared")
      BY <2>1, <2>2 DEF Turns
    <2>4. QED
      BY <1>0, <2>3
  <1>2. ASSUME NEW t \in Turns, Send(t) PROVE Sharing'
    <2>1. \A u \in OwnTurns : turn'[u].pc \notin {"idle", "sent", "ended"} => u # t /\ turn'[u] = turn[u]
      BY <1>0, <1>2, SendIs DEF Turns
    <2>2. QED
      BY <1>0, <2>1
  <1>3. ASSUME NEW k \in Conns, Start(k) PROVE Sharing'
    <2> DEFINE t == toServer[k][1].turn
    <2>1. t \in OwnTurns /\ turn[t].pc = "sent" /\ turn[t].conn = k /\ turn' = Started(t, k) /\ t \in Turns
      BY <1>0, <1>3, StartIs
    <2> HIDE DEF t
    <2>2. \A u \in OwnTurns : turn'[u].conn = turn[u].conn /\ turn'[u].pc = IF u = t THEN "checking" ELSE turn[u].pc
      BY <1>0, <2>1, StartedIs DEF Turns
    <2>3. \A u \in OwnTurns : turn'[u].stop = IF InFlight(k) # {} /\ u \in InFlight(k) \cup {t} THEN "shared" ELSE turn[u].stop
      BY <1>0, <2>1, StartedIs DEF Turns
    <2>4. ASSUME NEW u \in OwnTurns, NEW v \in OwnTurns, u # v,
                 turn'[u].pc \notin {"idle", "sent", "ended"}, turn'[v].pc \notin {"idle", "sent", "ended"},
                 turn'[u].conn = turn'[v].conn
          PROVE  turn'[u].stop = "shared"
      <3>1. CASE turn[u].conn = k
        <4>1. u = t \/ u \in InFlight(k)
          BY <2>2, <2>4, <3>1 DEF InFlight, Turns
        <4>2. v = t \/ v \in InFlight(k)
          BY <2>2, <2>4, <3>1 DEF InFlight, Turns
        <4>3. QED
          BY <2>3, <2>4, <4>1, <4>2
      <3>2. CASE turn[u].conn # k
        <4>1. u # t /\ v # t
          BY <2>1, <2>2, <2>4, <3>2
        <4>2. turn[u].stop = "shared"
          BY <1>0, <2>2, <2>4, <4>1
        <4>3. QED
          BY <2>3, <4>2
      <3>3. QED
        BY <3>1, <3>2
    <2>5. QED
      BY <2>4
  <1>4. ASSUME NEW c \in Cancels, CancelLate(c) PROVE Sharing'
    <2>1. \A u \in OwnTurns : /\ turn'[u].conn = turn[u].conn /\ turn'[u].pc = turn[u].pc
                              /\ turn[u].stop = "shared" => turn'[u].stop = "shared"
      BY <1>0, <1>4, CancelLateIs DEF StoppedBy, Turns
    <2>2. QED
      BY <1>0, <2>1
  <1>5. CASE UNCHANGED turn
    BY <1>0, <1>5
  <1>6. QED
    BY <1>1, <1>2, <1>3, <1>4, <1>5, NextSteps, TurnsAlone

-----------------------------------------------------------------------------
(***************************************************************************)
(* The commands of one connection, and what a step may do to them.         *)
(***************************************************************************)
CommandedOn(k) ==
    \A i \in Starts(k) :
        /\ toServer[k][i].turn \in OwnTurns
        /\ turn[toServer[k][i].turn].pc = "sent" /\ turn[toServer[k][i].turn].conn = k
        /\ \A j \in Starts(k) : toServer[k][i].turn = toServer[k][j].turn => i = j

\* A turn that was sent on a connection has yet to be taken up.
KeptOn(k) ==
    \A t \in OwnTurns :
        turn[t].pc = "sent" /\ turn[t].conn = k => turn'[t].pc = "sent" /\ turn'[t].conn = k

LEMMA SameCommands ==
    ASSUME NEW k \in Conns, CommandedOn(k), KeptOn(k), toServer'[k] = toServer[k]
    PROVE  CommandedOn(k)'
  BY DEF CommandedOn, Starts, KeptOn

LEMMA NoCommands ==
    ASSUME NEW k \in Conns, toServer'[k] = <<>> \/ \E n : toServer'[k] = <<Event("sync", {}, n)>>
    PROVE  CommandedOn(k)'
  <1>1. CASE toServer'[k] = <<>>
    BY <1>1 DEF CommandedOn, Starts
  <1>2. ASSUME NEW n, toServer'[k] = <<Event("sync", {}, n)>> PROVE CommandedOn(k)'
    <2>1. DOMAIN toServer'[k] = {1} /\ toServer'[k][1].type = "sync"
      BY <1>2 DEF Event
    <2>2. QED
      BY <2>1 DEF CommandedOn, Starts
  <1>3. QED
    BY <1>1, <1>2

LEMMA RestCommands ==
    ASSUME ConnOK, NEW k \in Conns, toServer[k] # <<>>, toServer' = Rest(toServer, k)
    PROVE  /\ \A j \in Conns : j # k => toServer'[j] = toServer[j]
           /\ toServer'[k] \in Seq(Commands) /\ toServer[k] \in Seq(Commands)
           /\ Len(toServer[k]) \in Nat \ {0} /\ Len(toServer'[k]) = Len(toServer[k]) - 1
           /\ \A i \in 1 .. Len(toServer[k]) - 1 : toServer'[k][i] = toServer[k][i + 1]
  <1>1. toServer \in [Conns -> Seq(Commands)]
    BY DEF ConnOK
  <1>2. Rest(toServer, k) \in [Conns -> Seq(Commands)]
    BY <1>1, RestTyped
  <1> DEFINE q == Rest(toServer, k)
  <1>3. /\ \A j \in Conns : j # k => q[j] = toServer[j]
        /\ Len(toServer[k]) \in Nat \ {0} /\ Len(q[k]) = Len(toServer[k]) - 1
        /\ \A i \in 1 .. Len(toServer[k]) - 1 : q[k][i] = toServer[k][i + 1]
    BY <1>1, RestIs
  <1>4. q[k] \in Seq(Commands) /\ toServer[k] \in Seq(Commands)
    BY <1>1, <1>2
  <1> HIDE DEF q
  <1>5. toServer' = q
    BY DEF q
  <1>6. QED
    BY <1>3, <1>4, <1>5

LEMMA SentCommands ==
    ASSUME ConnOK, NEW k \in Conns, NEW e \in Commands, toServer' = Sent(toServer, k, <<e>>)
    PROVE  /\ \A j \in Conns : j # k => toServer'[j] = toServer[j]
           /\ toServer'[k] \in Seq(Commands) /\ toServer[k] \in Seq(Commands)
           /\ link[k] # "open" => toServer' = toServer
           /\ link[k] = "open" =>
                 /\ Len(toServer[k]) \in Nat /\ Len(toServer'[k]) = Len(toServer[k]) + 1
                 /\ toServer'[k][Len(toServer[k]) + 1] = e
                 /\ \A i \in 1 .. Len(toServer[k]) : toServer'[k][i] = toServer[k][i]
  <1>1. toServer \in [Conns -> Seq(Commands)]
    BY DEF ConnOK
  <1> DEFINE q == Sent(toServer, k, <<e>>)
  <1>2. /\ q \in [Conns -> Seq(Commands)] /\ \A j \in Conns : j # k => q[j] = toServer[j]
        /\ link[k] # "open" => q = toServer
        /\ link[k] = "open" =>
              /\ Len(toServer[k]) \in Nat /\ Len(q[k]) = Len(toServer[k]) + 1
              /\ q[k][Len(toServer[k]) + 1] = e
              /\ \A i \in 1 .. Len(toServer[k]) : q[k][i] = toServer[k][i]
    BY <1>1, SentIs
  <1>3. q[k] \in Seq(Commands) /\ toServer[k] \in Seq(Commands)
    BY <1>1, <1>2
  <1> HIDE DEF q
  <1>4. toServer' = q
    BY DEF q
  <1>5. QED
    BY <1>2, <1>3, <1>4

LEMMA OneCommandLess ==
    ASSUME NEW k \in Conns, CommandedOn(k), ConnOK, toServer[k] # <<>>, toServer' = Rest(toServer, k),
           \A i \in Starts(k) : i # 1 => /\ turn'[toServer[k][i].turn].pc = "sent"
                                         /\ turn'[toServer[k][i].turn].conn = k
    PROVE  CommandedOn(k)'
  <1>1. /\ Len(toServer[k]) \in Nat \ {0} /\ Len(toServer'[k]) = Len(toServer[k]) - 1
        /\ \A i \in 1 .. Len(toServer[k]) - 1 : toServer'[k][i] = toServer[k][i + 1]
        /\ toServer'[k] \in Seq(Commands) /\ toServer[k] \in Seq(Commands)
    BY RestCommands
  <1>2. ASSUME NEW i \in DOMAIN toServer'[k], toServer'[k][i].type = "start"
        PROVE  i \in Nat \ {0} /\ i + 1 \in Starts(k) /\ i + 1 # 1 /\ toServer'[k][i] = toServer[k][i + 1]
    <2>1. i \in 1 .. Len(toServer[k]) - 1 /\ DOMAIN toServer[k] = 1 .. Len(toServer[k])
      BY <1>1, <1>2
    <2>2. i + 1 \in DOMAIN toServer[k] /\ toServer'[k][i] = toServer[k][i + 1]
      BY <1>1, <2>1
    <2>3. QED
      BY <1>2, <2>1, <2>2 DEF Starts
  <1>3. ASSUME NEW i \in DOMAIN toServer'[k], toServer'[k][i].type = "start"
        PROVE  /\ toServer'[k][i].turn \in OwnTurns
               /\ turn'[toServer'[k][i].turn].pc = "sent" /\ turn'[toServer'[k][i].turn].conn = k
               /\ \A j \in DOMAIN toServer'[k] :
                     toServer'[k][j].type = "start" /\ toServer'[k][i].turn = toServer'[k][j].turn => i = j
    <2>1. i \in Nat \ {0} /\ i + 1 \in Starts(k) /\ i + 1 # 1 /\ toServer'[k][i] = toServer[k][i + 1]
      BY <1>2, <1>3
    <2>2. ASSUME NEW j \in DOMAIN toServer'[k], toServer'[k][j].type = "start", toServer'[k][i].turn = toServer'[k][j].turn
          PROVE  i = j
      <3>1. j \in Nat \ {0} /\ j + 1 \in Starts(k) /\ toServer'[k][j] = toServer[k][j + 1]
        BY <1>2, <2>2
      <3>2. i + 1 = j + 1
        BY <2>1, <2>2, <3>1 DEF CommandedOn
      <3>3. QED
        BY <2>1, <3>1, <3>2
    <2>3. toServer[k][i + 1].turn \in OwnTurns
      BY <2>1 DEF CommandedOn
    <2>4. QED
      BY <2>1, <2>2, <2>3
  <1>4. QED
    BY <1>3 DEF CommandedOn, Starts

LEMMA OneCommandMore ==
    ASSUME NEW k \in Conns, CommandedOn(k), ConnOK, NEW e \in Commands, toServer' = Sent(toServer, k, <<e>>), KeptOn(k),
           e.type = "start" => /\ e.turn \in OwnTurns /\ turn[e.turn].pc # "sent"
                               /\ turn'[e.turn].pc = "sent" /\ turn'[e.turn].conn = k
    PROVE  CommandedOn(k)'
  <1>1. CASE link[k] # "open"
    <2>1. toServer' = toServer
      BY <1>1, SentCommands
    <2>2. QED
      BY <2>1, SameCommands
  <1>2. CASE link[k] = "open"
    <2>1. /\ Len(toServer[k]) \in Nat /\ Len(toServer'[k]) = Len(toServer[k]) + 1
          /\ toServer'[k][Len(toServer[k]) + 1] = e
          /\ \A i \in 1 .. Len(toServer[k]) : toServer'[k][i] = toServer[k][i]
          /\ toServer'[k] \in Seq(Commands) /\ toServer[k] \in Seq(Commands)
      BY <1>2, SentCommands
    <2> DEFINE n == Len(toServer[k]) + 1
    <2>2. DOMAIN toServer'[k] = 1 .. n /\ DOMAIN toServer[k] = 1 .. Len(toServer[k])
      BY <2>1
    <2>3. toServer'[k][n] = e /\ \A i \in DOMAIN toServer'[k] : i = n \/ (i \in DOMAIN toServer[k] /\ toServer'[k][i] = toServer[k][i])
      BY <2>1, <2>2
    <2> HIDE DEF n
    <2>4. ASSUME NEW i \in Starts(k)
          PROVE  /\ toServer[k][i].turn \in OwnTurns /\ turn[toServer[k][i].turn].pc = "sent"
                 /\ turn'[toServer[k][i].turn].pc = "sent" /\ turn'[toServer[k][i].turn].conn = k
      BY DEF CommandedOn, KeptOn
    <2>5. ASSUME NEW i \in DOMAIN toServer'[k], toServer'[k][i].type = "start"
          PROVE  /\ toServer'[k][i].turn \in OwnTurns
                 /\ turn'[toServer'[k][i].turn].pc = "sent" /\ turn'[toServer'[k][i].turn].conn = k
                 /\ \A j \in DOMAIN toServer'[k] :
                       toServer'[k][j].type = "start" /\ toServer'[k][i].turn = toServer'[k][j].turn => i = j
      <3>1. CASE i = n
        <4>1. ASSUME NEW j \in DOMAIN toServer'[k], toServer'[k][j].type = "start", j # n
              PROVE  toServer'[k][j].turn # e.turn
          <5>1. j \in Starts(k) /\ toServer'[k][j] = toServer[k][j]
            BY <2>3, <4>1 DEF Starts
          <5>2. QED
            BY <2>3, <2>4, <2>5, <3>1, <5>1
        <4>2. QED
          BY <2>3, <2>5, <3>1, <4>1
      <3>2. CASE i # n
        <4>1. i \in Starts(k) /\ toServer'[k][i] = toServer[k][i]
          BY <2>3, <2>5, <3>2 DEF Starts
        <4>2. ASSUME NEW j \in DOMAIN toServer'[k], toServer'[k][j].type = "start", toServer'[k][i].turn = toServer'[k][j].turn
              PROVE  i = j
          <5>1. j # n
            BY <2>3, <2>4, <4>1, <4>2
          <5>2. j \in Starts(k) /\ toServer'[k][j] = toServer[k][j]
            BY <2>3, <4>2, <5>1 DEF Starts
          <5>3. QED
            BY <4>1, <4>2, <5>2 DEF CommandedOn
        <4>3. QED
          BY <2>4, <4>1, <4>2
      <3>3. QED
        BY <3>1, <3>2
    <2>6. QED
      BY <2>5 DEF CommandedOn, Starts
  <1>3. QED
    BY <1>1, <1>2

LEMMA CommandedStep ==
    ASSUME Sound, Silent, [Next]_vars
    PROVE  Commanded'
  <1>0. ServiceOK /\ ConnOK /\ PageOK /\ Belongs /\ Commanded /\ Socket
    BY DEF Sound, Silent
  <1> SUFFICES ASSUME NEW k \in Conns PROVE CommandedOn(k)'
    BY DEF Commanded, CommandedOn
  <1>a. \A j \in Conns : CommandedOn(j)
    BY <1>0 DEF Commanded, CommandedOn
  <1>b. UNCHANGED turn => \A j \in Conns : KeptOn(j)
    BY DEF KeptOn
  <1>1. ASSUME NEW t \in Turns, TurnStep(t) PROVE CommandedOn(k)'
    <2>1. UNCHANGED toServer
      BY <1>1 DEF TurnStep, Refuse, EnterTurn, Prompt, PromptEnds, Settle, Deny, net
    <2>2. /\ \A u \in Turns : u # t => turn'[u] = turn[u]
          /\ Asking(t) \/ turn[t].pc \in {"checking", "opening", "prompting", "persisting"}
      BY <1>0, <1>1, TurnStepIs
    <2>3. turn[t].pc # "sent"
      BY <2>2 DEF Asking
    <2>4. KeptOn(k)
      BY <2>2, <2>3 DEF KeptOn, Turns
    <2>5. QED
      BY <1>a, <2>1, <2>4, SameCommands
  <1>2. ASSUME NEW t \in Turns, Send(t) PROVE CommandedOn(k)'
    <2>1. /\ t \in OwnTurns /\ turn[t].pc = "idle" /\ ws \in Conns
          /\ \A u \in Turns : u # t => turn'[u] = turn[u]
          /\ turn'[t].pc = "sent" /\ turn'[t].conn = ws
          /\ toServer' = Sent(toServer, ws, <<Event("start", {}, t)>>)
          /\ Event("start", {}, t) \in Commands
      BY <1>0, <1>2, SendIs
    <2>2. KeptOn(k)
      BY <2>1 DEF KeptOn, Turns
    <2>3. CASE k = ws
      BY <1>0, <1>a, <2>1, <2>2, <2>3, OneCommandMore DEF Event
    <2>4. CASE k # ws
      <3>1. toServer'[k] = toServer[k]
        BY <1>0, <2>1, <2>4, SentCommands
      <3>2. QED
        BY <1>a, <2>2, <3>1, SameCommands
    <2>5. QED
      BY <2>3, <2>4
  <1>3. ASSUME NEW j \in Conns, Start(j) PROVE CommandedOn(k)'
    <2> DEFINE t == toServer[j][1].turn
    <2>1. /\ toServer[j] # <<>> /\ 1 \in Starts(j) /\ t \in OwnTurns /\ turn[t].pc = "sent" /\ turn[t].conn = j
          /\ turn' = Started(t, j) /\ t \in Turns /\ toServer' = Rest(toServer, j)
      BY <1>0, <1>3, StartIs DEF Sound
    <2>2. ASSUME NEW i \in Starts(j), i # 1 PROVE toServer[j][i].turn # t
      BY <1>a, <2>1, <2>2 DEF CommandedOn
    <2> HIDE DEF t
    <2>3. \A u \in OwnTurns : turn'[u].conn = turn[u].conn /\ turn'[u].pc = IF u = t THEN "checking" ELSE turn[u].pc
      BY <1>0, <2>1, StartedIs DEF Turns
    <2>4. CASE k = j
      <3>1. \A i \in Starts(j) : i # 1 => turn'[toServer[j][i].turn].pc = "sent" /\ turn'[toServer[j][i].turn].conn = j
        BY <1>a, <2>2, <2>3 DEF CommandedOn
      <3>2. QED
        BY <1>0, <1>a, <2>1, <2>4, <3>1, OneCommandLess
    <2>5. CASE k # j
      <3>1. toServer'[k] = toServer[k]
        BY <1>0, <2>1, <2>5, RestCommands
      <3>2. KeptOn(k)
        BY <2>1, <2>3, <2>5 DEF KeptOn
      <3>3. QED
        BY <1>a, <3>1, <3>2, SameCommands
    <2>6. QED
      BY <2>4, <2>5
  <1>4. ASSUME NEW c \in Cancels, CancelStep(c) PROVE CommandedOn(k)'
    <2>1. UNCHANGED toServer
      BY <1>4 DEF CancelStep, CancelMisses, CancelAborts, CancelLate, net
    <2>2. CASE UNCHANGED turn
      BY <1>a, <1>b, <2>1, <2>2, SameCommands
    <2>3. CASE CancelLate(c)
      <3>1. \A u \in Turns : turn'[u].conn = turn[u].conn /\ turn'[u].pc = turn[u].pc
        BY <1>0, <2>3, CancelLateIs
      <3>2. KeptOn(k)
        BY <3>1 DEF KeptOn, Turns
      <3>3. QED
        BY <1>a, <2>1, <3>2, SameCommands
    <2>4. QED
      BY <1>4, <2>2, <2>3 DEF CancelStep, CancelMisses, CancelAborts, service
  <1>5. ASSUME NEW c \in Cancels, Stop(c) PROVE CommandedOn(k)'
    <2>1. /\ ws \in Conns /\ toServer' = Sent(toServer, ws, <<Event("cancel", {}, c)>>) /\ UNCHANGED turn
          /\ Event("cancel", {}, c) \in Commands
      BY <1>0, <1>5 DEF Stop, service, Socket, PageOK, Event, Commands, Cancels
    <2>2. CASE k = ws
      BY <1>0, <1>a, <1>b, <2>1, <2>2, OneCommandMore DEF Event
    <2>3. CASE k # ws
      <3>1. toServer'[k] = toServer[k]
        BY <1>0, <2>1, <2>3, SentCommands
      <3>2. QED
        BY <1>a, <1>b, <2>1, <3>1, SameCommands
    <2>4. QED
      BY <2>2, <2>3
  <1>6. ASSUME NEW j \in Conns, CancelIdle(j) \/ CancelAsked(j) \/ SyncAsked(j) PROVE CommandedOn(k)'
    <2>1. toServer[j] # <<>> /\ toServer[j][1].type # "start" /\ toServer' = Rest(toServer, j) /\ UNCHANGED turn
      BY <1>6 DEF CancelIdle, CancelAsked, SyncAsked, HeadIs, service
    <2>2. CASE k = j
      <3>1. \A i \in Starts(k) : turn'[toServer[k][i].turn].pc = "sent" /\ turn'[toServer[k][i].turn].conn = k
        BY <1>a, <2>1 DEF CommandedOn
      <3>2. QED
        BY <1>0, <1>a, <2>1, <2>2, <3>1, OneCommandLess
    <2>3. CASE k # j
      <3>1. toServer'[k] = toServer[k]
        BY <1>0, <2>1, <2>3, RestCommands
      <3>2. QED
        BY <1>a, <1>b, <2>1, <3>1, SameCommands
    <2>4. QED
      BY <2>2, <2>3
  <1>7. ASSUME NEW j \in Conns, SyncRead(j) \/ SyncList(j) \/ ReceiveMessage(j) \/ ReceiveStatus(j) PROVE CommandedOn(k)'
    <2>1. UNCHANGED <<toServer, turn>>
      BY <1>7 DEF SyncRead, SyncList, ReceiveMessage, ReceiveStatus, service, net
    <2>2. QED
      BY <1>a, <1>b, <2>1, SameCommands
  <1>8. ASSUME NEW j \in Conns, Lose(j) \/ Open(j) PROVE CommandedOn(k)'
    <2>1. UNCHANGED turn
      BY <1>8 DEF Lose, Open, service
    <2>2. toServer'[j] = <<>> \/ \E n : toServer'[j] = <<Event("sync", {}, n)>>
      BY <1>0, <1>8 DEF Lose, Open, ConnOK
    <2>3. k # j => toServer'[k] = toServer[k]
      BY <1>0, <1>8 DEF Lose, Open, ConnOK
    <2>4. QED
      BY <1>a, <1>b, <2>1, <2>2, <2>3, SameCommands, NoCommands
  <1>9. CASE LoadRow \/ LoadList \/ NoTicket \/ Closed \/ Retry \/ Reconnect \/ UNCHANGED vars
    <2>1. UNCHANGED <<toServer, turn>>
      BY <1>9 DEF LoadRow, LoadList, NoTicket, Closed, Retry, Reconnect, service, net, vars
    <2>2. QED
      BY <1>a, <1>b, <2>1, SameCommands
  <1>10. QED
    BY <1>1, <1>2, <1>3, <1>4, <1>5, <1>6, <1>7, <1>8, <1>9 DEF Next, ConnStep, PageStep

-----------------------------------------------------------------------------
(***************************************************************************)
(* The flags.  A step raises them with a confirmed cancel; it clears one   *)
(* with the outcome of a turn, or when a turn starts.                      *)
(***************************************************************************)
LEMMA FlagRaised ==
    ASSUME NEW cs, Confirm(cs), NEW k \in Conns
    PROVE  flag[k] \/ k \in {cancel[c].conn : c \in cs} => flag'[k]
  BY DEF Confirm

LEMMA FlagsAlone ==
    ASSUME OtherStep
    PROVE  UNCHANGED flag \/ (\E k \in Conns : Start(k)) \/ (\E c \in Cancels : CancelLate(c))
  <1>1. ASSUME NEW k \in Conns, CancelIdle(k) \/ CancelAsked(k) \/ SyncAsked(k) \/ SyncRead(k) \/ SyncList(k) \/ Lose(k)
        PROVE  UNCHANGED flag
    BY <1>1 DEF CancelIdle, CancelAsked, SyncAsked, SyncRead, SyncList, Lose, server
  <1>2. ASSUME NEW k \in Conns, Open(k) \/ ReceiveMessage(k) \/ ReceiveStatus(k) PROVE UNCHANGED flag
    BY <1>2 DEF Open, ReceiveMessage, ReceiveStatus, server
  <1>3. ASSUME NEW c \in Cancels, CancelMisses(c) \/ CancelAborts(c) \/ Stop(c) PROVE UNCHANGED flag
    BY <1>3 DEF CancelMisses, CancelAborts, Stop
  <1>4. CASE LoadRow \/ LoadList \/ NoTicket \/ Closed \/ Retry \/ Reconnect \/ UNCHANGED vars
    BY <1>4 DEF LoadRow, LoadList, NoTicket, Closed, Retry, Reconnect, server, vars
  <1>5. ASSUME NEW t \in Turns, Send(t) PROVE UNCHANGED flag
    BY <1>5 DEF Send, server
  <1>6. QED
    BY <1>1, <1>2, <1>3, <1>4, <1>5 DEF OtherStep, ConnStep, CancelStep, PageStep

\* A turn that ends leaves the flag of every other stopped turn alone.
LEMMA OutcomeFlags ==
    ASSUME Sound, Silent, NEW t \in Turns, Refuse(t) \/ Deny(t) \/ Settle(t),
           NEW u \in OwnTurns, u # t, turn[u].stop = "stopped", turn[u].pc = "persisting"
    PROVE  flag'[turn[u].conn] = flag[turn[u].conn]
  <1>1. t \in OwnTurns => turn[t].pc \in {"checking", "persisting"}
    BY DEF Refuse, Deny, Settle, Asking
  <1>2. t \in OwnTurns => turn[t].conn # turn[u].conn
    BY <1>1 DEF Silent, Sharing, Flying
  <1>3. UNCHANGED flag \/ (t \in OwnTurns /\ flag' = [flag EXCEPT ![turn[t].conn] = FALSE])
    BY DEF Refuse, Deny, Settle, Outcome, Report, ReportIgnoringFlag
  <1>4. turn[u].conn \in Conns
    BY DEF Silent, Belongs
  <1>5. QED
    BY <1>2, <1>3, <1>4 DEF Sound, ConnOK

LEMMA FlaggedStep ==
    ASSUME Sound, Silent, [Next]_vars
    PROVE  Flagged'
  <1>0. ServiceOK /\ ConnOK /\ Belongs /\ Commanded /\ Socket /\ Flagged
    BY DEF Sound, Silent
  <1> SUFFICES ASSUME NEW u \in OwnTurns, turn'[u].stop = "stopped"
               PROVE  turn'[u].pc = "ended" \/ (turn'[u].pc = "persisting" /\ flag'[turn'[u].conn])
    BY DEF Flagged
  <1>a. u \in Turns
    BY DEF Turns
  <1>b. turn[u].stop = "stopped" => turn[u].pc = "ended" \/ (turn[u].pc = "persisting" /\ flag[turn[u].conn])
    BY <1>0 DEF Flagged
  <1>c. turn[u].pc # "idle" => turn[u].conn \in Conns
    BY <1>0 DEF Belongs
  <1>1. ASSUME NEW t \in Turns, Refuse(t) \/ Deny(t) \/ Settle(t)
        PROVE  turn'[u].pc = "ended" \/ (turn'[u].pc = "persisting" /\ flag'[turn'[u].conn])
    <2>1. turn' = Pc(t, "ended")
      BY <1>1 DEF Refuse, Deny, Settle
    <2>2. CASE u = t
      BY <1>0, <2>1, <2>2, PcIs
    <2>3. CASE u # t
      <3>1. turn'[u] = turn[u]
        BY <1>0, <1>a, <2>1, <2>3, PcIs
      <3>2. QED
        BY <1>1, <1>b, <2>3, <3>1, OutcomeFlags
    <2>4. QED
      BY <2>2, <2>3
  <1>2. ASSUME NEW t \in Turns, EnterTurn(t) \/ Prompt(t)
        PROVE  turn'[u].pc = "ended" \/ (turn'[u].pc = "persisting" /\ flag'[turn'[u].conn])
    <2>1. UNCHANGED flag /\ \E pc : turn' = Pc(t, pc)
      BY <1>2 DEF EnterTurn, Prompt, server
    <2>2. t \in OwnTurns => turn[t].pc \in {"checking", "opening"}
      BY <1>2 DEF EnterTurn, Prompt, Asking
    <2>3. CASE u = t
      <3>1. turn'[u].stop = turn[u].stop
        BY <1>0, <1>a, <2>1, <2>3, PcIs
      <3>2. QED
        BY <1>b, <2>2, <2>3, <3>1
    <2>4. CASE u # t
      <3>1. turn'[u] = turn[u]
        BY <1>0, <1>a, <2>1, <2>4, PcIs
      <3>2. QED
        BY <1>b, <2>1, <3>1
    <2>5. QED
      BY <2>3, <2>4
  <1>3. ASSUME NEW t \in Turns, PromptEnds(t)
        PROVE  turn'[u].pc = "ended" \/ (turn'[u].pc = "persisting" /\ flag'[turn'[u].conn])
    <2>1. Confirm(Waiting)
      BY <1>3 DEF PromptEnds, Waiting
    <2>2. /\ \A v \in Turns : v # t => turn'[v] = turn[v]
          /\ turn[t].pc = "prompting" /\ turn'[t].pc = "persisting" /\ turn'[t].conn = turn[t].conn /\ StoppedBy(t, Waiting)
      BY <1>0, <1>3, PromptEndsIs
    <2>3. CASE u = t
      <3>1. Hit(u, Waiting)
        BY <1>b, <2>2, <2>3 DEF StoppedBy
      <3>2. flag'[turn[u].conn]
        BY <1>c, <2>1, <2>2, <2>3, <3>1, FlagRaised DEF Hit
      <3>3. QED
        BY <2>2, <2>3, <3>2
    <2>4. CASE u # t
      <3>1. turn'[u] = turn[u]
        BY <1>a, <2>2, <2>4
      <3>2. CASE turn[u].pc = "ended"
        BY <3>1, <3>2
      <3>3. CASE turn[u].pc = "persisting" /\ flag[turn[u].conn]
        BY <1>c, <2>1, <3>1, <3>3, FlagRaised
      <3>4. QED
        BY <1>b, <3>1, <3>2, <3>3
    <2>5. QED
      BY <2>3, <2>4
  <1>4. ASSUME NEW t \in Turns, Send(t)
        PROVE  turn'[u].pc = "ended" \/ (turn'[u].pc = "persisting" /\ flag'[turn'[u].conn])
    <2>1. /\ turn[t].pc = "idle" /\ turn'[t].stop = turn[t].stop
          /\ \A v \in Turns : v # t => turn'[v] = turn[v]
      BY <1>0, <1>4, SendIs DEF Sound
    <2>2. UNCHANGED flag
      BY <1>4 DEF Send, server
    <2>3. u # t
      BY <1>b, <2>1
    <2>4. QED
      BY <1>a, <1>b, <2>1, <2>2, <2>3
  <1>5. ASSUME NEW k \in Conns, Start(k)
        PROVE  turn'[u].pc = "ended" \/ (turn'[u].pc = "persisting" /\ flag'[turn'[u].conn])
    <2> DEFINE t == toServer[k][1].turn
    <2>1. t \in OwnTurns /\ turn[t].pc = "sent" /\ turn[t].conn = k /\ turn' = Started(t, k) /\ t \in Turns
      BY <1>0, <1>5, StartIs DEF Sound
    <2> HIDE DEF t
    <2>2. flag' = [flag EXCEPT ![k] = FALSE]
      BY <1>5 DEF Start
    <2>3. /\ u \notin InFlight(k) /\ turn[u].stop = "stopped"
      <3>1. turn'[u].stop = IF InFlight(k) # {} /\ u \in InFlight(k) \cup {t} THEN "shared" ELSE turn[u].stop
        BY <1>0, <1>a, <2>1, StartedIs
      <3>2. QED
        BY <3>1
    <2>4. u # t
      BY <1>b, <2>1, <2>3
    <2>5. turn'[u] = turn[u]
      BY <1>0, <1>a, <2>1, <2>3, <2>4, StartedIs
    <2>6. CASE turn[u].pc = "ended"
      BY <2>5, <2>6
    <2>7. CASE turn[u].pc = "persisting" /\ flag[turn[u].conn]
      <3>1. turn[u].conn # k
        BY <1>a, <2>3, <2>7 DEF InFlight
      <3>2. flag'[turn[u].conn] = flag[turn[u].conn]
        BY <1>0, <1>c, <2>2, <2>7, <3>1 DEF ConnOK
      <3>3. QED
        BY <2>5, <2>7, <3>2
    <2>8. QED
      BY <1>b, <2>3, <2>6, <2>7
  <1>6. ASSUME NEW c \in Cancels, CancelLate(c)
        PROVE  turn'[u].pc = "ended" \/ (turn'[u].pc = "persisting" /\ flag'[turn'[u].conn])
    <2>1. Confirm({c})
      BY <1>6 DEF CancelLate
    <2>2. /\ turn[running].pc = "persisting"
          /\ \A v \in Turns : v # running => turn'[v] = turn[v]
          /\ turn'[running].pc = "persisting" /\ turn'[running].conn = turn[running].conn
          /\ StoppedBy(running, {c})
      BY <1>0, <1>6, CancelLateIs
    <2>3. /\ turn'[u].pc = turn[u].pc /\ turn'[u].conn = turn[u].conn
      BY <1>a, <2>2
    <2>4. turn[u].stop = "stopped" \/ (u = running /\ Hit(u, {c}))
      BY <1>a, <2>2 DEF StoppedBy
    <2>5. CASE turn[u].stop = "stopped" /\ turn[u].pc = "ended"
      BY <2>3, <2>5
    <2>6. CASE turn[u].stop = "stopped" /\ turn[u].pc = "persisting" /\ flag[turn[u].conn]
      BY <1>c, <2>1, <2>3, <2>6, FlagRaised
    <2>7. CASE u = running /\ Hit(u, {c})
      BY <1>c, <2>1, <2>2, <2>3, <2>7, FlagRaised DEF Hit
    <2>8. QED
      BY <1>b, <2>4, <2>5, <2>6, <2>7
  <1>7. CASE UNCHANGED <<turn, flag>>
    BY <1>7, <1>b
  <1>8. QED
    BY <1>1, <1>2, <1>3, <1>4, <1>5, <1>6, <1>7, NextSteps, TurnsAlone, FlagsAlone DEF TurnStep

-----------------------------------------------------------------------------
(***************************************************************************)
(* What is on its way to the page.                                         *)
(***************************************************************************)
\* A turn that has ended without being stopped stays so.
LEMMA EndedKept ==
    ASSUME Sound, Silent, [Next]_vars, NEW u \in Turns, turn[u].pc = "ended", turn[u].stop # "stopped"
    PROVE  turn'[u].pc = "ended" /\ turn'[u].stop # "stopped"
  <1>0. ServiceOK /\ ConnOK /\ Belongs /\ Commanded /\ Socket
    BY DEF Sound, Silent
  <1>1. ASSUME NEW t \in Turns, TurnStep(t) PROVE turn'[u].pc = "ended" /\ turn'[u].stop # "stopped"
    <2>1. /\ \A v \in Turns : v # t => turn'[v] = turn[v]
          /\ Asking(t) \/ turn[t].pc \in {"checking", "opening", "prompting", "persisting"}
      BY <1>0, <1>1, TurnStepIs
    <2>2. u # t
      BY <2>1 DEF Asking
    <2>3. QED
      BY <2>1, <2>2
  <1>2. ASSUME NEW t \in Turns, Send(t) PROVE turn'[u].pc = "ended" /\ turn'[u].stop # "stopped"
    BY <1>0, <1>2, SendIs
  <1>3. ASSUME NEW k \in Conns, Start(k) PROVE turn'[u].pc = "ended" /\ turn'[u].stop # "stopped"
    <2> DEFINE t == toServer[k][1].turn
    <2>1. t \in Turns /\ turn[t].pc = "sent" /\ turn' = Started(t, k)
      BY <1>0, <1>3, StartIs
    <2> HIDE DEF t
    <2>2. turn'[u].pc = IF u = t THEN "checking" ELSE turn[u].pc
      BY <1>0, <2>1, StartedIs
    <2>3. turn'[u].stop = IF InFlight(k) # {} /\ u \in InFlight(k) \cup {t} THEN "shared" ELSE turn[u].stop
      BY <1>0, <2>1, StartedIs
    <2>4. QED
      BY <2>1, <2>2, <2>3
  <1>4. ASSUME NEW c \in Cancels, CancelLate(c) PROVE turn'[u].pc = "ended" /\ turn'[u].stop # "stopped"
    BY <1>0, <1>4, CancelLateIs
  <1>5. QED
    BY <1>1, <1>2, <1>3, <1>4, NextSteps, TurnsAlone

LEMMA AllowedGrows ==
    ASSUME Sound, Silent, [Next]_vars
    PROVE  Allowed \subseteq Allowed'
  <1>1. Events \subseteq Events'
    BY EventsGrow, ServiceStep DEF Sound, ServiceOK, ConnOK, PageOK
  <1>2. \A u \in Turns : turn[u].pc = "ended" /\ turn[u].stop # "stopped" => turn'[u].pc = "ended" /\ turn'[u].stop # "stopped"
    BY EndedKept
  <1>3. QED
    BY <1>1, <1>2 DEF Allowed

LEMMA AllowedStep ==
    ASSUME Sound, Silent, [Next]_vars
    PROVE  toClient' \in [Conns -> Seq(Allowed')]
  <1>0. ServiceOK /\ ConnOK /\ PageOK /\ Belongs /\ Commanded /\ Socket /\ Flagged /\ toClient \in [Conns -> Seq(Allowed)]
    BY DEF Sound, Silent
  <1>a. Allowed \subseteq Allowed'
    BY AllowedGrows
  <1>b. toClient \in [Conns -> Seq(Allowed')]
    BY <1>0, <1>a, MoreTyped
  <1>c. Events \subseteq Events'
    BY <1>0, EventsGrow, ServiceStep DEF ServiceOK, ConnOK, PageOK
  <1>d. Event("cancelled", {}, None) \in Allowed' /\ Event("failed", {}, None) \in Allowed'
    <2>1. Event("cancelled", {}, None) \in Events /\ Event("failed", {}, None) \in Events
      BY EventTyped
    <2>2. None \notin Turns
      BY NoneIsNobody
    <2>3. QED
      BY <1>c, <2>1, <2>2 DEF Allowed, Event
  <1>e. flag \in [Conns -> BOOLEAN] /\ cancel \in [Cancels -> CancelRecords]
    BY <1>0 DEF ConnOK
  <1>1. ASSUME NEW t \in Turns, Refuse(t) \/ Deny(t) \/ Settle(t) PROVE toClient' \in [Conns -> Seq(Allowed')]
    <2>1. turn' = Pc(t, "ended")
      BY <1>1 DEF Refuse, Deny, Settle
    <2>2. turn'[t].pc = "ended" /\ turn'[t].stop = turn[t].stop
      BY <1>0, <2>1, PcIs
    <2>3. PICK e \in Events : /\ e.turn = t
                              /\ Outcome(t, e) \/ ReportIgnoringFlag(turn[t].conn, e)
                              /\ Settle(t) => Outcome(t, e)
      <3>0. t \in Nat \cup OtherTurns \cup {None}
        BY DEF Turns, OwnTurns
      <3>1. Event("failed", {}, t) \in Events /\ Event("failed", {}, t).turn = t
        BY <3>0, EventTyped DEF Event
      <3>2. turn[t].answer > 0 => turn[t].answer \in Answers
        BY <1>0 DEF ServiceOK
      <3>3. turn[t].answer > 0 => Event("completed", {turn[t].answer}, t) \in Events
        BY <3>0, <3>2, EventTyped
      <3>4. Event("completed", {turn[t].answer}, t).turn = t
        BY DEF Event
      <3>5. CASE Settle(t)
        BY <3>1, <3>3, <3>4, <3>5 DEF Settle
      <3>6. CASE (Refuse(t) \/ Deny(t)) /\ ~Settle(t)
        BY <3>1, <3>6 DEF Refuse, Deny
      <3>7. QED
        BY <1>1, <3>5, <3>6
    <2>4. CASE turn[t].stop # "stopped"
      <3>1. e \in Allowed'
        BY <1>c, <2>2, <2>3, <2>4 DEF Allowed
      <3>2. QED
        BY <1>b, <1>e, <2>3, <3>1, ReportTyped DEF Outcome
    <2>5. CASE turn[t].stop = "stopped" /\ t \in OwnTurns
      <3>1. turn[t].pc = "persisting" /\ flag[turn[t].conn]
        BY <1>0, <1>1, <2>5 DEF Flagged, Refuse, Deny, Settle, Asking
      <3>2. Settle(t)
        BY <1>1, <2>5, <3>1 DEF Refuse, Deny, Asking
      <3>3. Report(turn[t].conn, e)
        BY <2>3, <2>5, <3>2 DEF Outcome
      <3>4. toClient' = toClient
        BY <3>1, <3>3 DEF Report, ReportIgnoringFlag, Sent
      <3>5. QED
        BY <1>b, <3>4
    <2>6. CASE t \in OtherTurns /\ t \notin OwnTurns
      <3>1. turn[t].pc # "checking"
        BY <1>0, <2>6 DEF Belongs
      <3>2. UNCHANGED toClient
        BY <1>1, <2>6, <3>1 DEF Refuse, Deny, Settle, Outcome
      <3>3. QED
        BY <1>b, <3>2
    <2>7. QED
      BY <2>4, <2>5, <2>6 DEF Turns
  <1>2. ASSUME NEW t \in Turns, EnterTurn(t) \/ Prompt(t) \/ Send(t) PROVE toClient' \in [Conns -> Seq(Allowed')]
    BY <1>2, <1>b DEF EnterTurn, Prompt, Send, net
  <1>3. ASSUME NEW cs, Confirm(cs) PROVE toClient' \in [Conns -> Seq(Allowed')]
    BY <1>3, <1>b, <1>d, <1>e, ConfirmTyped
  <1>4. ASSUME NEW t \in Turns, PromptEnds(t) PROVE toClient' \in [Conns -> Seq(Allowed')]
    BY <1>3, <1>4 DEF PromptEnds
  <1>5. ASSUME NEW c \in Cancels, CancelLate(c) PROVE toClient' \in [Conns -> Seq(Allowed')]
    BY <1>3, <1>5 DEF CancelLate
  <1>6. ASSUME NEW c \in Cancels, CancelMisses(c) \/ CancelAborts(c) \/ Stop(c) PROVE toClient' \in [Conns -> Seq(Allowed')]
    BY <1>6, <1>b DEF CancelMisses, CancelAborts, Stop, net
  <1>7. ASSUME NEW k \in Conns, Start(k) PROVE toClient' \in [Conns -> Seq(Allowed')]
    <2> DEFINE t == toServer[k][1].turn
    <2>1. t \in OwnTurns
      BY <1>0, <1>7, StartIs DEF Sound
    <2>2. toClient' = Sent(toClient, k, <<Event("accepted", {}, t)>>)
      BY <1>7 DEF Start
    <2> HIDE DEF t
    <2>3. Event("accepted", {}, t) \in Events
      BY <2>1, EventTyped DEF OwnTurns
    <2>4. Event("accepted", {}, t) \in Allowed'
      BY <1>c, <2>3 DEF Allowed, Event
    <2>5. QED
      BY <1>b, <2>2, <2>4, SentTyped
  <1>8. ASSUME NEW k \in Conns, CancelIdle(k) PROVE toClient' \in [Conns -> Seq(Allowed')]
    BY <1>8, <1>b, <1>d, SentTyped DEF CancelIdle
  <1>9. ASSUME NEW k \in Conns, CancelAsked(k) \/ SyncAsked(k) \/ SyncRead(k) \/ Open(k) PROVE toClient' \in [Conns -> Seq(Allowed')]
    BY <1>9, <1>b DEF CancelAsked, SyncAsked, SyncRead, Open, net
  <1>10. ASSUME NEW k \in Conns, SyncList(k) PROVE toClient' \in [Conns -> Seq(Allowed')]
    <2> DEFINE rows == Listed(sync[k].from, SyncLimit)
    <2>1. toClient' = toClient \/ toClient' = Sent(toClient, k, <<Event("replay", rows, None)>>)
      BY <1>10 DEF SyncList
    <2>2. rows \subseteq Answers
      BY <1>0, ListedAnswers DEF ConnOK, SyncRecords, ServiceOK
    <2> HIDE DEF rows
    <2>3. Event("replay", rows, None) \in Events
      BY <2>2, EventTyped
    <2>4. Event("replay", rows, None) \in Allowed'
      BY <1>c, <2>3 DEF Allowed, Event
    <2>5. QED
      BY <1>b, <2>1, <2>4, SentTyped
  <1>11. ASSUME NEW k \in Conns, Lose(k) PROVE toClient' \in [Conns -> Seq(Allowed')]
    BY <1>11, <1>b DEF Lose
  <1>12. ASSUME NEW k \in Conns, ReceiveMessage(k) \/ ReceiveStatus(k) PROVE toClient' \in [Conns -> Seq(Allowed')]
    <2>1. toClient[k] # <<>> /\ toClient[k] \in Seq(Allowed')
      BY <1>12, <1>b DEF ReceiveMessage, ReceiveStatus, Arrives
    <2>2. CASE toClient' = Rest(toClient, k)
      BY <1>b, <2>1, <2>2, RestTyped
    <2>3. ASSUME NEW p, toClient' = [toClient EXCEPT ![k][1].seqs = @ \ {p}]
          PROVE  toClient' \in [Conns -> Seq(Allowed')]
      <3>1. toClient[k][1] \in Allowed'
        BY <2>1
      <3>2. [toClient[k][1] EXCEPT !.seqs = @ \ {p}] \in Allowed'
        BY <3>1 DEF Allowed, Events
      <3>3. [toClient[k] EXCEPT ![1] = [toClient[k][1] EXCEPT !.seqs = @ \ {p}]] \in Seq(Allowed')
        BY <2>1, <3>2
      <3>4. QED
        BY <1>b, <2>3, <3>3
    <2>4. QED
      BY <1>12, <2>2, <2>3 DEF ReceiveMessage, ReceiveStatus
  <1>13. CASE LoadRow \/ LoadList \/ NoTicket \/ Closed \/ Retry \/ Reconnect \/ UNCHANGED vars
    BY <1>13, <1>b DEF LoadRow, LoadList, NoTicket, Closed, Retry, Reconnect, net, vars
  <1>14. QED
    BY <1>1, <1>2, <1>4, <1>5, <1>6, <1>7, <1>8, <1>9, <1>10, <1>11, <1>12, <1>13
    DEF Next, TurnStep, CancelStep, ConnStep, PageStep

LEMMA SilentInit == Init => Silent
  <1> SUFFICES ASSUME Init PROVE Silent
    OBVIOUS
  <1>1. \A t \in Turns : turn[t].pc = "idle" /\ turn[t].conn = None /\ turn[t].stop = "no"
    BY DEF Init
  <1>2. Socket /\ Belongs /\ Sharing /\ Flagged
    BY <1>1 DEF Init, Socket, Belongs, Sharing, Flying, Flagged, Turns
  <1>3. Commanded
    BY DEF Init, Commanded, Starts
  <1>4. toClient \in [Conns -> Seq(Allowed)]
    BY DEF Init
  <1>5. QED
    BY <1>2, <1>3, <1>4 DEF Silent

LEMMA SilentStep == Sound /\ Silent /\ [Next]_vars => Silent'
  <1> SUFFICES ASSUME Sound, Silent, [Next]_vars PROVE Silent'
    OBVIOUS
  <1>1. Socket'
    BY SocketStep DEF Silent
  <1>2. Belongs' /\ Commanded' /\ Sharing' /\ Flagged' /\ toClient' \in [Conns -> Seq(Allowed')]
    BY BelongsStep, CommandedStep, SharingStep, FlaggedStep, AllowedStep
  <1>3. QED
    BY <1>1, <1>2 DEF Silent

(***************************************************************************)
(* Once the user was told that a turn is cancelled, the turn says nothing  *)
(* more on the connection, whenever the cancel, the end of the prompt and  *)
(* the outcome meet, unless turns of the connection overlapped             *)
(* (embed/realtime/connection.ts, cancellationRequested in                 *)
(* handleTurnCancel and in runTurn).                                       *)
(***************************************************************************)
THEOREM CancelledIsFinal == Spec => []StoppedStaysSilent
  <1>1. Sound /\ Silent => StoppedStaysSilent
    <2> SUFFICES ASSUME Silent, NEW k \in Conns, NEW i \in DOMAIN toClient[k],
                        toClient[k][i].type \in {"failed", "completed"}, toClient[k][i].turn \in Turns
                 PROVE  turn[toClient[k][i].turn].stop # "stopped"
      BY DEF StoppedStaysSilent
    <2>1. toClient[k] \in Seq(Allowed)
      BY DEF Silent
    <2>2. toClient[k][i] \in Allowed
      BY <2>1
    <2>3. QED
      BY <2>2 DEF Allowed
  <1>2. QED
    BY <1>1, SoundInit, SoundStep, SilentInit, SilentStep, PTL DEF Spec

-----------------------------------------------------------------------------
(***************************************************************************)
(* What is owed.                                                           *)
(***************************************************************************)
OnScreen(p) == p \in loaded \/ \E i \in DOMAIN shown : shown[i] = p

AtWork(t) == turn[t].pc \in {"opening", "prompting", "persisting"}

\* One turn is at work; its answer, once written, is the last one of the stream.
LastAnswer ==
    \A t \in Turns :
        /\ AtWork(t) => running = t
        /\ turn[t].answer > 0 => turn[t].pc \in {"persisting", "ended"}
        /\ turn[t].answer > 0 /\ turn[t].pc = "persisting" => \A p \in Answers : p <= turn[t].answer

\* An answer the page has passed before its turn reports it is on the screen.
Reported ==
    \A t \in OwnTurns :
        turn[t].pc = "persisting" /\ turn[t].answer > 0 /\ turn[t].answer <= cursor => OnScreen(turn[t].answer)

BeforeLoad ==
    phase \in {"start", "loading"} => due = {} /\ \A t \in OwnTurns : turn[t].pc = "idle"

\* Only the page's own connection is open; nothing is on its way on another.
OneLink ==
    \A k \in Conns :
        /\ link[k] = "open" => ws = k
        /\ link[k] # "open" => toClient[k] = <<>>
        /\ link[k] = "unused" => sync[k].pc = "none" /\ ws # k /\ \A t \in OwnTurns : turn[t].conn # k

\* A connection starts with the sync, from the cursor, and no turn of it before that.
Asked(k) == toServer[k] # <<>> /\ toServer[k][1].type = "sync"

Syncing(k) == Asked(k) \/ sync[k].pc # "none"

SyncCommand(k) ==
    /\ \A i \in DOMAIN toServer[k] : toServer[k][i].type = "sync" => i = 1
    /\ Asked(k) => /\ toServer[k][1].turn = cursor /\ sync[k].pc = "none"
                   /\ \A t \in OwnTurns : turn[t].conn = k => turn[t].pc = "sent"
    /\ sync[k].pc # "none" => sync[k].from = cursor

\* Nothing carries an answer before the sync is done; after it the answers owed that
\* the page has not passed are on their way, in order.
Carries(k, p) == \E i \in DOMAIN toClient[k] : p \in toClient[k][i].seqs

InTurn(k) ==
    \A i \in DOMAIN toClient[k] : \A s \in toClient[k][i].seqs, p \in due :
        cursor < p /\ p < s => \E j \in 1 .. i : p \in toClient[k][j].seqs

Delivery(k) ==
    IF Syncing(k) THEN \A i \in DOMAIN toClient[k] : toClient[k][i].seqs = {}
    ELSE (\A p \in due : p > cursor => Carries(k, p)) /\ InTurn(k)

SyncFirst == \A k \in Conns : link[k] = "open" => SyncCommand(k) /\ Delivery(k)

Owed == LastAnswer /\ Reported /\ BeforeLoad /\ OneLink /\ SyncFirst /\ OwedIsShown

-----------------------------------------------------------------------------
(***************************************************************************)
(* The answers of the turns.                                               *)
(***************************************************************************)
LEMMA RunningAlone ==
    ASSUME OtherStep
    PROVE  UNCHANGED running
  <1>1. ASSUME NEW k \in Conns, ConnStep(k) \/ Lose(k) \/ Open(k) \/ ReceiveMessage(k) \/ ReceiveStatus(k)
        PROVE  UNCHANGED running
    BY <1>1 DEF ConnStep, Start, CancelIdle, CancelAsked, SyncAsked, SyncRead, SyncList, Lose,
                Open, ReceiveMessage, ReceiveStatus, service
  <1>2. ASSUME NEW c \in Cancels, CancelStep(c) \/ Stop(c) PROVE UNCHANGED running
    BY <1>2 DEF CancelStep, CancelMisses, CancelAborts, CancelLate, Stop, service
  <1>3. CASE LoadRow \/ LoadList \/ NoTicket \/ Closed \/ Retry \/ Reconnect \/ UNCHANGED vars
    BY <1>3 DEF LoadRow, LoadList, NoTicket, Closed, Retry, Reconnect, service, vars
  <1>4. ASSUME NEW t \in Turns, Send(t) PROVE UNCHANGED running
    BY <1>4 DEF Send
  <1>5. QED
    BY <1>1, <1>2, <1>3, <1>4 DEF OtherStep, PageStep

LEMMA OtherAnswers ==
    ASSUME Sound, OtherStep
    PROVE  Answers' = Answers
  BY OtherStepService DEF Sound, PageOK, Answers, AnswersIn

\* What a step that is not of a turn does to a turn.
LEMMA OtherTurnIs ==
    ASSUME Sound, Silent, OtherStep, NEW u \in Turns
    PROVE  /\ turn'[u].answer = turn[u].answer
           /\ \/ turn'[u].pc = turn[u].pc
              \/ turn[u].pc = "idle" /\ turn'[u].pc = "sent" /\ phase = "open"
              \/ turn[u].pc = "sent" /\ turn'[u].pc = "checking"
           /\ turn[u].pc # "idle" => turn'[u].conn = turn[u].conn
  <1>0. ServiceOK /\ Commanded /\ Socket
    BY DEF Sound, Silent
  <1>1. CASE UNCHANGED turn
    BY <1>1
  <1>2. ASSUME NEW t \in Turns, Send(t)
        PROVE  /\ turn'[u].answer = turn[u].answer
               /\ turn'[u].pc = turn[u].pc \/ (turn[u].pc = "idle" /\ turn'[u].pc = "sent" /\ phase = "open")
               /\ turn[u].pc # "idle" => turn'[u].conn = turn[u].conn
    BY <1>0, <1>2, SendIs
  <1>3. ASSUME NEW k \in Conns, Start(k)
        PROVE  /\ turn'[u].answer = turn[u].answer
               /\ turn'[u].pc = turn[u].pc \/ (turn[u].pc = "sent" /\ turn'[u].pc = "checking")
               /\ turn[u].pc # "idle" => turn'[u].conn = turn[u].conn
    <2> DEFINE t == toServer[k][1].turn
    <2>1. t \in Turns /\ turn[t].pc = "sent" /\ turn' = Started(t, k)
      BY <1>0, <1>3, StartIs
    <2> HIDE DEF t
    <2>2. /\ turn'[u].pc = IF u = t THEN "checking" ELSE turn[u].pc
          /\ turn'[u].conn = turn[u].conn /\ turn'[u].answer = turn[u].answer
      BY <1>0, <2>1, StartedIs
    <2>3. QED
      BY <2>1, <2>2
  <1>4. ASSUME NEW c \in Cancels, CancelLate(c)
        PROVE  turn'[u].pc = turn[u].pc /\ turn'[u].answer = turn[u].answer /\ turn'[u].conn = turn[u].conn
    BY <1>0, <1>4, CancelLateIs
  <1>5. QED
    BY <1>1, <1>2, <1>3, <1>4, TurnsAlone

LEMMA LastAnswerStep ==
    ASSUME Sound, Silent, LastAnswer, [Next]_vars
    PROVE  LastAnswer'
  <1>0. ServiceOK /\ log \in Seq(Rows) /\ running \in Turns \cup {None} /\ \A u \in Turns : turn[u].answer \in Nat
    BY DEF Sound, ServiceOK, TurnRecords
  <1> SUFFICES ASSUME NEW u \in Turns
               PROVE  /\ AtWork(u)' => running' = u
                      /\ turn'[u].answer > 0 => turn'[u].pc \in {"persisting", "ended"}
                      /\ turn'[u].answer > 0 /\ turn'[u].pc = "persisting" => \A p \in Answers' : p <= turn'[u].answer
    BY DEF LastAnswer
  <1> USE DEF AtWork
  <1>a. /\ AtWork(u) => running = u
        /\ turn[u].answer > 0 => turn[u].pc \in {"persisting", "ended"}
        /\ turn[u].answer > 0 /\ turn[u].pc = "persisting" => \A p \in Answers : p <= turn[u].answer
    BY DEF LastAnswer
  <1>1. CASE OtherStep
    <2>1. running' = running /\ Answers' = Answers
      BY <1>1, RunningAlone, OtherAnswers
    <2>2. /\ turn'[u].answer = turn[u].answer
          /\ turn'[u].pc = turn[u].pc \/ (turn[u].pc \in {"idle", "sent"} /\ turn'[u].pc \in {"sent", "checking"})
      BY <1>1, OtherTurnIs
    <2>3. QED
      BY <1>a, <2>1, <2>2
  <1>2. ASSUME NEW t \in Turns, Refuse(t) \/ Deny(t) \/ Prompt(t)
        PROVE  /\ AtWork(u)' => running' = u
               /\ turn'[u].answer > 0 => turn'[u].pc \in {"persisting", "ended"}
               /\ turn'[u].answer > 0 /\ turn'[u].pc = "persisting" => \A p \in Answers' : p <= turn'[u].answer
    <2>1. UNCHANGED <<log, running>> /\ (turn' = Pc(t, "ended") \/ (turn' = Pc(t, "prompting") /\ turn[t].pc = "opening"))
      BY <1>2 DEF Refuse, Deny, Prompt
    <2>2. Answers' = Answers
      BY <2>1 DEF Answers, AnswersIn
    <2>3. CASE u = t
      <3>1. turn'[u].answer = turn[u].answer /\ (turn'[u].pc = "ended" \/ (turn'[u].pc = "prompting" /\ turn[u].pc = "opening"))
        BY <1>0, <2>1, <2>3, PcIs
      <3>2. QED
        BY <1>a, <2>1, <3>1
    <2>4. CASE u # t
      <3>1. turn'[u] = turn[u]
        BY <1>0, <2>1, <2>4, PcIs
      <3>2. QED
        BY <1>a, <2>1, <2>2, <3>1
    <2>5. QED
      BY <2>3, <2>4
  <1>3. ASSUME NEW t \in Turns, EnterTurn(t)
        PROVE  /\ AtWork(u)' => running' = u
               /\ turn'[u].answer > 0 => turn'[u].pc \in {"persisting", "ended"}
               /\ turn'[u].answer > 0 /\ turn'[u].pc = "persisting" => \A p \in Answers' : p <= turn'[u].answer
    <2>1. running = None /\ running' = t /\ turn' = Pc(t, "opening") /\ turn[t].pc \in {"idle", "checking"}
      BY <1>3 DEF EnterTurn, Asking
    <2>2. ~AtWork(u)
      BY <1>a, <2>1, NoneIsNobody
    <2>3. CASE u = t
      <3>1. turn'[u].answer = turn[u].answer /\ turn'[u].pc = "opening"
        BY <1>0, <2>1, <2>3, PcIs
      <3>2. QED
        BY <1>a, <2>1, <2>3, <3>1
    <2>4. CASE u # t
      <3>1. turn'[u] = turn[u]
        BY <1>0, <2>1, <2>4, PcIs
      <3>2. QED
        BY <1>a, <2>2, <3>1
    <2>5. QED
      BY <2>3, <2>4
  <1>4. ASSUME NEW t \in Turns, PromptEnds(t)
        PROVE  /\ AtWork(u)' => running' = u
               /\ turn'[u].answer > 0 => turn'[u].pc \in {"persisting", "ended"}
               /\ turn'[u].answer > 0 /\ turn'[u].pc = "persisting" => \A p \in Answers' : p <= turn'[u].answer
    <2>1. /\ \A v \in Turns : v # t => turn'[v] = turn[v]
          /\ turn[t].pc = "prompting" /\ turn'[t].pc = "persisting"
          /\ \/ log' = Append(log, Row("answer", t)) /\ turn'[t].answer = Len(log) + 1
             \/ log' = log /\ turn'[t].answer = turn[t].answer
      BY <1>0, <1>4, PromptEndsIs
    <2>2. running' = running /\ running = t
      BY <1>4, <2>1 DEF PromptEnds, LastAnswer
    <2>3. CASE u = t
      <3>1. CASE log' = Append(log, Row("answer", t)) /\ turn'[t].answer = Len(log) + 1
        <4>1. Len(log') = Len(log) + 1
          BY <1>0, <3>1
        <4>2. \A p \in Answers' : p <= Len(log')
          <5>1. \A p \in Answers' : p \in 0 + 1 .. Len(log')
            BY DEF Answers, AnswersIn
          <5>2. QED
            BY <1>0, <4>1, <5>1
        <4>3. QED
          BY <2>1, <2>2, <2>3, <3>1, <4>1, <4>2
      <3>2. CASE turn'[t].answer = turn[t].answer
        BY <1>a, <2>1, <2>2, <2>3, <3>2
      <3>3. QED
        BY <2>1, <3>1, <3>2
    <2>4. CASE u # t
      <3>1. ~AtWork(u)
        BY <1>a, <2>2, <2>4
      <3>2. QED
        BY <1>a, <2>1, <2>4, <3>1
    <2>5. QED
      BY <2>3, <2>4
  <1>5. ASSUME NEW t \in Turns, Settle(t)
        PROVE  /\ AtWork(u)' => running' = u
               /\ turn'[u].answer > 0 => turn'[u].pc \in {"persisting", "ended"}
               /\ turn'[u].answer > 0 /\ turn'[u].pc = "persisting" => \A p \in Answers' : p <= turn'[u].answer
    <2>1. turn[t].pc = "persisting" /\ turn' = Pc(t, "ended")
      BY <1>5 DEF Settle
    <2>2. CASE u = t
      <3>1. turn'[u].pc = "ended"
        BY <1>0, <2>1, <2>2, PcIs
      <3>2. QED
        BY <3>1
    <2>3. CASE u # t
      <3>1. turn'[u] = turn[u]
        BY <1>0, <2>1, <2>3, PcIs
      <3>2. ~AtWork(u)
        BY <1>a, <2>1, <2>3 DEF LastAnswer
      <3>3. QED
        BY <1>a, <3>1, <3>2
    <2>4. QED
      BY <2>2, <2>3
  <1>6. QED
    BY <1>1, <1>2, <1>3, <1>4, <1>5, NextSteps DEF TurnStep

-----------------------------------------------------------------------------
(***************************************************************************)
(* The connections and the load.                                           *)
(***************************************************************************)
\* What a turn's step leaves alone, and what it may add to what is due.
LEMMA TurnStepAlone ==
    ASSUME NEW t \in Turns, TurnStep(t)
    PROVE  /\ UNCHANGED <<link, toServer, sync, phase, attempt, ws, cursor, loaded, shown, sending>>
           /\ Settle(t) \/ due' = due
  BY DEF TurnStep, Refuse, EnterTurn, Prompt, PromptEnds, Settle, Deny, Outcome, Report, ReportIgnoringFlag, Event,
         net, server, page

LEMMA TurnStepConnections ==
    ASSUME Sound, Silent, NEW t \in Turns, TurnStep(t), NEW u \in OwnTurns
    PROVE  turn'[u].conn = turn[u].conn /\ (turn[u].pc \in {"idle", "sent"} => turn'[u] = turn[u])
  <1>1. ServiceOK
    BY DEF Sound
  <1>2. /\ \A v \in Turns : v # t => turn'[v] = turn[v]
        /\ turn'[t].conn = turn[t].conn
        /\ Asking(t) \/ turn[t].pc \in {"checking", "opening", "prompting", "persisting"}
    BY <1>1, TurnStepIs
  <1>3. QED
    BY <1>2 DEF Asking, Turns

\* What is sent to a connection that is not open gets lost.
LEMMA ClosedStaysEmpty ==
    ASSUME Sound, [Next]_vars, NEW k \in Conns, toClient[k] = <<>>, link[k] # "open", link'[k] # "open"
    PROVE  toClient'[k] = <<>>
  <1>0. toClient \in [Conns -> Seq(Events)]
    BY DEF Sound, ConnOK
  <1>a. \A j, e : Sent(toClient, j, <<e>>)[k] = <<>>
    <2> SUFFICES ASSUME NEW j, NEW e PROVE Sent(toClient, j, <<e>>)[k] = <<>>
      OBVIOUS
    <2>1. CASE j = k
      BY <2>1 DEF Sent
    <2>2. CASE j # k
      BY <1>0, <2>2 DEF Sent
    <2>3. QED
      BY <2>1, <2>2
  <1>1. ASSUME NEW t \in Turns, TurnStep(t) PROVE toClient'[k] = <<>>
    <2>1. CASE Refuse(t) \/ Deny(t) \/ Settle(t)
      <3>1. UNCHANGED toClient \/ \E j, e : toClient' = Sent(toClient, j, <<e>>)
        BY <2>1 DEF Refuse, Deny, Settle, Outcome, Report, ReportIgnoringFlag
      <3>2. QED
        BY <1>a, <3>1
    <2>2. CASE EnterTurn(t) \/ Prompt(t)
      BY <2>2 DEF EnterTurn, Prompt, net
    <2>3. CASE PromptEnds(t)
      BY <2>3 DEF PromptEnds, Confirm
    <2>4. QED
      BY <1>1, <2>1, <2>2, <2>3 DEF TurnStep
  <1>2. ASSUME NEW c \in Cancels, CancelStep(c) \/ Stop(c) PROVE toClient'[k] = <<>>
    BY <1>2 DEF CancelStep, CancelMisses, CancelAborts, CancelLate, Stop, Confirm, net
  <1>3. ASSUME NEW j \in Conns, ConnStep(j) PROVE toClient'[k] = <<>>
    <2>1. UNCHANGED toClient \/ \E e : toClient' = Sent(toClient, j, <<e>>)
      BY <1>3 DEF ConnStep, Start, CancelIdle, CancelAsked, SyncAsked, SyncRead, SyncList, net
    <2>2. QED
      BY <1>a, <2>1
  <1>4. ASSUME NEW j \in Conns, Lose(j) \/ Open(j) PROVE toClient'[k] = <<>>
    BY <1>0, <1>4 DEF Lose, Open
  <1>5. ASSUME NEW j \in Conns, ReceiveMessage(j) \/ ReceiveStatus(j) PROVE toClient'[k] = <<>>
    <2>1. link[j] = "open"
      BY <1>5 DEF ReceiveMessage, ReceiveStatus, Arrives
    <2>2. toClient' = Rest(toClient, j) \/ \E p : toClient' = [toClient EXCEPT ![j][1].seqs = @ \ {p}]
      BY <1>5 DEF ReceiveMessage, ReceiveStatus
    <2>3. j # k
      BY <2>1
    <2>4. toClient'[k] = toClient[k]
      BY <1>0, <2>2, <2>3 DEF Rest
    <2>5. QED
      BY <2>4
  <1>6. CASE LoadRow \/ LoadList \/ NoTicket \/ Closed \/ Retry \/ Reconnect \/ UNCHANGED vars
    BY <1>6 DEF LoadRow, LoadList, NoTicket, Closed, Retry, Reconnect, net, vars
  <1>7. ASSUME NEW t \in Turns, Send(t) PROVE toClient'[k] = <<>>
    BY <1>7 DEF Send
  <1>8. QED
    BY <1>1, <1>2, <1>3, <1>4, <1>5, <1>6, <1>7 DEF Next, PageStep

LEMMA OneLinkStep ==
    ASSUME Sound, Silent, OneLink, [Next]_vars
    PROVE  OneLink'
  <1>0. ServiceOK /\ ConnOK /\ PageOK /\ Socket
    BY DEF Sound, Silent
  <1> SUFFICES ASSUME NEW k \in Conns
               PROVE  /\ link'[k] = "open" => ws' = k
                      /\ link'[k] # "open" => toClient'[k] = <<>>
                      /\ link'[k] = "unused" => sync'[k].pc = "none" /\ ws' # k /\ \A t \in OwnTurns : turn'[t].conn # k
    BY DEF OneLink
  <1>a. /\ link[k] = "open" => ws = k
        /\ link[k] # "open" => toClient[k] = <<>>
        /\ link[k] = "unused" => sync[k].pc = "none" /\ ws # k /\ \A t \in OwnTurns : turn[t].conn # k
    BY DEF OneLink
  <1>b. ASSUME link[k] # "open", link'[k] # "open" PROVE toClient'[k] = <<>>
    BY <1>a, <1>b, ClosedStaysEmpty
  <1> DEFINE Goal == /\ link'[k] = "open" => ws' = k
                     /\ link'[k] # "open" => toClient'[k] = <<>>
                     /\ link'[k] = "unused" => sync'[k].pc = "none" /\ ws' # k /\ \A t \in OwnTurns : turn'[t].conn # k
  <1>c. ASSUME link'[k] = link[k], ws' = ws,
               link[k] = "unused" => sync'[k] = sync[k] /\ \A t \in OwnTurns : turn'[t].conn = turn[t].conn
        PROVE  Goal
    BY <1>a, <1>b, <1>c
  <1>1. ASSUME NEW t \in Turns, TurnStep(t) PROVE Goal
    <2>1. link' = link /\ ws' = ws /\ sync' = sync
      BY <1>1, TurnStepAlone
    <2>2. \A u \in OwnTurns : turn'[u].conn = turn[u].conn
      BY <1>1, TurnStepConnections
    <2>3. QED
      BY <1>c, <2>1, <2>2
  <1>2. ASSUME NEW t \in Turns, Send(t) PROVE Goal
    <2>1. link' = link /\ ws' = ws /\ sync' = sync
      BY <1>2 DEF Send, server
    <2>2. turn'[t].conn = ws /\ \A u \in Turns : u # t => turn'[u] = turn[u]
      BY <1>0, <1>2, SendIs
    <2>3. link[k] = "unused" => ws # k /\ \A u \in OwnTurns : turn[u].conn # k
      BY <1>a
    <2>4. link[k] = "unused" => \A u \in OwnTurns : turn'[u].conn # k
      BY <2>2, <2>3 DEF Turns
    <2>5. QED
      BY <1>a, <1>b, <2>1, <2>4
  <1>3. ASSUME NEW c \in Cancels, CancelStep(c) \/ Stop(c) PROVE Goal
    <2>1. link' = link /\ ws' = ws /\ sync' = sync
      BY <1>3 DEF CancelStep, CancelMisses, CancelAborts, CancelLate, Stop, net, page
    <2>2. \A u \in OwnTurns : turn'[u].conn = turn[u].conn
      <3>1. CASE CancelLate(c)
        BY <1>0, <3>1, CancelLateIs DEF Turns
      <3>2. CASE UNCHANGED turn
        BY <3>2
      <3>3. QED
        BY <1>3, <3>1, <3>2 DEF CancelStep, CancelMisses, CancelAborts, Stop, service
    <2>3. QED
      BY <1>c, <2>1, <2>2
  <1>4. ASSUME NEW j \in Conns, Start(j) PROVE Goal
    <2>1. link' = link /\ ws' = ws /\ sync' = sync
      BY <1>4 DEF Start, page
    <2>2. \A u \in OwnTurns : turn'[u].conn = turn[u].conn
      <3> DEFINE t == toServer[j][1].turn
      <3>1. t \in Turns /\ turn' = Started(t, j)
        BY <1>0, <1>4, StartIs DEF Sound, Silent
      <3> HIDE DEF t
      <3>2. QED
        BY <1>0, <3>1, StartedIs DEF Turns
    <2>3. QED
      BY <1>c, <2>1, <2>2
  <1>5. ASSUME NEW j \in Conns, CancelIdle(j) \/ CancelAsked(j) PROVE Goal
    <2>1. link' = link /\ ws' = ws /\ sync' = sync /\ turn' = turn
      BY <1>5 DEF CancelIdle, CancelAsked, page, service
    <2>2. QED
      BY <1>c, <2>1
  <1>6. ASSUME NEW j \in Conns, SyncAsked(j) \/ SyncRead(j) \/ SyncList(j) PROVE Goal
    <2>1. link' = link /\ ws' = ws /\ turn' = turn
      BY <1>6 DEF SyncAsked, SyncRead, SyncList, page, service, net
    <2>2. k # j => sync'[k] = sync[k]
      BY <1>0, <1>6 DEF SyncAsked, SyncRead, SyncList, ConnOK
    <2>3. link[j] = "unused" => sync[j].pc = "none"
      BY DEF OneLink
    <2>4. link[j] # "unused"
      BY <1>6, <2>3 DEF SyncAsked, SyncRead, SyncList, HeadIs
    <2>5. QED
      BY <1>c, <2>1, <2>2, <2>4
  <1>7. ASSUME NEW j \in Conns, Lose(j) PROVE Goal
    <2>1. ws' = ws /\ turn' = turn /\ sync' = sync /\ link' = [link EXCEPT ![j] = "lost"]
          /\ toClient' = [toClient EXCEPT ![j] = <<>>]
      BY <1>7 DEF Lose, page, service, server
    <2>2. CASE k = j
      <3>1. link'[k] = "lost" /\ toClient'[k] = <<>>
        BY <1>0, <2>1, <2>2 DEF ConnOK
      <3>2. QED
        BY <3>1
    <2>3. CASE k # j
      <3>1. link'[k] = link[k]
        BY <1>0, <2>1, <2>3 DEF ConnOK
      <3>2. QED
        BY <1>c, <2>1, <3>1
    <2>4. QED
      BY <2>2, <2>3
  <1>8. ASSUME NEW j \in Conns, Open(j) PROVE Goal
    <2>1. ws' = j /\ turn' = turn /\ sync' = sync /\ link' = [link EXCEPT ![j] = "open"] /\ phase = "ticket"
      BY <1>8 DEF Open, service, server
    <2>2. ws = None /\ None \notin Conns
      BY <1>0, <2>1, NoneIsNobody DEF Socket
    <2>3. link[k] # "open"
      BY <1>a, <2>2
    <2>4. CASE k = j
      <3>1. link'[k] = "open"
        BY <1>0, <2>1, <2>4 DEF ConnOK
      <3>2. QED
        BY <2>1, <2>4, <3>1
    <2>5. CASE k # j
      <3>1. link'[k] = link[k]
        BY <1>0, <2>1, <2>5 DEF ConnOK
      <3>2. QED
        BY <1>a, <1>b, <2>1, <2>3, <2>5, <3>1
    <2>6. QED
      BY <2>4, <2>5
  <1>9. ASSUME NEW j \in Conns, ReceiveMessage(j) \/ ReceiveStatus(j) PROVE Goal
    <2>1. link' = link /\ ws' = ws /\ turn' = turn /\ sync' = sync
      BY <1>9 DEF ReceiveMessage, ReceiveStatus, service, server
    <2>2. QED
      BY <1>c, <2>1
  <1>10. CASE LoadRow \/ LoadList \/ NoTicket \/ Retry \/ Reconnect \/ UNCHANGED vars
    <2>1. link' = link /\ ws' = ws /\ turn' = turn /\ sync' = sync
      BY <1>10 DEF LoadRow, LoadList, NoTicket, Retry, Reconnect, service, server, net, vars
    <2>2. QED
      BY <1>c, <2>1
  <1>11. CASE Closed
    <2>1. link' = link /\ ws' = None /\ link[ws] = "lost" /\ turn' = turn /\ sync' = sync
      BY <1>11 DEF Closed, service, server, net
    <2>2. None # k
      BY NoneIsNobody
    <2>3. QED
      BY <1>a, <1>b, <2>1, <2>2
  <1>12. QED
    BY <1>1, <1>2, <1>3, <1>4, <1>5, <1>6, <1>7, <1>8, <1>9, <1>10, <1>11 DEF Next, ConnStep, PageStep

-----------------------------------------------------------------------------
(***************************************************************************)
(* What becomes due, and what happens to the screen.                       *)
(***************************************************************************)
LEMMA DueAlone ==
    ASSUME OtherStep
    PROVE  UNCHANGED due \/ LoadList \/ \E k \in Conns : SyncRead(k) /\ link[k] = "open"
  <1>1. ASSUME NEW k \in Conns, Start(k) \/ CancelIdle(k) \/ CancelAsked(k) \/ SyncAsked(k) \/ SyncList(k) \/ Lose(k)
                                \/ Open(k) \/ ReceiveMessage(k) \/ ReceiveStatus(k)
        PROVE  UNCHANGED due
    BY <1>1 DEF Start, CancelIdle, CancelAsked, SyncAsked, SyncList, Lose, Open, ReceiveMessage, ReceiveStatus
  <1>2. ASSUME NEW c \in Cancels, CancelStep(c) \/ Stop(c) PROVE UNCHANGED due
    BY <1>2 DEF CancelStep, CancelMisses, CancelAborts, CancelLate, Stop
  <1>3. CASE LoadRow \/ NoTicket \/ Closed \/ Retry \/ Reconnect \/ UNCHANGED vars
    BY <1>3 DEF LoadRow, NoTicket, Closed, Retry, Reconnect, vars
  <1>4. ASSUME NEW t \in Turns, Send(t) PROVE UNCHANGED due
    BY <1>4 DEF Send
  <1>5. ASSUME NEW k \in Conns, SyncRead(k) PROVE UNCHANGED due \/ link[k] = "open"
    BY <1>5 DEF SyncRead
  <1>6. QED
    BY <1>1, <1>2, <1>3, <1>4, <1>5 DEF OtherStep, ConnStep, PageStep

LEMMA ScreenAlone ==
    ASSUME OtherStep
    PROVE  UNCHANGED <<cursor, loaded, shown>> \/ LoadRow \/ LoadList \/ Reconnect \/ \E k \in Conns : ReceiveMessage(k)
  <1>1. ASSUME NEW k \in Conns, ConnStep(k) \/ Lose(k) \/ Open(k) \/ ReceiveStatus(k)
        PROVE  UNCHANGED <<cursor, loaded, shown>>
    BY <1>1 DEF ConnStep, Start, CancelIdle, CancelAsked, SyncAsked, SyncRead, SyncList, Lose, Open, ReceiveStatus, page
  <1>2. ASSUME NEW c \in Cancels, CancelStep(c) \/ Stop(c) PROVE UNCHANGED <<cursor, loaded, shown>>
    BY <1>2 DEF CancelStep, CancelMisses, CancelAborts, CancelLate, Stop, page
  <1>3. CASE NoTicket \/ Closed \/ Retry \/ UNCHANGED vars
    BY <1>3 DEF NoTicket, Closed, Retry, vars
  <1>4. ASSUME NEW t \in Turns, Send(t) PROVE UNCHANGED <<cursor, loaded, shown>>
    BY <1>4 DEF Send
  <1>5. QED
    BY <1>1, <1>2, <1>3, <1>4 DEF OtherStep, PageStep

LEMMA PhaseAlone ==
    ASSUME OtherStep, phase' \in {"start", "loading"}
    PROVE  phase \in {"start", "loading"}
  <1>1. ASSUME NEW k \in Conns, ConnStep(k) \/ Lose(k) \/ Open(k) \/ ReceiveMessage(k) \/ ReceiveStatus(k)
        PROVE  phase' = phase \/ phase' = "open"
    BY <1>1 DEF ConnStep, Start, CancelIdle, CancelAsked, SyncAsked, SyncRead, SyncList, Lose, Open,
                ReceiveMessage, ReceiveStatus, page
  <1>2. ASSUME NEW c \in Cancels, CancelStep(c) \/ Stop(c) PROVE phase' = phase
    BY <1>2 DEF CancelStep, CancelMisses, CancelAborts, CancelLate, Stop, page
  <1>3. CASE LoadRow \/ LoadList \/ NoTicket \/ Closed \/ Retry \/ Reconnect \/ UNCHANGED vars
    BY <1>3 DEF LoadRow, LoadList, NoTicket, Closed, Retry, Reconnect, ScheduleReconnect, vars
  <1>4. ASSUME NEW t \in Turns, Send(t) PROVE phase' = phase
    BY <1>4 DEF Send
  <1>5. QED
    BY <1>1, <1>2, <1>3, <1>4 DEF OtherStep, PageStep

\* A turn of the page that reports its answer owes it; one of another page owes nothing.
LEMMA SettleIs ==
    ASSUME Sound, Silent, NEW t \in Turns, Settle(t)
    PROVE  \/ UNCHANGED <<flag, toClient, due>>
           \/ /\ t \in OwnTurns /\ turn[t].conn \in Conns
              /\ \/ due' = due /\ toClient' = toClient
                 \/ /\ turn[t].answer = 0 /\ due' = due
                    /\ toClient' = Sent(toClient, turn[t].conn, <<Event("failed", {}, t)>>)
                 \/ /\ turn[t].answer > 0 /\ turn[t].answer \in Answers
                    /\ link[turn[t].conn] = "open" /\ due' = due \cup {turn[t].answer}
                    /\ toClient' = Sent(toClient, turn[t].conn, <<Event("completed", {turn[t].answer}, t)>>)
  <1> DEFINE k == turn[t].conn
             a == turn[t].answer
             e == IF a > 0 THEN Event("completed", {a}, t) ELSE Event("failed", {}, t)
  <1>1. turn[t].pc = "persisting" /\ Outcome(t, e)
    BY DEF Settle
  <1>2. a \in Nat /\ (a = 0 \/ a \in Answers)
    BY DEF Sound, ServiceOK, TurnRecords
  <1>3. CASE t \notin OwnTurns
    BY <1>1, <1>3 DEF Outcome
  <1>4. CASE t \in OwnTurns
    <2>1. k \in Conns
      BY <1>1, <1>4 DEF Silent, Belongs
    <2>2. Report(k, e)
      BY <1>1, <1>4 DEF Outcome
    <2>3. CASE a = 0
      <3>1. e = Event("failed", {}, t) /\ e.seqs = {}
        BY <2>3 DEF Event
      <3>2. QED
        BY <1>4, <2>1, <2>2, <2>3, <3>1 DEF Report, ReportIgnoringFlag
    <2>4. CASE a > 0
      <3>1. e = Event("completed", {a}, t) /\ e.seqs = {a}
        BY <2>4 DEF Event
      <3>2. CASE link[k] = "open"
        BY <1>2, <1>4, <2>1, <2>2, <2>4, <3>1, <3>2 DEF Report, ReportIgnoringFlag
      <3>3. CASE link[k] # "open"
        BY <1>4, <2>1, <2>2, <3>1, <3>3 DEF Report, ReportIgnoringFlag, Sent
      <3>4. QED
        BY <3>2, <3>3
    <2>5. QED
      BY <1>2, <2>3, <2>4
  <1>5. QED
    BY <1>3, <1>4

LEMMA BeforeLoadStep ==
    ASSUME Sound, Silent, OneLink, BeforeLoad, [Next]_vars
    PROVE  BeforeLoad'
  <1> SUFFICES ASSUME phase' \in {"start", "loading"}
               PROVE  due' = {} /\ \A t \in OwnTurns : turn'[t].pc = "idle"
    BY DEF BeforeLoad
  <1>1. ASSUME NEW t \in Turns, TurnStep(t) PROVE due' = {} /\ \A u \in OwnTurns : turn'[u].pc = "idle"
    <2>1. phase' = phase
      BY <1>1, TurnStepAlone
    <2>2. due = {} /\ \A u \in OwnTurns : turn[u].pc = "idle"
      BY <2>1 DEF BeforeLoad
    <2>3. \A u \in OwnTurns : turn'[u].pc = "idle"
      BY <1>1, <2>2, TurnStepConnections
    <2>4. ASSUME Settle(t) PROVE due' = due
      <3>1. t \notin OwnTurns
        BY <2>2, <2>4 DEF Settle
      <3>2. QED
        BY <2>4, <3>1, SettleIs
    <2>5. QED
      BY <1>1, <2>2, <2>3, <2>4, TurnStepAlone
  <1>2. CASE OtherStep
    <2>1. phase \in {"start", "loading"}
      BY <1>2, PhaseAlone
    <2>2. due = {} /\ \A u \in OwnTurns : turn[u].pc = "idle"
      BY <2>1 DEF BeforeLoad
    <2>3. \A u \in OwnTurns : turn'[u].pc = "idle"
      BY <1>2, <2>1, <2>2, OtherTurnIs DEF Turns
    <2>4. ws = None
      BY <2>1 DEF Silent, Socket
    <2>5. ~LoadList
      BY DEF LoadList
    <2>6. ~\E k \in Conns : SyncRead(k) /\ link[k] = "open"
      BY <2>4, NoneIsNobody DEF OneLink
    <2>7. QED
      BY <1>2, <2>2, <2>3, <2>5, <2>6, DueAlone
  <1>3. QED
    BY <1>1, <1>2, NextSteps

LEMMA TakeIs ==
    ASSUME Sound, NEW p \in Answers, Take(p), UNCHANGED loaded
    PROVE  /\ p \in Nat /\ cursor \in Nat /\ cursor' \in Nat /\ cursor <= cursor' /\ p <= cursor'
           /\ cursor' = cursor \/ (cursor' = p /\ cursor < p /\ OnScreen(p)')
           /\ \A q : OnScreen(q) => OnScreen(q)'
  <1>1. p \in Nat /\ cursor \in Nat /\ shown \in Seq(Answers)
    BY RowsInterval DEF Sound, PageOK, ServiceOK
  <1>2. CASE p <= cursor
    BY <1>1, <1>2 DEF Take, OnScreen
  <1>3. CASE cursor < p
    <2>1. cursor' = p /\ shown' = Append(shown, p)
      BY <1>1, <1>3 DEF Take
    <2>2. /\ DOMAIN shown = 1 .. Len(shown) /\ Len(shown) \in Nat /\ DOMAIN shown' = 1 .. Len(shown) + 1
          /\ shown'[Len(shown) + 1] = p /\ \A i \in 1 .. Len(shown) : shown'[i] = shown[i]
      BY <1>1, <2>1
    <2>3. /\ Len(shown) + 1 \in DOMAIN shown'
          /\ \A i \in DOMAIN shown : i \in DOMAIN shown' /\ shown'[i] = shown[i]
      BY <2>2
    <2>4. OnScreen(p)' /\ \A q : OnScreen(q) => OnScreen(q)'
      BY <2>2, <2>3 DEF OnScreen
    <2>5. QED
      BY <1>1, <1>3, <2>1, <2>4
  <1>4. QED
    BY <1>1, <1>2, <1>3

\* The head of the queue of the page's connection, when it carries an answer.
LEMMA MessageIs ==
    ASSUME Sound, Silent, NEW k \in Conns, ReceiveMessage(k)
    PROVE  /\ link[k] = "open" /\ ws = k /\ phase = "open" /\ toClient[k] # <<>> /\ toClient[k] \in Seq(Events)
           /\ 1 \in DOMAIN toClient[k] /\ UNCHANGED <<loaded, due, link, toServer, sync>>
           /\ \E p \in toClient[k][1].seqs :
                 /\ p \in Answers /\ (\A q \in toClient[k][1].seqs : p <= q) /\ Take(p)
                 /\ toClient' = IF toClient[k][1].seqs = {p} THEN Rest(toClient, k)
                                ELSE [toClient EXCEPT ![k][1].seqs = @ \ {p}]
  <1>1. link[k] = "open" /\ ws = k /\ toClient[k] # <<>> /\ toClient[k] \in Seq(Events)
    BY DEF ReceiveMessage, Arrives, Sound, ConnOK
  <1>2. phase = "open"
    BY <1>1, NoneIsNobody DEF Silent, Socket
  <1>3. 1 \in DOMAIN toClient[k] /\ toClient[k][1] \in Events
    BY <1>1
  <1>4. toClient[k][1].seqs \subseteq Answers
    BY <1>3 DEF Events
  <1>5. UNCHANGED <<loaded, due, link, toServer, sync>>
    BY DEF ReceiveMessage, server
  <1>6. PICK p \in toClient[k][1].seqs :
           /\ \A q \in toClient[k][1].seqs : p <= q
           /\ Take(p)
           /\ toClient' = IF toClient[k][1].seqs = {p} THEN Rest(toClient, k)
                          ELSE [toClient EXCEPT ![k][1].seqs = @ \ {p}]
    BY DEF ReceiveMessage
  <1>7. p \in Answers
    BY <1>4
  <1>8. QED
    BY <1>1, <1>2, <1>3, <1>5, <1>6, <1>7

LEMMA ReportedStep ==
    ASSUME Sound, Silent, LastAnswer, Reported, BeforeLoad, [Next]_vars
    PROVE  Reported'
  <1>0. ServiceOK /\ log \in Seq(Rows) /\ cursor \in 0 .. Len(log) /\ Len(log) \in Nat
        /\ \A v \in Turns : turn[v].answer \in Nat
    BY DEF Sound, ServiceOK, PageOK, TurnRecords
  <1> SUFFICES ASSUME NEW u \in OwnTurns, NEW a, a = turn'[u].answer, turn'[u].pc = "persisting", a > 0, a <= cursor'
               PROVE  OnScreen(a)'
    <2>1. \A u \in OwnTurns : \A a :
             a = turn'[u].answer /\ turn'[u].pc = "persisting" /\ a > 0 /\ a <= cursor'
                => (a \in loaded' \/ \E i \in DOMAIN shown' : shown'[i] = a)
      BY DEF OnScreen
    <2>2. QED
      BY <2>1 DEF Reported, OnScreen
  <1>a. u \in Turns
    BY DEF Turns
  <1>b. turn[u].pc = "persisting" /\ turn[u].answer = a /\ a <= cursor => OnScreen(a)
    BY DEF Reported
  <1>1. ASSUME NEW t \in Turns, TurnStep(t) PROVE OnScreen(a)'
    <2>1. UNCHANGED <<cursor, loaded, shown>>
      BY <1>1, TurnStepAlone
    <2>2. CASE u # t
      <3>1. turn'[u] = turn[u]
        BY <1>0, <1>1, <1>a, <2>2, TurnStepIs
      <3>2. OnScreen(a)
        BY <1>b, <2>1, <3>1
      <3>3. QED
        BY <2>1, <3>2 DEF OnScreen
    <2>3. CASE u = t
      <3>1. PromptEnds(t)
        BY <1>0, <1>1, <1>a, <2>3, TurnStepIs
      <3>2. turn[t].pc = "prompting" /\ (turn'[t].answer = Len(log) + 1 \/ turn'[t].answer = turn[t].answer)
        BY <1>0, <3>1, PromptEndsIs
      <3>3. ~(turn[t].answer > 0)
        BY <3>2 DEF LastAnswer
      <3>4. a = Len(log) + 1
        BY <2>3, <3>2, <3>3
      <3>5. QED
        BY <1>0, <2>1, <3>4
    <2>4. QED
      BY <2>2, <2>3
  <1>2. CASE OtherStep
    <2>1. turn[u].answer = a /\ turn[u].pc = "persisting"
      BY <1>2, <1>a, OtherTurnIs
    <2>2. CASE UNCHANGED <<cursor, loaded, shown>>
      <3>1. OnScreen(a)
        BY <1>b, <2>1, <2>2
      <3>2. QED
        BY <2>2, <3>1 DEF OnScreen
    <2>3. CASE LoadRow \/ LoadList
      BY <2>1, <2>3 DEF LoadRow, LoadList, BeforeLoad
    <2>4. ASSUME NEW k \in Conns, ReceiveMessage(k) PROVE OnScreen(a)'
      <3>1. PICK p \in Answers : Take(p)
        BY <2>4, MessageIs
      <3>2. UNCHANGED loaded
        BY <2>4, MessageIs
      <3>3. /\ p \in Nat /\ cursor \in Nat /\ cursor' \in Nat
            /\ cursor' = cursor \/ (cursor' = p /\ cursor < p /\ OnScreen(p)')
            /\ \A q : OnScreen(q) => OnScreen(q)'
        BY <3>1, <3>2, TakeIs
      <3>4. a \in Nat
        BY <1>0, <1>a, <2>1
      <3>5. p <= a
        BY <1>a, <2>1, <3>1 DEF LastAnswer
      <3>6. a <= cursor \/ (a = p /\ cursor' = p /\ cursor < p)
        BY <3>3, <3>4, <3>5
      <3>7. CASE a <= cursor
        <4>1. OnScreen(a)
          BY <1>b, <2>1, <3>7
        <4>2. QED
          BY <3>3, <4>1
      <3>8. CASE a = p /\ cursor' = p /\ cursor < p
        <4>1. cursor' # cursor
          BY <3>3, <3>8
        <4>2. OnScreen(p)'
          BY <3>3, <4>1
        <4>3. QED
          BY <3>8, <4>2
      <3>9. QED
        BY <3>6, <3>7, <3>8
    <2>5. ~Reconnect
      BY <1>0, <1>a, <2>1 DEF Reconnect
    <2>6. QED
      BY <1>2, <2>2, <2>3, <2>4, <2>5, ScreenAlone
  <1>3. QED
    BY <1>1, <1>2, NextSteps

-----------------------------------------------------------------------------
(***************************************************************************)
(* The sync that a connection starts with.                                 *)
(***************************************************************************)
LEMMA WaitsForSync ==
    ASSUME Sound, Silent, NEW k \in Conns, Asked(k), [Next]_vars,
           \A t \in OwnTurns : turn[t].conn = k => turn[t].pc = "sent",
           NEW u \in OwnTurns, turn'[u].conn = k
    PROVE  turn'[u].pc = "sent"
  <1>0. ServiceOK /\ Commanded /\ Socket /\ u \in Turns
    BY DEF Sound, Silent, Turns
  <1>1. ASSUME NEW t \in Turns, TurnStep(t) PROVE turn'[u].pc = "sent"
    BY <1>1, TurnStepConnections
  <1>2. ASSUME NEW t \in Turns, Send(t) PROVE turn'[u].pc = "sent"
    <2>1. turn'[t].pc = "sent" /\ \A v \in Turns : v # t => turn'[v] = turn[v]
      BY <1>0, <1>2, SendIs
    <2>2. QED
      BY <1>0, <2>1
  <1>3. ASSUME NEW j \in Conns, Start(j) PROVE turn'[u].pc = "sent"
    <2> DEFINE t == toServer[j][1].turn
    <2>1. t \in Turns /\ turn[t].conn = j /\ turn' = Started(t, j) /\ toServer[j][1].type = "start"
      BY <1>0, <1>3, StartIs
    <2>2. j # k
      BY <2>1 DEF Asked
    <2> HIDE DEF t
    <2>3. turn'[u].conn = turn[u].conn /\ turn'[u].pc = IF u = t THEN "checking" ELSE turn[u].pc
      BY <1>0, <2>1, StartedIs
    <2>4. QED
      BY <2>1, <2>2, <2>3
  <1>4. ASSUME NEW c \in Cancels, CancelLate(c) PROVE turn'[u].pc = "sent"
    <2>1. turn'[u].pc = turn[u].pc /\ turn'[u].conn = turn[u].conn
      BY <1>0, <1>4, CancelLateIs
    <2>2. QED
      BY <2>1
  <1>5. QED
    BY <1>1, <1>2, <1>3, <1>4, NextSteps, TurnsAlone

\* While the sync goes on nothing moves the cursor.
LEMMA CursorHeld ==
    ASSUME Sound, Silent, OneLink, NEW k \in Conns, link[k] = "open", Delivery(k), Syncing(k), [Next]_vars
    PROVE  cursor' = cursor
  <1>1. ws = k /\ phase = "open"
    BY NoneIsNobody DEF OneLink, Silent, Socket
  <1>2. ASSUME NEW t \in Turns, TurnStep(t) PROVE cursor' = cursor
    BY <1>2, TurnStepAlone
  <1>3. ~LoadRow /\ ~LoadList /\ ~Reconnect
    BY <1>1 DEF LoadRow, LoadList, Reconnect
  <1>4. ASSUME NEW j \in Conns, ReceiveMessage(j) PROVE FALSE
    <2>1. j = k /\ 1 \in DOMAIN toClient[k] /\ toClient[k][1].seqs # {}
      BY <1>1, <1>4, MessageIs
    <2>2. QED
      BY <2>1 DEF Delivery
  <1>5. QED
    BY <1>2, <1>3, <1>4, NextSteps, ScreenAlone

LEMMA SyncCommandStep ==
    ASSUME Sound, Silent, OneLink, SyncFirst, [Next]_vars, NEW k \in Conns, link'[k] = "open"
    PROVE  SyncCommand(k)'
  <1>0. ConnOK /\ ServiceOK /\ PageOK /\ Commanded /\ Socket
    BY DEF Sound, Silent
  <1>a. link[k] = "open" => ws = k /\ SyncCommand(k) /\ Delivery(k)
    BY DEF SyncFirst, OneLink
  <1>b. ASSUME link[k] = "open", Asked(k), NEW t \in OwnTurns, turn'[t].conn = k PROVE turn'[t].pc = "sent"
    BY <1>a, <1>b, WaitsForSync DEF SyncCommand
  <1>c. ASSUME link[k] = "open", Syncing(k) PROVE cursor' = cursor
    BY <1>a, <1>c, CursorHeld
  <1>d. ASSUME link[k] = "open", toServer'[k] = toServer[k], sync'[k] = sync[k]
        PROVE  SyncCommand(k)'
    <2>1. Asked(k)' <=> Asked(k)
      BY <1>d DEF Asked
    <2>2. \A i \in DOMAIN toServer'[k] : toServer'[k][i].type = "sync" => i = 1
      BY <1>a, <1>d DEF SyncCommand
    <2>3. ASSUME Asked(k) PROVE toServer'[k][1].turn = cursor' /\ sync'[k].pc = "none" /\ \A t \in OwnTurns : turn'[t].conn = k => turn'[t].pc = "sent"
      BY <1>a, <1>b, <1>c, <1>d, <2>3 DEF SyncCommand, Syncing
    <2>4. sync'[k].pc # "none" => sync'[k].from = cursor'
      BY <1>a, <1>c, <1>d DEF SyncCommand, Syncing
    <2>5. QED
      BY <2>1, <2>2, <2>3, <2>4 DEF SyncCommand
  <1>e. ASSUME link[k] = "open", toServer[k] # <<>>, toServer' = Rest(toServer, k),
               sync'[k].pc # "none" => sync'[k].from = cursor'
        PROVE  SyncCommand(k)'
    <2>1. /\ Len(toServer[k]) \in Nat \ {0} /\ Len(toServer'[k]) = Len(toServer[k]) - 1
          /\ \A i \in 1 .. Len(toServer[k]) - 1 : toServer'[k][i] = toServer[k][i + 1]
          /\ toServer'[k] \in Seq(Commands) /\ toServer[k] \in Seq(Commands)
      BY <1>0, <1>e, RestCommands
    <2>2. ASSUME NEW i \in DOMAIN toServer'[k] PROVE toServer'[k][i].type # "sync"
      <3>1. i \in 1 .. Len(toServer[k]) - 1 /\ DOMAIN toServer[k] = 1 .. Len(toServer[k])
        BY <2>1
      <3>2. i + 1 \in DOMAIN toServer[k] /\ i + 1 # 1 /\ toServer'[k][i] = toServer[k][i + 1]
        BY <2>1, <3>1
      <3>3. QED
        BY <1>a, <1>e, <3>2 DEF SyncCommand
    <2>3. ~Asked(k)'
      <3>1. toServer'[k] # <<>> => 1 \in DOMAIN toServer'[k]
        BY <2>1
      <3>2. QED
        BY <2>2, <3>1 DEF Asked
    <2>4. QED
      BY <1>e, <2>2, <2>3 DEF SyncCommand
  <1>f. ASSUME link[k] = "open", NEW e \in Commands, e.type # "sync", toServer' = Sent(toServer, k, <<e>>), sync'[k] = sync[k]
        PROVE  SyncCommand(k)'
    <2>1. /\ Len(toServer[k]) \in Nat /\ Len(toServer'[k]) = Len(toServer[k]) + 1
          /\ toServer'[k][Len(toServer[k]) + 1] = e
          /\ \A i \in 1 .. Len(toServer[k]) : toServer'[k][i] = toServer[k][i]
          /\ toServer'[k] \in Seq(Commands) /\ toServer[k] \in Seq(Commands)
      BY <1>0, <1>f, SentCommands
    <2>2. DOMAIN toServer[k] = 1 .. Len(toServer[k]) /\ DOMAIN toServer'[k] = 1 .. Len(toServer[k]) + 1
      BY <2>1
    <2>3. \A i \in DOMAIN toServer'[k] : toServer'[k][i] = e \/ (i \in DOMAIN toServer[k] /\ toServer'[k][i] = toServer[k][i])
      BY <2>1, <2>2
    <2>4. \A i \in DOMAIN toServer'[k] : toServer'[k][i].type = "sync" => i = 1
      BY <1>a, <1>f, <2>3 DEF SyncCommand
    <2>5. ASSUME Asked(k)' PROVE Asked(k) /\ toServer'[k][1] = toServer[k][1]
      <3>1. 1 \in DOMAIN toServer'[k] /\ toServer'[k][1].type = "sync"
        BY <2>1, <2>2, <2>5 DEF Asked
      <3>2. 1 \in DOMAIN toServer[k] /\ toServer'[k][1] = toServer[k][1]
        BY <1>f, <2>3, <3>1
      <3>3. toServer[k] # <<>>
        BY <3>2
      <3>4. QED
        BY <3>1, <3>2, <3>3 DEF Asked
    <2>6. ASSUME Asked(k)'
          PROVE  toServer'[k][1].turn = cursor' /\ sync'[k].pc = "none" /\ \A t \in OwnTurns : turn'[t].conn = k => turn'[t].pc = "sent"
      BY <1>a, <1>b, <1>c, <1>f, <2>5, <2>6 DEF SyncCommand, Syncing
    <2>7. sync'[k].pc # "none" => sync'[k].from = cursor'
      BY <1>a, <1>c, <1>f DEF SyncCommand, Syncing
    <2>8. QED
      BY <2>4, <2>6, <2>7 DEF SyncCommand
  <1>1. ASSUME NEW t \in Turns, TurnStep(t) PROVE SyncCommand(k)'
    BY <1>d, <1>1, TurnStepAlone
  <1>2. ASSUME NEW t \in Turns, Send(t) PROVE SyncCommand(k)'
    <2>1. toServer' = Sent(toServer, ws, <<Event("start", {}, t)>>) /\ Event("start", {}, t) \in Commands
      BY <1>0, <1>2, SendIs
    <2>2. sync' = sync /\ link' = link
      BY <1>2 DEF Send, server
    <2>3. Event("start", {}, t).type # "sync"
      BY DEF Event
    <2>4. QED
      BY <1>a, <1>f, <2>1, <2>2, <2>3
  <1>3. ASSUME NEW c \in Cancels, CancelStep(c) PROVE SyncCommand(k)'
    <2>1. toServer' = toServer /\ sync' = sync /\ link' = link
      BY <1>3 DEF CancelStep, CancelMisses, CancelAborts, CancelLate, net
    <2>2. QED
      BY <1>d, <2>1
  <1>4. ASSUME NEW c \in Cancels, Stop(c) PROVE SyncCommand(k)'
    <2>1. /\ toServer' = Sent(toServer, ws, <<Event("cancel", {}, c)>>) /\ sync' = sync /\ link' = link
          /\ Event("cancel", {}, c) \in Commands /\ Event("cancel", {}, c).type # "sync"
      BY <1>4 DEF Stop, Event, Commands, Cancels
    <2>2. QED
      BY <1>a, <1>f, <2>1
  <1>5. ASSUME NEW j \in Conns, Start(j) \/ CancelIdle(j) \/ CancelAsked(j) PROVE SyncCommand(k)'
    <2>1. /\ link[j] = "open" /\ toServer[j] # <<>> /\ toServer[j][1].type # "sync" /\ toServer' = Rest(toServer, j)
          /\ sync' = sync /\ link' = link /\ cursor' = cursor
      BY <1>5 DEF Start, CancelIdle, CancelAsked, HeadIs, page
    <2>2. j = k
      BY <2>1 DEF OneLink
    <2>3. sync'[k].pc # "none" => sync'[k].from = cursor'
      BY <1>a, <2>1, <2>2 DEF SyncCommand
    <2>4. QED
      BY <1>e, <2>1, <2>2, <2>3
  <1>6. ASSUME NEW j \in Conns, SyncAsked(j) PROVE SyncCommand(k)'
    <2>1. /\ link[j] = "open" /\ toServer[j] # <<>> /\ toServer[j][1].type = "sync" /\ toServer' = Rest(toServer, j)
          /\ sync' = [sync EXCEPT ![j] = [pc |-> "reading", from |-> toServer[j][1].turn]]
          /\ link' = link /\ cursor' = cursor
      BY <1>6 DEF SyncAsked, HeadIs, page
    <2>2. j = k
      BY <2>1 DEF OneLink
    <2>3. Asked(k) /\ toServer[k][1].turn = cursor
      BY <1>a, <2>1, <2>2 DEF SyncCommand, Asked
    <2>4. sync'[k].from = cursor'
      BY <1>0, <2>1, <2>2, <2>3 DEF ConnOK
    <2>5. QED
      BY <1>e, <2>1, <2>2, <2>4
  <1>7. ASSUME NEW j \in Conns, SyncRead(j) \/ SyncList(j) PROVE SyncCommand(k)'
    <2>1. toServer' = toServer /\ link' = link /\ cursor' = cursor
      BY <1>7 DEF SyncRead, SyncList, net, page
    <2>2. CASE k # j
      <3>1. sync'[k] = sync[k]
        BY <1>0, <1>7, <2>2 DEF SyncRead, SyncList, ConnOK
      <3>2. QED
        BY <1>d, <2>1, <3>1
    <2>3. CASE k = j
      <3>1. sync[k].pc # "none" /\ (sync'[k].pc = "none" \/ sync'[k].from = sync[k].from)
        BY <1>0, <1>7, <2>3 DEF SyncRead, SyncList, ConnOK, SyncRecords, NoSync
      <3>2. sync'[k].pc # "none" => sync'[k].from = cursor'
        BY <1>a, <2>1, <3>1 DEF SyncCommand
      <3>3. Asked(k)' <=> Asked(k)
        BY <2>1 DEF Asked
      <3>4. ASSUME Asked(k)
            PROVE  toServer'[k][1].turn = cursor' /\ sync'[k].pc = "none" /\ \A t \in OwnTurns : turn'[t].conn = k => turn'[t].pc = "sent"
        BY <1>a, <1>b, <2>1, <3>1, <3>4 DEF SyncCommand
      <3>5. \A i \in DOMAIN toServer'[k] : toServer'[k][i].type = "sync" => i = 1
        BY <1>a, <2>1 DEF SyncCommand
      <3>6. QED
        BY <3>2, <3>3, <3>4, <3>5 DEF SyncCommand
    <2>4. QED
      BY <2>2, <2>3
  <1>8. ASSUME NEW j \in Conns, Lose(j) PROVE SyncCommand(k)'
    <2>1. k # j /\ link[k] = "open" /\ toServer'[k] = toServer[k] /\ sync' = sync
      BY <1>0, <1>8 DEF Lose, server, ConnOK
    <2>2. QED
      BY <1>d, <2>1
  <1>9. ASSUME NEW j \in Conns, Open(j) PROVE SyncCommand(k)'
    <2>1. /\ phase = "ticket" /\ link[j] = "unused" /\ link' = [link EXCEPT ![j] = "open"]
          /\ toServer' = [toServer EXCEPT ![j] = <<Event("sync", {}, cursor)>>]
          /\ sync' = sync /\ cursor' = cursor /\ turn' = turn
      BY <1>9 DEF Open, server, service
    <2>2. link[k] # "open"
      BY <1>a, <2>1, NoneIsNobody DEF Silent, Socket
    <2>3. k = j
      BY <1>0, <2>1, <2>2 DEF ConnOK
    <2>4. toServer'[k] = <<Event("sync", {}, cursor)>>
      BY <1>0, <2>1, <2>3 DEF ConnOK
    <2>5. DOMAIN toServer'[k] = {1} /\ toServer'[k][1].turn = cursor'
      BY <2>1, <2>4 DEF Event
    <2>6. sync'[k].pc = "none" /\ \A t \in OwnTurns : turn'[t].conn # k
      BY <2>1, <2>3 DEF OneLink
    <2>7. QED
      BY <2>5, <2>6 DEF SyncCommand
  <1>10. ASSUME NEW j \in Conns, ReceiveMessage(j) \/ ReceiveStatus(j) PROVE SyncCommand(k)'
    <2>1. toServer' = toServer /\ sync' = sync /\ link' = link
      BY <1>10 DEF ReceiveMessage, ReceiveStatus, server
    <2>2. QED
      BY <1>d, <2>1
  <1>11. CASE LoadRow \/ LoadList \/ NoTicket \/ Closed \/ Retry \/ Reconnect \/ UNCHANGED vars
    <2>1. toServer' = toServer /\ sync' = sync /\ link' = link
      BY <1>11 DEF LoadRow, LoadList, NoTicket, Closed, Retry, Reconnect, net, server, vars
    <2>2. QED
      BY <1>d, <2>1
  <1>12. QED
    BY <1>1, <1>2, <1>3, <1>4, <1>5, <1>6, <1>7, <1>8, <1>9, <1>10, <1>11 DEF Next, ConnStep, CancelStep, PageStep

\* Whether a connection is still to be synced changes only with its sync.
LEMMA AskedIs ==
    ASSUME Sound, Silent, OneLink, NEW k \in Conns, link[k] = "open", link'[k] = "open", SyncCommand(k), [Next]_vars
    PROVE  (Asked(k)' <=> Asked(k)) \/ SyncAsked(k)
  <1>0. ConnOK /\ ServiceOK /\ PageOK /\ Commanded /\ Socket
    BY DEF Sound, Silent
  <1>a. ws = k
    BY DEF OneLink
  <1>1. ASSUME toServer'[k] = toServer[k] PROVE Asked(k)' <=> Asked(k)
    BY <1>1 DEF Asked
  <1>2. ASSUME toServer[k] # <<>>, toServer[k][1].type # "sync", toServer' = Rest(toServer, k)
        PROVE  Asked(k)' <=> Asked(k)
    <2>1. /\ Len(toServer[k]) \in Nat \ {0} /\ Len(toServer'[k]) = Len(toServer[k]) - 1
          /\ \A i \in 1 .. Len(toServer[k]) - 1 : toServer'[k][i] = toServer[k][i + 1]
          /\ toServer'[k] \in Seq(Commands) /\ toServer[k] \in Seq(Commands)
      BY <1>0, <1>2, RestCommands
    <2>2. ASSUME toServer'[k] # <<>> PROVE toServer'[k][1].type # "sync"
      <3>1. 1 \in 1 .. Len(toServer[k]) - 1 /\ DOMAIN toServer[k] = 1 .. Len(toServer[k])
        BY <2>1, <2>2
      <3>2. 1 + 1 \in DOMAIN toServer[k] /\ 1 + 1 # 1 /\ toServer'[k][1] = toServer[k][1 + 1]
        BY <2>1, <3>1
      <3>3. QED
        BY <3>2 DEF SyncCommand
    <2>3. QED
      BY <1>2, <2>2 DEF Asked
  <1>3. ASSUME NEW e \in Commands, e.type # "sync", toServer' = Sent(toServer, k, <<e>>)
        PROVE  Asked(k)' <=> Asked(k)
    <2>1. /\ Len(toServer[k]) \in Nat /\ Len(toServer'[k]) = Len(toServer[k]) + 1
          /\ toServer'[k][Len(toServer[k]) + 1] = e
          /\ \A i \in 1 .. Len(toServer[k]) : toServer'[k][i] = toServer[k][i]
          /\ toServer'[k] \in Seq(Commands) /\ toServer[k] \in Seq(Commands)
      BY <1>0, <1>3, SentCommands
    <2>2. CASE toServer[k] = <<>>
      <3>1. toServer'[k][1] = e
        BY <2>1, <2>2
      <3>2. QED
        BY <1>3, <2>2, <3>1 DEF Asked
    <2>3. CASE toServer[k] # <<>>
      <3>1. 1 \in 1 .. Len(toServer[k]) /\ Len(toServer'[k]) # 0
        BY <2>1, <2>3
      <3>2. toServer'[k][1] = toServer[k][1] /\ toServer'[k] # <<>>
        BY <2>1, <3>1
      <3>3. QED
        BY <2>3, <3>2 DEF Asked
    <2>4. QED
      BY <2>2, <2>3
  <1>4. ASSUME NEW t \in Turns, TurnStep(t) PROVE Asked(k)' <=> Asked(k)
    BY <1>1, <1>4, TurnStepAlone
  <1>5. ASSUME NEW t \in Turns, Send(t) PROVE Asked(k)' <=> Asked(k)
    <2>1. toServer' = Sent(toServer, ws, <<Event("start", {}, t)>>) /\ Event("start", {}, t) \in Commands
      BY <1>0, <1>5, SendIs
    <2>2. Event("start", {}, t).type # "sync"
      BY DEF Event
    <2>3. QED
      BY <1>a, <1>3, <2>1, <2>2
  <1>6. ASSUME NEW c \in Cancels, Stop(c) PROVE Asked(k)' <=> Asked(k)
    <2>1. /\ toServer' = Sent(toServer, ws, <<Event("cancel", {}, c)>>)
          /\ Event("cancel", {}, c) \in Commands /\ Event("cancel", {}, c).type # "sync"
      BY <1>6 DEF Stop, Event, Commands, Cancels
    <2>2. QED
      BY <1>a, <1>3, <2>1
  <1>7. ASSUME NEW c \in Cancels, CancelStep(c) PROVE Asked(k)' <=> Asked(k)
    BY <1>1, <1>7 DEF CancelStep, CancelMisses, CancelAborts, CancelLate, net
  <1>8. ASSUME NEW j \in Conns, Start(j) \/ CancelIdle(j) \/ CancelAsked(j) PROVE Asked(k)' <=> Asked(k)
    <2>1. /\ link[j] = "open" /\ toServer[j] # <<>> /\ toServer[j][1].type # "sync" /\ toServer' = Rest(toServer, j)
      BY <1>8 DEF Start, CancelIdle, CancelAsked, HeadIs
    <2>2. j = k
      BY <1>a, <2>1 DEF OneLink
    <2>3. QED
      BY <1>2, <2>1, <2>2
  <1>9. ASSUME NEW j \in Conns, SyncAsked(j) PROVE j = k
    BY <1>a, <1>9 DEF SyncAsked, HeadIs, OneLink
  <1>10. ASSUME NEW j \in Conns, SyncRead(j) \/ SyncList(j) \/ ReceiveMessage(j) \/ ReceiveStatus(j) PROVE Asked(k)' <=> Asked(k)
    BY <1>1, <1>10 DEF SyncRead, SyncList, ReceiveMessage, ReceiveStatus, net
  <1>11. ASSUME NEW j \in Conns, Lose(j) PROVE Asked(k)' <=> Asked(k)
    <2>1. toServer'[k] = toServer[k]
      BY <1>0, <1>11 DEF Lose, ConnOK
    <2>2. QED
      BY <1>1, <2>1
  <1>12. ASSUME NEW j \in Conns, Open(j) PROVE FALSE
    BY <1>a, <1>0, <1>12, NoneIsNobody DEF Open, Socket
  <1>13. CASE LoadRow \/ LoadList \/ NoTicket \/ Closed \/ Retry \/ Reconnect \/ UNCHANGED vars
    BY <1>1, <1>13 DEF LoadRow, LoadList, NoTicket, Closed, Retry, Reconnect, net, vars
  <1>14. QED
    BY <1>4, <1>5, <1>6, <1>7, <1>8, <1>9, <1>10, <1>11, <1>12, <1>13 DEF Next, ConnStep, PageStep

LEMMA SyncIs ==
    ASSUME Sound, [Next]_vars, NEW k \in Conns
    PROVE  sync'[k] = sync[k] \/ SyncAsked(k) \/ SyncRead(k) \/ SyncList(k)
  <1>0. sync \in [Conns -> SyncRecords]
    BY DEF Sound, ConnOK
  <1>1. ASSUME NEW t \in Turns, TurnStep(t) \/ Send(t) PROVE sync' = sync
    BY <1>1, TurnStepAlone DEF Send, server
  <1>2. ASSUME NEW c \in Cancels, CancelStep(c) \/ Stop(c) PROVE sync' = sync
    BY <1>2 DEF CancelStep, CancelMisses, CancelAborts, CancelLate, Stop
  <1>3. ASSUME NEW j \in Conns, Start(j) \/ CancelIdle(j) \/ CancelAsked(j) \/ Lose(j) \/ Open(j) \/ ReceiveMessage(j) \/ ReceiveStatus(j)
        PROVE  sync' = sync
    BY <1>3 DEF Start, CancelIdle, CancelAsked, Lose, Open, ReceiveMessage, ReceiveStatus, server
  <1>4. ASSUME NEW j \in Conns, j # k, SyncAsked(j) \/ SyncRead(j) \/ SyncList(j) PROVE sync'[k] = sync[k]
    BY <1>0, <1>4 DEF SyncAsked, SyncRead, SyncList
  <1>5. CASE LoadRow \/ LoadList \/ NoTicket \/ Closed \/ Retry \/ Reconnect \/ UNCHANGED vars
    BY <1>5 DEF LoadRow, LoadList, NoTicket, Closed, Retry, Reconnect, server, vars
  <1>6. QED
    BY <1>1, <1>2, <1>3, <1>4, <1>5 DEF Next, ConnStep, PageStep

LEMMA SyncingIs ==
    ASSUME Sound, Silent, OneLink, NEW k \in Conns, link[k] = "open", link'[k] = "open", SyncCommand(k), [Next]_vars
    PROVE  (Syncing(k)' <=> Syncing(k)) \/ SyncRead(k) \/ SyncList(k)
  <1>0. sync \in [Conns -> SyncRecords]
    BY DEF Sound, ConnOK
  <1>1. CASE SyncAsked(k)
    <2>1. Asked(k) /\ sync'[k].pc # "none"
      BY <1>0, <1>1 DEF SyncAsked, HeadIs, Asked
    <2>2. QED
      BY <2>1 DEF Syncing
  <1>2. CASE sync'[k] = sync[k] /\ (Asked(k)' <=> Asked(k))
    BY <1>2 DEF Syncing
  <1>3. QED
    BY <1>1, <1>2, AskedIs, SyncIs

-----------------------------------------------------------------------------
(***************************************************************************)
(* What is on its way.                                                     *)
(***************************************************************************)
\* The queue of the page's connection, with one more event.
Added(k, e) ==
    /\ Len(toClient[k]) \in Nat /\ DOMAIN toClient[k] = 1 .. Len(toClient[k])
    /\ DOMAIN toClient'[k] = 1 .. Len(toClient[k]) + 1
    /\ toClient'[k][Len(toClient[k]) + 1] = e
    /\ \A i \in DOMAIN toClient[k] : toClient'[k][i] = toClient[k][i]

LEMMA AppendAdds ==
    ASSUME NEW k \in Conns, NEW S, toClient[k] \in Seq(S), NEW e \in S,
           toClient'[k] = Append(toClient[k], e) \/ toClient'[k] = toClient[k] \o <<e>>
    PROVE  Added(k, e)
  <1>1. CASE toClient'[k] = Append(toClient[k], e)
    BY <1>1 DEF Added
  <1>2. CASE toClient'[k] = toClient[k] \o <<e>>
    BY <1>2 DEF Added
  <1>3. QED
    BY <1>1, <1>2

LEMMA SentAdds ==
    ASSUME Sound, OneLink, NEW k \in Conns, link[k] = "open", NEW j \in Conns, NEW e \in Events,
           toClient' = Sent(toClient, j, <<e>>)
    PROVE  (j = k /\ Added(k, e)) \/ (j # k /\ toClient' = toClient)
  <1>1. toClient \in [Conns -> Seq(Events)] /\ toClient[k] \in Seq(Events)
    BY DEF Sound, ConnOK
  <1>2. CASE j = k
    <2>1. toClient' = [toClient EXCEPT ![k] = toClient[k] \o <<e>>]
      BY <1>2 DEF Sent
    <2>2. toClient'[k] = toClient[k] \o <<e>>
      BY <1>1, <2>1
    <2>3. QED
      BY <1>1, <1>2, <2>2, AppendAdds
  <1>3. CASE j # k
    <2>1. link[j] # "open"
      BY <1>3 DEF OneLink
    <2>2. QED
      BY <1>3, <2>1 DEF Sent
  <1>4. QED
    BY <1>2, <1>3

LEMMA SameDelivery ==
    ASSUME NEW k \in Conns, Delivery(k), toClient'[k] = toClient[k], UNCHANGED <<due, cursor>>, Syncing(k)' <=> Syncing(k)
    PROVE  Delivery(k)'
  BY DEF Delivery, Carries, InTurn

LEMMA StatusAdded ==
    ASSUME NEW k \in Conns, Delivery(k), NEW e, Added(k, e), e.seqs = {}, UNCHANGED <<due, cursor>>,
           Syncing(k)' <=> Syncing(k)
    PROVE  Delivery(k)'
  <1> DEFINE n == Len(toClient[k]) + 1
  <1>1. /\ \A i \in DOMAIN toClient'[k] : i = n \/ i \in DOMAIN toClient[k]
        /\ \A i \in DOMAIN toClient[k] : i \in DOMAIN toClient'[k] /\ toClient'[k][i] = toClient[k][i]
        /\ toClient'[k][n].seqs = {}
        /\ \A i \in DOMAIN toClient[k] : \A j \in 1 .. i : j \in DOMAIN toClient[k]
    BY DEF Added
  <1> HIDE DEF n
  <1>2. CASE Syncing(k)
    BY <1>1, <1>2 DEF Delivery
  <1>3. CASE ~Syncing(k)
    <2>1. ASSUME NEW p \in due, p > cursor PROVE \E i \in DOMAIN toClient'[k] : p \in toClient'[k][i].seqs
      BY <1>1, <1>3, <2>1 DEF Delivery, Carries
    <2>2. ASSUME NEW i \in DOMAIN toClient'[k], NEW s \in toClient'[k][i].seqs, NEW p \in due, cursor < p, p < s
          PROVE  \E j \in 1 .. i : p \in toClient'[k][j].seqs
      <3>1. i \in DOMAIN toClient[k] /\ s \in toClient[k][i].seqs
        BY <1>1, <2>2
      <3>2. PICK j \in 1 .. i : p \in toClient[k][j].seqs
        BY <1>3, <2>2, <3>1 DEF Delivery, InTurn
      <3>3. QED
        BY <1>1, <3>1, <3>2
    <2>3. QED
      BY <1>3, <2>1, <2>2 DEF Delivery, Carries, InTurn
  <1>4. QED
    BY <1>2, <1>3

\* An answer that comes after all that are due is added at the end.
LEMMA AnswerAdded ==
    ASSUME Sound, NEW k \in Conns, Delivery(k), ~Syncing(k), ~Syncing(k)', NEW a \in Answers, \A p \in Answers : p <= a,
           NEW e, Added(k, e), e.seqs = {a}, due' = due \cup {a}, cursor' = cursor
    PROVE  Delivery(k)'
  <1> DEFINE n == Len(toClient[k]) + 1
  <1>1. /\ \A i \in DOMAIN toClient'[k] : i = n \/ i \in DOMAIN toClient[k]
        /\ \A i \in DOMAIN toClient[k] : i \in DOMAIN toClient'[k] /\ toClient'[k][i] = toClient[k][i]
        /\ toClient'[k][n].seqs = {a} /\ n \in DOMAIN toClient'[k]
        /\ \A i \in DOMAIN toClient[k] : i \in 1 .. n /\ \A j \in 1 .. i : j \in DOMAIN toClient[k]
    BY DEF Added
  <1> HIDE DEF n
  <1>2. /\ due \subseteq Answers /\ \A p \in Answers : p \in Nat /\ a \in Nat
        /\ \A i \in DOMAIN toClient[k] : toClient[k][i].seqs \subseteq Answers
    <2>1. \A p \in Answers : p \in Nat
      BY RowsInterval DEF Sound, ServiceOK
    <2>2. toClient[k] \in Seq(Events)
      BY DEF Sound, ConnOK
    <2>3. \A i \in DOMAIN toClient[k] : toClient[k][i] \in Events
      BY <2>2
    <2>4. \A i \in DOMAIN toClient[k] : toClient[k][i].seqs \subseteq Answers
      BY <2>3 DEF Events
    <2>5. due \subseteq Answers
      BY DEF Sound, PageOK
    <2>6. QED
      BY <2>1, <2>4, <2>5
  <1>3. ASSUME NEW p \in due, p > cursor PROVE \E i \in DOMAIN toClient[k] : p \in toClient[k][i].seqs
    BY <1>3 DEF Delivery, Carries
  <1>4. ASSUME NEW p \in due', p > cursor PROVE \E i \in DOMAIN toClient'[k] : p \in toClient'[k][i].seqs
    <2>1. CASE p = a
      BY <1>1, <2>1
    <2>2. CASE p \in due
      BY <1>1, <1>3, <1>4, <2>2
    <2>3. QED
      BY <2>1, <2>2
  <1>5. ASSUME NEW i \in DOMAIN toClient'[k], NEW s \in toClient'[k][i].seqs, NEW p \in due', cursor < p, p < s
        PROVE  \E j \in 1 .. i : p \in toClient'[k][j].seqs
    <2>1. s \in Answers
      BY <1>1, <1>2
    <2>2. p # a
      BY <1>2, <1>5, <2>1
    <2>3. p \in due /\ p > cursor
      BY <1>2, <1>5, <2>2
    <2>4. CASE i = n
      <3>1. PICK j \in DOMAIN toClient[k] : p \in toClient[k][j].seqs
        BY <1>3, <2>3
      <3>2. QED
        BY <1>1, <2>4, <3>1
    <2>5. CASE i \in DOMAIN toClient[k]
      <3>1. s \in toClient[k][i].seqs
        BY <1>1, <2>5
      <3>2. PICK j \in 1 .. i : p \in toClient[k][j].seqs
        BY <1>5, <2>3, <2>5, <3>1 DEF Delivery, InTurn
      <3>3. QED
        BY <1>1, <2>5, <3>2
    <2>6. QED
      BY <1>1, <2>4, <2>5
  <1>6. QED
    BY <1>4, <1>5 DEF Delivery, Carries, InTurn

\* The sync sends every answer of the stream after the cursor.
LEMMA ReplayAdded ==
    ASSUME Sound, NEW k \in Conns, Delivery(k), Syncing(k), ~Syncing(k)', NEW rows, \A p \in due : p > cursor => p \in rows,
           UNCHANGED <<due, cursor>>,
           (rows = {} /\ toClient'[k] = toClient[k]) \/ (\E e : e.seqs = rows /\ Added(k, e))
    PROVE  Delivery(k)'
  <1>0. \A i \in DOMAIN toClient[k] : toClient[k][i].seqs = {}
    BY DEF Delivery
  <1>1. CASE rows = {} /\ toClient'[k] = toClient[k]
    <2>1. \A p \in due : ~(p > cursor)
      BY <1>1
    <2>2. \A i \in DOMAIN toClient'[k] : toClient'[k][i].seqs = {}
      BY <1>0, <1>1
    <2>3. QED
      BY <2>1, <2>2 DEF Delivery, Carries, InTurn
  <1>2. ASSUME NEW e, e.seqs = rows, Added(k, e) PROVE Delivery(k)'
    <2> DEFINE n == Len(toClient[k]) + 1
    <2>1. /\ \A i \in DOMAIN toClient'[k] : i = n \/ (i \in DOMAIN toClient[k] /\ toClient'[k][i] = toClient[k][i])
          /\ toClient'[k][n].seqs = rows /\ n \in DOMAIN toClient'[k] /\ n \in 1 .. n
      BY <1>2 DEF Added
    <2> HIDE DEF n
    <2>2. \A p \in due : p > cursor => \E i \in DOMAIN toClient'[k] : p \in toClient'[k][i].seqs
      BY <2>1
    <2>3. ASSUME NEW i \in DOMAIN toClient'[k], NEW s \in toClient'[k][i].seqs, NEW p \in due, cursor < p, p < s
          PROVE  \E j \in 1 .. i : p \in toClient'[k][j].seqs
      <3>1. i = n
        BY <1>0, <2>1
      <3>2. p \in rows
        <4>1. p > cursor
          <5>1. p \in Nat /\ cursor \in Nat
            BY RowsInterval DEF Sound, PageOK, ServiceOK
          <5>2. QED
            BY <2>3, <5>1
        <4>2. QED
          BY <4>1
      <3>3. QED
        BY <2>1, <3>1, <3>2
    <2>4. QED
      BY <1>2, <2>2, <2>3 DEF Delivery, Carries, InTurn
  <1>3. QED
    BY <1>1, <1>2

LEMMA HeadTaken ==
    ASSUME Sound, NEW k \in Conns, Delivery(k), toClient[k] # <<>>, toClient' = Rest(toClient, k),
           cursor' \in Nat, cursor <= cursor', \A q \in toClient[k][1].seqs : q <= cursor', due' = due,
           Syncing(k)' <=> Syncing(k)
    PROVE  Delivery(k)'
  <1>1. toClient \in [Conns -> Seq(Events)] /\ cursor \in Nat /\ \A p \in due : p \in Nat
    BY RowsInterval DEF Sound, ConnOK, ServiceOK, PageOK
  <1> DEFINE q == Rest(toClient, k)
  <1>2. /\ Len(toClient[k]) \in Nat \ {0} /\ Len(q[k]) = Len(toClient[k]) - 1
        /\ \A i \in 1 .. Len(toClient[k]) - 1 : q[k][i] = toClient[k][i + 1]
        /\ q \in [Conns -> Seq(Events)]
    <2>1. toClient \in [Conns -> Seq(Events)]
      BY <1>1
    <2>2. QED
      BY <2>1, RestIs
  <1> HIDE DEF q
  <1>3. toClient' = q
    BY DEF q
  <1>4. q[k] \in Seq(Events) /\ toClient[k] \in Seq(Events)
    BY <1>1, <1>2
  <1>5. DOMAIN toClient[k] = 1 .. Len(toClient[k]) /\ DOMAIN toClient'[k] = 1 .. Len(toClient[k]) - 1
    BY <1>2, <1>3, <1>4
  <1>6. \A i \in DOMAIN toClient'[k] : /\ i \in Nat \ {0} /\ i + 1 \in DOMAIN toClient[k]
                                       /\ toClient'[k][i] = toClient[k][i + 1]
    BY <1>2, <1>3, <1>5
  <1>7. \A i \in DOMAIN toClient[k] : i = 1 \/ (/\ i \in Nat /\ i - 1 \in DOMAIN toClient'[k]
                                                /\ toClient'[k][i - 1] = toClient[k][i])
    <2> SUFFICES ASSUME NEW i \in DOMAIN toClient[k], i # 1
                 PROVE  i \in Nat /\ i - 1 \in DOMAIN toClient'[k] /\ toClient'[k][i - 1] = toClient[k][i]
      OBVIOUS
    <2>1. i \in Nat /\ i - 1 \in 1 .. Len(toClient[k]) - 1 /\ (i - 1) + 1 = i
      BY <1>2, <1>5
    <2>2. q[k][i - 1] = toClient[k][(i - 1) + 1]
      BY <1>2, <2>1
    <2>3. QED
      BY <1>3, <1>5, <2>1, <2>2
  <1>8. CASE Syncing(k)
    <2>1. \A i \in DOMAIN toClient'[k] : toClient'[k][i].seqs = {}
      BY <1>6, <1>8 DEF Delivery
    <2>2. QED
      BY <1>8, <2>1 DEF Delivery
  <1>9. CASE ~Syncing(k)
    <2>1. ASSUME NEW p \in due, p > cursor' PROVE \E i \in DOMAIN toClient'[k] : p \in toClient'[k][i].seqs
      <3>1. p > cursor
        BY <1>1, <2>1
      <3>2. PICK i \in DOMAIN toClient[k] : p \in toClient[k][i].seqs
        BY <1>9, <3>1 DEF Delivery, Carries
      <3>3. i # 1
        <4>1. ~(p <= cursor')
          BY <1>1, <2>1
        <4>2. QED
          BY <3>2, <4>1
      <3>4. QED
        BY <1>7, <3>2, <3>3
    <2>2. ASSUME NEW i \in DOMAIN toClient'[k], NEW s \in toClient'[k][i].seqs, NEW p \in due, cursor' < p, p < s
          PROVE  \E j \in 1 .. i : p \in toClient'[k][j].seqs
      <3>1. i \in Nat \ {0} /\ i + 1 \in DOMAIN toClient[k] /\ s \in toClient[k][i + 1].seqs
        BY <1>6
      <3>2. cursor < p /\ ~(p <= cursor')
        BY <1>1, <2>2
      <3>3. PICK j \in 1 .. i + 1 : p \in toClient[k][j].seqs
        BY <1>9, <2>2, <3>1, <3>2 DEF Delivery, InTurn
      <3>4. j # 1
        BY <3>2, <3>3
      <3>5. j \in DOMAIN toClient[k] /\ j - 1 \in 1 .. i
        BY <1>2, <1>5, <3>1, <3>4
      <3>6. toClient'[k][j - 1] = toClient[k][j]
        BY <1>7, <3>4, <3>5
      <3>7. QED
        BY <3>3, <3>5, <3>6
    <2>3. QED
      BY <1>9, <2>1, <2>2 DEF Delivery, Carries, InTurn
  <1>10. QED
    BY <1>8, <1>9

LEMMA HeadReduced ==
    ASSUME Sound, NEW k \in Conns, Delivery(k), toClient[k] # <<>>, NEW p,
           toClient' = [toClient EXCEPT ![k][1].seqs = @ \ {p}],
           cursor' \in Nat, cursor <= cursor', p <= cursor', due' = due, Syncing(k)' <=> Syncing(k)
    PROVE  Delivery(k)'
  <1>1. toClient \in [Conns -> Seq(Events)] /\ cursor \in Nat /\ \A r \in due : r \in Nat
    BY RowsInterval DEF Sound, ConnOK, ServiceOK, PageOK
  <1>2. toClient[k] \in Seq(Events) /\ 1 \in DOMAIN toClient[k] /\ toClient[k][1] \in Events
    BY <1>1
  <1>3. toClient'[k] = [toClient[k] EXCEPT ![1] = [toClient[k][1] EXCEPT !.seqs = toClient[k][1].seqs \ {p}]]
    BY <1>1
  <1>4. /\ DOMAIN toClient'[k] = DOMAIN toClient[k]
        /\ \A i \in DOMAIN toClient[k] : i # 1 => toClient'[k][i] = toClient[k][i]
        /\ toClient'[k][1] = [toClient[k][1] EXCEPT !.seqs = toClient[k][1].seqs \ {p}]
    BY <1>2, <1>3
  <1>5. toClient'[k][1].seqs = toClient[k][1].seqs \ {p}
    BY <1>2, <1>4 DEF Events
  <1>6. \A i \in DOMAIN toClient[k] :
           /\ toClient'[k][i].seqs \subseteq toClient[k][i].seqs
           /\ \A r \in toClient[k][i].seqs : r # p => r \in toClient'[k][i].seqs
    BY <1>4, <1>5
  <1>7. CASE Syncing(k)
    BY <1>4, <1>6, <1>7 DEF Delivery
  <1>8. CASE ~Syncing(k)
    <2>1. ASSUME NEW r \in due, r > cursor' PROVE r > cursor /\ r # p
      BY <1>1, <2>1
    <2>2. ASSUME NEW r \in due, r > cursor' PROVE \E i \in DOMAIN toClient'[k] : r \in toClient'[k][i].seqs
      <3>1. PICK i \in DOMAIN toClient[k] : r \in toClient[k][i].seqs
        BY <1>8, <2>1, <2>2 DEF Delivery, Carries
      <3>2. QED
        BY <1>4, <1>6, <2>1, <2>2, <3>1
    <2>3. ASSUME NEW i \in DOMAIN toClient'[k], NEW s \in toClient'[k][i].seqs, NEW r \in due, cursor' < r, r < s
          PROVE  \E j \in 1 .. i : r \in toClient'[k][j].seqs
      <3>1. i \in DOMAIN toClient[k] /\ s \in toClient[k][i].seqs
        BY <1>4, <1>6
      <3>2. cursor < r /\ r # p
        BY <1>1, <2>3
      <3>3. PICK j \in 1 .. i : r \in toClient[k][j].seqs
        BY <1>8, <2>3, <3>1, <3>2 DEF Delivery, InTurn
      <3>4. j \in DOMAIN toClient[k]
        BY <1>2, <3>1
      <3>5. QED
        BY <1>6, <3>2, <3>3, <3>4
    <2>4. QED
      BY <1>8, <2>2, <2>3 DEF Delivery, Carries, InTurn
  <1>9. QED
    BY <1>7, <1>8

Bounded == Len(log) <= PageLimit /\ Len(log) <= SyncLimit

\* All that is due is an answer, and a listing that is long enough holds all answers.
LEMMA ListedAll ==
    ASSUME ServiceOK, NEW from \in Nat, NEW limit \in Nat, Len(log) <= limit, NEW p \in Answers, from < p
    PROVE  p \in Listed(from, limit) /\ p \in AnswersIn(from, Len(log))
  <1>1. p \in 1 .. Len(log) /\ log[p].kind = "answer" /\ Len(log) \in Nat
    BY RowsInterval DEF ServiceOK, Answers, AnswersIn
  <1>2. QED
    BY <1>1 DEF Listed, AnswersIn

LEMMA SettleDelivery ==
    ASSUME "sync" \notin Races, Sound, Silent, LastAnswer, OneLink, NEW k \in Conns, link[k] = "open", link'[k] = "open",
           SyncCommand(k), Delivery(k), NEW t \in Turns, Settle(t), [Next]_vars
    PROVE  Delivery(k)'
  <1>1. UNCHANGED <<link, toServer, sync, cursor>>
    BY TurnStepAlone DEF TurnStep
  <1>2. Syncing(k)' <=> Syncing(k)
    BY <1>1 DEF Syncing, Asked
  <1>3. CASE UNCHANGED <<toClient, due>>
    BY <1>1, <1>2, <1>3, SameDelivery
  <1>4. CASE /\ t \in OwnTurns /\ turn[t].conn \in Conns
             /\ turn[t].answer = 0 /\ due' = due
             /\ toClient' = Sent(toClient, turn[t].conn, <<Event("failed", {}, t)>>)
    <2>1. Event("failed", {}, t) \in Events
      BY EventTyped DEF Turns, OwnTurns
    <2>2. (toClient' = toClient) \/ Added(k, Event("failed", {}, t))
      BY <1>4, <2>1, SentAdds
    <2>3. Event("failed", {}, t).seqs = {}
      BY DEF Event
    <2>4. QED
      BY <1>1, <1>2, <1>4, <2>2, <2>3, SameDelivery, StatusAdded
  <1>5. CASE /\ t \in OwnTurns /\ turn[t].conn \in Conns
             /\ turn[t].answer > 0 /\ turn[t].answer \in Answers
             /\ link[turn[t].conn] = "open" /\ due' = due \cup {turn[t].answer}
             /\ toClient' = Sent(toClient, turn[t].conn, <<Event("completed", {turn[t].answer}, t)>>)
    <2> DEFINE a == turn[t].answer
               e == Event("completed", {a}, t)
    <2>1. e \in Events /\ e.seqs = {a}
      BY <1>5, EventTyped DEF Turns, OwnTurns, Event
    <2>2. turn[t].conn = k
      BY <1>5 DEF OneLink
    <2>3. Added(k, e)
      BY <1>5, <2>1, <2>2, SentAdds
    <2>4. turn[t].pc = "persisting" /\ \A p \in Answers : p <= a
      BY <1>5 DEF Settle, LastAnswer
    <2>5. ~Syncing(k)
      <3>1. sync[k].pc = "none"
        BY <1>5, <2>2 DEF Settle
      <3>2. ~Asked(k)
        BY <1>5, <2>2, <2>4 DEF SyncCommand
      <3>3. QED
        BY <3>1, <3>2 DEF Syncing
    <2>6. a \in Answers /\ due' = due \cup {a}
      BY <1>5
    <2> HIDE DEF a, e
    <2>7. QED
      BY <1>1, <1>2, <2>1, <2>3, <2>4, <2>5, <2>6, AnswerAdded
  <1>6. QED
    BY <1>3, <1>4, <1>5, SettleIs

LEMMA DeliveryStep ==
    ASSUME "sync" \notin Races, Bounded, Sound, Silent, LastAnswer, OneLink, SyncFirst, [Next]_vars,
           NEW k \in Conns, link'[k] = "open"
    PROVE  Delivery(k)'
  <1>0. ConnOK /\ ServiceOK /\ PageOK /\ Commanded /\ Socket
    BY DEF Sound, Silent
  <1>a. link[k] = "open" => ws = k /\ phase = "open" /\ SyncCommand(k) /\ Delivery(k)
    BY <1>0, NoneIsNobody DEF SyncFirst, OneLink, Socket
  <1>b. ASSUME link[k] = "open", ~SyncRead(k), ~SyncList(k) PROVE Syncing(k)' <=> Syncing(k)
    BY <1>a, <1>b, SyncingIs
  <1>c. ASSUME link[k] = "open", ~SyncRead(k), ~SyncList(k), toClient'[k] = toClient[k], UNCHANGED <<due, cursor>>
        PROVE  Delivery(k)'
    BY <1>a, <1>b, <1>c, SameDelivery
  <1>d. ASSUME link[k] = "open", ~SyncRead(k), ~SyncList(k), NEW e, e.seqs = {}, Added(k, e), UNCHANGED <<due, cursor>>
        PROVE  Delivery(k)'
    BY <1>a, <1>b, <1>d, StatusAdded
  <1>e. ASSUME link[k] = "open", ~SyncRead(k), ~SyncList(k), NEW j \in Conns, NEW e \in Events, e.seqs = {},
               toClient' = Sent(toClient, j, <<e>>), UNCHANGED <<due, cursor>>
        PROVE  Delivery(k)'
    BY <1>c, <1>d, <1>e, SentAdds
  <1>f. ASSUME link[k] = "open", NEW cs, Confirm(cs), ~SyncRead(k), ~SyncList(k), UNCHANGED <<due, cursor>>
        PROVE  Delivery(k)'
    <2>1. toClient'[k] = toClient[k] \/ toClient'[k] = Append(toClient[k], Event("cancelled", {}, None))
      BY <1>f DEF Confirm
    <2>2. Event("cancelled", {}, None) \in Events /\ Event("cancelled", {}, None).seqs = {}
      BY EventTyped DEF Event
    <2>3. toClient[k] \in Seq(Events)
      BY <1>0 DEF ConnOK
    <2>4. toClient'[k] = toClient[k] \/ Added(k, Event("cancelled", {}, None))
      BY <2>1, <2>2, <2>3, AppendAdds
    <2>5. QED
      BY <1>c, <1>d, <1>f, <2>2, <2>4
  \* a step other than a sync's leaves the sync alone
  <1>g. ASSUME SyncRead(k) \/ SyncList(k) PROVE sync'[k] # sync[k] /\ sync[k].pc # "none"
    BY <1>0, <1>g DEF SyncRead, SyncList, NoSync, ConnOK, SyncRecords
  <1>1. ASSUME NEW t \in Turns, TurnStep(t) PROVE Delivery(k)'
    <2>1. UNCHANGED <<link, toServer, sync, cursor>> /\ (Settle(t) \/ due' = due)
      BY <1>1, TurnStepAlone
    <2>2. link[k] = "open" /\ ~SyncRead(k) /\ ~SyncList(k)
      BY <1>g, <2>1
    <2>3. CASE Settle(t)
      BY <1>a, <2>2, <2>3, SettleDelivery
    <2>4. CASE (Refuse(t) \/ Deny(t)) /\ ~Settle(t)
      <3>1. Event("failed", {}, t) \in Events /\ Event("failed", {}, t).seqs = {}
        BY EventTyped DEF Turns, OwnTurns, Event
      <3>2. toClient' = toClient \/ (turn[t].conn \in Conns /\ toClient' = Sent(toClient, turn[t].conn, <<Event("failed", {}, t)>>))
        <4>1. CASE t \in OwnTurns
          <5>1. turn[t].conn \in Conns
            BY <2>4, <4>1 DEF Refuse, Deny, Asking, Silent, Belongs
          <5>2. QED
            BY <2>4, <4>1, <5>1 DEF Refuse, Deny, Outcome, Report, ReportIgnoringFlag
        <4>2. CASE t \notin OwnTurns
          BY <2>4, <4>2 DEF Refuse, Deny, Outcome, Silent, Belongs, Turns
        <4>3. QED
          BY <4>1, <4>2
      <3>3. QED
        BY <1>c, <1>e, <2>1, <2>2, <2>4, <3>1, <3>2
    <2>5. CASE (EnterTurn(t) \/ Prompt(t)) /\ ~Settle(t)
      <3>1. toClient' = toClient
        BY <2>5 DEF EnterTurn, Prompt, net
      <3>2. QED
        BY <1>c, <2>1, <2>2, <2>5, <3>1
    <2>6. CASE PromptEnds(t) /\ ~Settle(t)
      <3>1. PICK cs : Confirm(cs)
        BY <2>6 DEF PromptEnds
      <3>2. QED
        BY <1>f, <2>1, <2>2, <2>6, <3>1
    <2>7. QED
      BY <1>1, <2>3, <2>4, <2>5, <2>6 DEF TurnStep
  <1>2. ASSUME NEW t \in Turns, Send(t) PROVE Delivery(k)'
    <2>1. UNCHANGED <<link, toClient, sync, cursor, due>>
      BY <1>2 DEF Send, server
    <2>2. QED
      BY <1>c, <1>g, <2>1
  <1>3. ASSUME NEW c \in Cancels, CancelMisses(c) \/ CancelAborts(c) \/ Stop(c) PROVE Delivery(k)'
    <2>1. UNCHANGED <<link, toClient, sync, cursor, due>>
      BY <1>3 DEF CancelMisses, CancelAborts, Stop, net, page
    <2>2. QED
      BY <1>c, <1>g, <2>1
  <1>4. ASSUME NEW c \in Cancels, CancelLate(c) PROVE Delivery(k)'
    <2>1. UNCHANGED <<link, sync, cursor, due>> /\ Confirm({c})
      BY <1>4 DEF CancelLate, page
    <2>2. QED
      BY <1>f, <1>g, <2>1
  <1>5. ASSUME NEW j \in Conns, Start(j) \/ CancelIdle(j) PROVE Delivery(k)'
    <2>1. UNCHANGED <<link, sync, cursor, due>>
      BY <1>5 DEF Start, CancelIdle, page
    <2>2. PICK e \in Events : e.seqs = {} /\ toClient' = Sent(toClient, j, <<e>>)
      <3>1. CASE CancelIdle(j)
        <4>1. Event("failed", {}, None) \in Events /\ Event("failed", {}, None).seqs = {}
          BY EventTyped DEF Event
        <4>2. QED
          BY <3>1, <4>1 DEF CancelIdle
      <3>2. CASE Start(j)
        <4>1. toServer[j][1].turn \in OwnTurns
          BY <1>0, <3>2, StartIs DEF Sound, Silent
        <4>2. Event("accepted", {}, toServer[j][1].turn) \in Events
          BY <4>1, EventTyped DEF OwnTurns
        <4>3. QED
          BY <3>2, <4>2 DEF Start, Event
      <3>3. QED
        BY <1>5, <3>1, <3>2
    <2>3. QED
      BY <1>e, <1>g, <2>1, <2>2
  <1>6. ASSUME NEW j \in Conns, CancelAsked(j) PROVE Delivery(k)'
    <2>1. UNCHANGED <<link, toClient, sync, cursor, due>>
      BY <1>6 DEF CancelAsked, page
    <2>2. QED
      BY <1>c, <1>g, <2>1
  <1>7. ASSUME NEW j \in Conns, SyncAsked(j) PROVE Delivery(k)'
    <2>1. UNCHANGED <<link, toClient, cursor, due>>
      BY <1>7 DEF SyncAsked, page
    <2>2. link[j] = "open" /\ sync'[j].pc = "reading" /\ sync'[j].from = toServer[j][1].turn /\ Asked(j)
      BY <1>0, <1>7 DEF SyncAsked, HeadIs, Asked, ConnOK
    <2>3. j = k
      BY <1>a, <2>1, <2>2 DEF OneLink
    <2>4. sync[k].pc = "none"
      BY <1>a, <2>1, <2>2, <2>3 DEF SyncCommand
    <2>5. ~SyncRead(k) /\ ~SyncList(k)
      BY <1>g, <2>4
    <2>6. QED
      BY <1>c, <2>1, <2>5
  <1>8. ASSUME NEW j \in Conns, j # k, SyncRead(j) \/ SyncList(j) PROVE Delivery(k)'
    <2>1. UNCHANGED <<link, cursor>>
      BY <1>8 DEF SyncRead, SyncList, net, page
    <2>2. sync'[k] = sync[k]
      BY <1>0, <1>8 DEF SyncRead, SyncList, ConnOK
    <2>3. link[j] # "open" \/ link[k] # "open"
      BY <1>8 DEF OneLink
    <2>4. link[k] = "open" => due' = due /\ toClient' = toClient
      BY <1>8, <2>3 DEF SyncRead, SyncList, Sent, net
    <2>5. QED
      BY <1>c, <1>g, <2>1, <2>2, <2>4
  <1>9. CASE SyncRead(k)
    <2>1. /\ UNCHANGED <<link, toClient, toServer, cursor>> /\ sync[k].pc = "reading"
          /\ sync' = [sync EXCEPT ![k] = IF @.from < Len(log) THEN [@ EXCEPT !.pc = "listing"] ELSE NoSync]
      BY <1>9 DEF SyncRead, net, page
    <2>2. link[k] = "open"
      BY <2>1
    <2>3. sync[k].from = cursor /\ Syncing(k) /\ ~Asked(k)
      BY <1>a, <2>1, <2>2 DEF SyncCommand, Syncing
    <2>4. \A i \in DOMAIN toClient[k] : toClient[k][i].seqs = {}
      BY <1>a, <2>2, <2>3 DEF Delivery
    <2>5. CASE cursor < Len(log)
      <3>1. sync'[k].pc = "listing"
        BY <1>0, <2>1, <2>3, <2>5 DEF ConnOK, SyncRecords
      <3>2. Syncing(k)'
        BY <3>1 DEF Syncing
      <3>3. QED
        BY <2>1, <2>4, <3>2 DEF Delivery
    <2>6. CASE ~(cursor < Len(log))
      <3>1. due' \subseteq Answers'
        BY SoundStep DEF Sound, PageOK
      <3>2. Answers' = Answers
        BY <1>9 DEF SyncRead, service, Answers, AnswersIn
      <3>3. \A p \in Answers : ~(p > cursor) /\ ~(cursor < p)
        BY <1>0, <2>6, RowsInterval DEF PageOK, ServiceOK
      <3>4. \A p \in due' : ~(p > cursor') /\ ~(cursor' < p)
        BY <2>1, <3>1, <3>2, <3>3
      <3>5. \A i \in DOMAIN toClient'[k] : toClient'[k][i].seqs = {}
        BY <2>1, <2>4
      <3>6. QED
        BY <3>4, <3>5 DEF Delivery, Carries, InTurn
    <2>7. QED
      BY <2>5, <2>6
  <1>10. CASE SyncList(k)
    <2> DEFINE rows == Listed(sync[k].from, SyncLimit)
               e == Event("replay", rows, None)
    <2>1. /\ UNCHANGED <<link, toServer, cursor, due>> /\ sync[k].pc = "listing"
          /\ toClient' = IF rows = {} THEN toClient ELSE Sent(toClient, k, <<e>>)
          /\ sync' = [sync EXCEPT ![k] = NoSync]
      BY <1>10 DEF SyncList, page
    <2>2. link[k] = "open"
      BY <2>1
    <2>3. sync[k].from = cursor /\ Syncing(k) /\ ~Asked(k)
      BY <1>a, <2>1, <2>2 DEF SyncCommand, Syncing
    <2>4. ~Syncing(k)'
      <3>1. sync'[k].pc = "none"
        BY <1>0, <2>1 DEF ConnOK, NoSync
      <3>2. QED
        BY <2>1, <2>3, <3>1 DEF Syncing, Asked
    <2>5. rows \subseteq Answers
      BY <1>0, ListedAnswers DEF ConnOK, SyncRecords, ServiceOK
    <2>6. e \in Events /\ e.seqs = rows
      BY <2>5, EventTyped DEF Event
    <2>7. \A p \in due : p > cursor => p \in rows
      <3> SUFFICES ASSUME NEW p \in due, p > cursor PROVE p \in rows
        OBVIOUS
      <3>1. p \in Answers /\ p \in Nat /\ cursor \in Nat /\ cursor < p
        BY <1>0, RowsInterval DEF PageOK, ServiceOK
      <3>2. Len(log) <= SyncLimit /\ SyncLimit \in Nat
        BY DEF Bounded
      <3>3. p \in Listed(cursor, SyncLimit)
        BY <1>0, <3>1, <3>2, ListedAll
      <3>4. QED
        BY <2>3, <3>3
    <2> HIDE DEF rows, e
    <2>8. (rows = {} /\ toClient'[k] = toClient[k]) \/ Added(k, e)
      BY <2>1, <2>2, <2>6, SentAdds
    <2>9. QED
      BY <1>a, <2>1, <2>2, <2>3, <2>4, <2>6, <2>7, <2>8, ReplayAdded
  <1>11. ASSUME NEW j \in Conns, Lose(j) PROVE Delivery(k)'
    <2>1. k # j /\ link[k] = "open" /\ toClient'[k] = toClient[k] /\ UNCHANGED <<sync, cursor, due>>
      BY <1>0, <1>11 DEF Lose, server, page, ConnOK
    <2>2. QED
      BY <1>c, <1>g, <2>1
  <1>12. ASSUME NEW j \in Conns, Open(j) PROVE Delivery(k)'
    <2>1. /\ phase = "ticket" /\ link[j] = "unused" /\ link' = [link EXCEPT ![j] = "open"]
          /\ toServer' = [toServer EXCEPT ![j] = <<Event("sync", {}, cursor)>>] /\ toClient' = toClient
      BY <1>12 DEF Open
    <2>2. link[k] # "open"
      BY <1>a, <2>1
    <2>3. k = j
      BY <1>0, <2>1, <2>2 DEF ConnOK
    <2>4. toServer'[k] = <<Event("sync", {}, cursor)>>
      BY <1>0, <2>1, <2>3 DEF ConnOK
    <2>5. toServer'[k] # <<>> /\ toServer'[k][1].type = "sync"
      BY <2>4 DEF Event
    <2>6. toClient'[k] = <<>>
      BY <2>1, <2>2 DEF OneLink
    <2>7. QED
      BY <2>5, <2>6 DEF Delivery, Syncing, Asked
  <1>13. ASSUME NEW j \in Conns, ReceiveStatus(j) PROVE Delivery(k)'
    <2>1. /\ link[j] = "open" /\ toClient[j] # <<>> /\ toClient[j][1].seqs = {} /\ toClient' = Rest(toClient, j)
          /\ UNCHANGED <<link, sync, cursor, due>>
      BY <1>13 DEF ReceiveStatus, Arrives, server
    <2>2. j = k
      BY <1>a, <2>1 DEF OneLink
    <2>3. Syncing(k)' <=> Syncing(k)
      BY <1>b, <1>g, <2>1
    <2>4. cursor \in Nat
      BY <1>0 DEF PageOK, ServiceOK
    <2>5. QED
      BY <1>a, <2>1, <2>2, <2>3, <2>4, HeadTaken
  <1>14. ASSUME NEW j \in Conns, ReceiveMessage(j) PROVE Delivery(k)'
    <2>1. link[j] = "open" /\ toClient[j] # <<>> /\ UNCHANGED <<link, sync, loaded, due>>
      BY <1>14, MessageIs
    <2>2. j = k
      BY <1>a, <2>1 DEF OneLink
    <2>3. PICK p \in Answers :
             /\ Take(p)
             /\ toClient' = IF toClient[k][1].seqs = {p} THEN Rest(toClient, k)
                            ELSE [toClient EXCEPT ![k][1].seqs = @ \ {p}]
      BY <1>14, <2>2, MessageIs
    <2>4. cursor' \in Nat /\ cursor <= cursor' /\ p <= cursor'
      BY <2>1, <2>3, TakeIs
    <2>5. Syncing(k)' <=> Syncing(k)
      BY <1>b, <1>g, <2>1
    <2>6. CASE toClient[k][1].seqs = {p}
      <3>1. \A q \in toClient[k][1].seqs : q <= cursor'
        BY <2>4, <2>6
      <3>2. toClient' = Rest(toClient, k)
        BY <2>3, <2>6
      <3>3. QED
        BY <1>a, <2>1, <2>2, <2>4, <2>5, <3>1, <3>2, HeadTaken
    <2>7. CASE toClient[k][1].seqs # {p}
      <3>1. toClient' = [toClient EXCEPT ![k][1].seqs = @ \ {p}]
        BY <2>3, <2>7
      <3>2. QED
        BY <1>a, <2>1, <2>2, <2>4, <2>5, <3>1, HeadReduced
    <2>8. QED
      BY <2>6, <2>7
  <1>15. CASE LoadRow \/ LoadList \/ Reconnect
    <2>1. phase # "open" /\ link' = link
      BY <1>15 DEF LoadRow, LoadList, Reconnect, net
    <2>2. QED
      BY <1>a, <2>1
  <1>16. CASE NoTicket \/ Closed \/ Retry \/ UNCHANGED vars
    <2>1. UNCHANGED <<link, toClient, sync, cursor, due>>
      BY <1>16 DEF NoTicket, Closed, Retry, net, server, vars
    <2>2. QED
      BY <1>c, <1>g, <2>1
  <1>17. QED
    BY <1>1, <1>2, <1>3, <1>4, <1>5, <1>6, <1>7, <1>8, <1>9, <1>10, <1>11, <1>12, <1>13, <1>14, <1>15, <1>16
    DEF Next, ConnStep, CancelStep, PageStep

-----------------------------------------------------------------------------
(***************************************************************************)
(* No answer that is owed is passed over.                                  *)
(***************************************************************************)
LEMMA OwedIsShownStep ==
    ASSUME Bounded, Sound, Silent, Owed, [Next]_vars
    PROVE  OwedIsShown'
  <1>0. ServiceOK /\ ConnOK /\ PageOK /\ Socket /\ \A p \in Answers : p \in Nat /\ p \in 1 .. Len(log)
    BY RowsInterval DEF Sound, Silent, ServiceOK
  <1>a. cursor \in Nat /\ Len(log) \in Nat /\ cursor <= Len(log) /\ due \subseteq Answers
    BY <1>0 DEF PageOK, ServiceOK
  <1>b. LastAnswer /\ Reported /\ BeforeLoad /\ OneLink /\ SyncFirst /\ \A p \in due : p <= cursor => OnScreen(p)
    BY DEF Owed, OwedIsShown, OnScreen
  <1> SUFFICES ASSUME NEW p \in due', p <= cursor' PROVE OnScreen(p)'
    BY DEF OwedIsShown, OnScreen
  <1>c. ASSUME UNCHANGED <<cursor, loaded, shown>>, p <= cursor => OnScreen(p) PROVE OnScreen(p)'
    <2>1. OnScreen(p)
      BY <1>c
    <2>2. QED
      BY <1>c, <2>1 DEF OnScreen
  <1>1. ASSUME NEW t \in Turns, TurnStep(t) PROVE OnScreen(p)'
    <2>1. UNCHANGED <<cursor, loaded, shown>> /\ (Settle(t) \/ due' = due)
      BY <1>1, TurnStepAlone
    <2>2. CASE p \in due
      BY <1>b, <1>c, <2>1, <2>2
    <2>3. CASE p \notin due
      <3>1. Settle(t)
        BY <2>1, <2>3
      <3>2. t \in OwnTurns /\ turn[t].answer > 0 /\ p = turn[t].answer
        BY <2>3, <3>1, SettleIs
      <3>3. turn[t].pc = "persisting"
        BY <3>1 DEF Settle
      <3>4. p <= cursor => OnScreen(p)
        BY <1>b, <3>2, <3>3 DEF Reported
      <3>5. QED
        BY <1>c, <2>1, <3>4
    <2>4. QED
      BY <2>2, <2>3
  <1>2. ASSUME NEW k \in Conns, SyncRead(k) PROVE OnScreen(p)'
    <2>1. UNCHANGED <<cursor, loaded, shown>>
      BY <1>2 DEF SyncRead, page
    <2>2. CASE p \in due
      BY <1>b, <1>c, <2>1, <2>2
    <2>3. CASE p \notin due
      <3>1. link[k] = "open" /\ p \in AnswersIn(sync[k].from, Len(log)) /\ sync[k].pc = "reading"
        BY <1>2, <2>3 DEF SyncRead
      <3>2. sync[k].from = cursor
        BY <1>b, <3>1 DEF SyncFirst, SyncCommand
      <3>3. p \in cursor + 1 .. Len(log)
        BY <3>1, <3>2 DEF AnswersIn
      <3>4. ~(p <= cursor)
        BY <1>a, <3>3
      <3>5. QED
        BY <1>c, <2>1, <3>4
    <2>4. QED
      BY <2>2, <2>3
  <1>3. CASE LoadRow
    BY <1>3, <1>b DEF LoadRow, BeforeLoad
  <1>4. CASE LoadList
    <2>1. due' = AnswersIn(0, cursor) /\ loaded' = Listed(0, PageLimit)
      BY <1>4 DEF LoadList
    <2>2. p \in 0 + 1 .. cursor /\ log[p].kind = "answer"
      BY <2>1 DEF AnswersIn
    <2>3. p \in Nat /\ 0 < p /\ p \in Answers
      BY <1>a, <2>2 DEF Answers, AnswersIn
    <2>4. Len(log) <= PageLimit /\ PageLimit \in Nat
      BY DEF Bounded
    <2>5. p \in loaded'
      BY <1>0, <2>1, <2>3, <2>4, ListedAll
    <2>6. QED
      BY <2>5 DEF OnScreen
  <1>5. ASSUME NEW k \in Conns, ReceiveMessage(k) PROVE OnScreen(p)'
    <2>1. link[k] = "open" /\ 1 \in DOMAIN toClient[k] /\ UNCHANGED <<loaded, due>>
      BY <1>5, MessageIs
    <2>2. PICK a \in toClient[k][1].seqs : a \in Answers /\ (\A q \in toClient[k][1].seqs : a <= q) /\ Take(a)
      BY <1>5, MessageIs
    <2>3. /\ a \in Nat /\ cursor' \in Nat
          /\ cursor' = cursor \/ (cursor' = a /\ cursor < a /\ OnScreen(a)')
          /\ \A q : OnScreen(q) => OnScreen(q)'
      BY <2>1, <2>2, TakeIs
    <2>4. p \in due /\ p \in Nat
      BY <1>0, <1>a, <2>1
    <2>5. CASE p <= cursor
      BY <1>b, <2>3, <2>4, <2>5
    <2>6. CASE ~(p <= cursor)
      <3>1. cursor' = a /\ cursor < p /\ p <= a /\ OnScreen(a)'
        BY <1>a, <2>3, <2>4, <2>6
      <3>2. ~Syncing(k) /\ InTurn(k)
        <4>1. Delivery(k)
          BY <1>b, <2>1 DEF SyncFirst
        <4>2. QED
          BY <2>1, <2>2, <4>1 DEF Delivery
      <3>3. ASSUME p < a PROVE FALSE
        <4>1. PICK j \in 1 .. 1 : p \in toClient[k][j].seqs
          BY <2>1, <2>2, <2>4, <3>1, <3>2, <3>3 DEF InTurn
        <4>2. j = 1
          OBVIOUS
        <4>3. a <= p
          BY <2>2, <4>1, <4>2
        <4>4. QED
          BY <2>3, <2>4, <3>3, <4>3
      <3>4. p = a
        BY <2>3, <2>4, <3>1, <3>3
      <3>5. QED
        BY <3>1, <3>4
    <2>7. QED
      BY <2>5, <2>6
  <1>6. CASE OtherStep /\ UNCHANGED <<cursor, loaded, shown, due>>
    BY <1>6, <1>b, <1>c
  <1>7. CASE Reconnect
    <2>1. cursor' = 0 /\ p \in Answers
      BY <1>0, <1>7 DEF Reconnect, PageOK
    <2>2. p \in Nat /\ p > 0
      BY <1>a, <2>1, RowsInterval
    <2>3. QED
      BY <2>1, <2>2
  <1>8. QED
    BY <1>1, <1>2, <1>3, <1>4, <1>5, <1>6, <1>7, NextSteps, DueAlone, ScreenAlone

LEMMA OwedInit == Init => Owed
  <1> SUFFICES ASSUME Init PROVE Owed
    OBVIOUS
  <1>1. \A t \in Turns : turn[t].pc = "idle" /\ turn[t].conn = None /\ turn[t].answer = 0
    BY DEF Init
  <1>2. LastAnswer
    BY <1>1 DEF LastAnswer, AtWork
  <1>3. Reported /\ BeforeLoad /\ OwedIsShown
    BY <1>1 DEF Init, Reported, BeforeLoad, OwedIsShown, Turns
  <1>4. OneLink
    BY <1>1, NoneIsNobody DEF Init, OneLink, NoSync, Turns
  <1>5. SyncFirst
    BY DEF Init, SyncFirst
  <1>6. QED
    BY <1>2, <1>3, <1>4, <1>5 DEF Owed

LEMMA OwedStep ==
    ASSUME "sync" \notin Races, Bounded, Sound, Silent, Owed, [Next]_vars
    PROVE  Owed'
  <1>1. LastAnswer /\ Reported /\ BeforeLoad /\ OneLink /\ SyncFirst
    BY DEF Owed
  <1>2. LastAnswer' /\ Reported' /\ BeforeLoad' /\ OneLink'
    BY <1>1, LastAnswerStep, ReportedStep, BeforeLoadStep, OneLinkStep
  <1>3. SyncFirst'
    BY <1>1, SyncCommandStep, DeliveryStep DEF SyncFirst
  <1>4. OwedIsShown'
    BY OwedIsShownStep
  <1>5. QED
    BY <1>2, <1>3, <1>4 DEF Owed

(***************************************************************************)
(* The cursor passes no answer that the page was owed: what the load or a  *)
(* sync found, or a turn of the page reported, is on the screen once       *)
(* lastSeenSequence is beyond it, through any number of lost connections,  *)
(* cancels and turns of other pages, as long as no turn's outcome overtakes*)
(* the sync of its connection and the stream fits in one listing           *)
(* (realtime-transport.ts, handleMessage and handleOpen;                   *)
(* embed/realtime/connection.ts, handleSync; services.ts, its listing).    *)
(***************************************************************************)
THEOREM NothingOwedIsSkipped ==
    ASSUME "sync" \notin Races
    PROVE  Spec /\ []Bounded => []OwedIsShown
  <1>1. Sound /\ Silent /\ Owed /\ Bounded /\ [Next]_vars => Owed'
    BY OwedStep
  <1>2. Owed => OwedIsShown
    BY DEF Owed
  <1>3. QED
    BY <1>1, <1>2, SoundInit, SoundStep, SilentInit, SilentStep, OwedInit, PTL DEF Spec

=============================================================================
